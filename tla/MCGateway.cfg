CONSTANTS
  i1 = i1
  i2 = i2
  c1 = c1
  c2 = c2
  c3 = c3
  u1 = u1
  Instances = {i1, i2}
  Sockets = {c1, c2, c3}
  InstanceOf <- MCInstanceOf
  Updates = {u1}
  Viewers = {c1, c2}
  Lasting = {c3}
  Flaky = {c1, c2}
  UserOf <- MCUserOf
  NoRoom = NoRoom

SPECIFICATION Spec
SYMMETRY Symmetry
INVARIANTS TypeOK NoMissedUpdate SubscribedIsListening NothingLeftBehind PresentWhileConnected RosterExact
CHECK_DEADLOCK FALSE
