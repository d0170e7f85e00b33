------------------------------ MODULE Gateway ------------------------------
(***************************************************************************)
(* One document in the collaboration gateway of several server processes:  *)
(* the sockets of each process, the process's room and Redis subscription  *)
(* of the document, and the way of an update from its author to every      *)
(* other socket.  The handlers of one process share its memory and give    *)
(* way to each other at every await; a step here is the code from one      *)
(* await to the next.  Redis keeps for each user the number of connections *)
(* in the document and, while there are any, the name shown in the roster. *)
(* What happens between commit and publication is in module Outbox.        *)
(***************************************************************************)
EXTENDS Naturals, FiniteSets

CONSTANTS
  Instances,   \* server processes
  Sockets,     \* connections; each joins the document at most once
  InstanceOf,  \* InstanceOf[c]: the process socket c is connected to
  UserOf,      \* UserOf[c]: the user who connected
  Viewers,     \* sockets whose user may only read
  Updates,     \* edits that clients make
  Lasting,     \* sockets that stay connected once they have joined
  Flaky,       \* sockets whose handlers' calls to Redis and Postgres may fail
  NoRoom

ASSUME SocketsAssumption == IsFiniteSet(Sockets)
ASSUME InstanceAssumption == InstanceOf \in [Sockets -> Instances]
ASSUME FlakyAssumption == Flaky \subseteq Sockets
ASSUME LastingAssumption == Lasting \subseteq Sockets
ASSUME NoRoomAssumption == NoRoom \notin Sockets

Users == {UserOf[c] : c \in Sockets}

VARIABLES
  socket,      \* socket[c]: readyState of the authenticated connection
  join,        \* join[c]: progress of handleJoin for c
  leave,       \* leave[c]: progress of handleDisconnect for c
  leaving,     \* leaving[c]: the room object handleDisconnect looked up
  members,     \* members[r]: sockets in room object r, named by its creator
  room,        \* room[i]: roomsMap entry of the document on instance i
  subscribed,  \* instances whose subscribedChannels holds the document
  listeners,   \* listeners[i]: callbacks i has on the channel doc:<id>
  committed,   \* updates in the operation log
  pending,     \* committed updates with a row in the outbox
  deadLetters, \* updates whose row was deleted unpublished
  inbox,       \* inbox[i]: published frames under way to instance i
  editing,     \* editing[c]: updates of c committed, not yet sent to c's peers
  have,        \* have[c]: updates the client behind c holds, while c is open
  count,       \* count[u]: field of u in presence:doc:<id>:count, 0 if absent
  named,       \* users with a field in presence:doc:<id>:identity
  disturbed,   \* instances on which a join and a disconnect ran together, or
               \* a disconnect was cut short by a failing call
  strayed      \* users one of whose joins was counted or named after its own
               \* disconnect had passed that point, or was lost track of

socketVars == <<socket, join, leave, leaving>>
roomVars == <<members, room, subscribed, listeners>>
updateVars == <<committed, pending, deadLetters, inbox, editing, have>>
presenceVars == <<count, named, strayed>>
vars == <<socketVars, roomVars, updateVars, presenceVars, disturbed>>

Init ==
  /\ socket = [c \in Sockets |-> "open"]
  /\ join = [c \in Sockets |-> "none"]
  /\ leave = [c \in Sockets |-> "none"]
  /\ leaving = [c \in Sockets |-> NoRoom]
  /\ members = [c \in Sockets |-> {}]
  /\ room = [i \in Instances |-> NoRoom]
  /\ subscribed = {}
  /\ listeners = [i \in Instances |-> 0]
  /\ committed = {}
  /\ pending = {}
  /\ deadLetters = {}
  /\ inbox = [i \in Instances |-> {}]
  /\ editing = [c \in Sockets |-> {}]
  /\ have = [c \in Sockets |-> {}]
  /\ count = [u \in Users |-> 0]
  /\ named = {}
  /\ disturbed = {}
  /\ strayed = {}

(* Open sockets in the room the process finds for the document now.         *)
Reached(i) ==
  IF room[i] = NoRoom THEN {} ELSE {c \in members[room[i]] : socket[c] = "open"}

(* handleJoin of c is between the room and its end; handleDisconnect of c   *)
(* is between the room and its end.                                         *)
Joining(c) == join[c] \in {"subscribeDoc", "subscribePresence", "count", "name", "load"}
Leaving(c) == leave[c] \in {"uncount", "announce", "unsubscribeDoc", "unsubscribePresence"}

(* client.presenceCounted of c is set.                                      *)
Counted(c) == join[c] \in {"name", "load", "counted", "joined"}

(* handleDisconnect of c has not come to presenceLeave yet.                 *)
Held(c) == leave[c] \in {"none", "close", "uncount"}

Neighbours(c) == {e \in Sockets : InstanceOf[e] = InstanceOf[c]}

(* Every handler that has passed EnterRoom has set client.user.documentId.  *)
InDocument(c) == join[c] \notin {"none", "refused"}

-----------------------------------------------------------------------------

(* The client goes away, or its connection breaks, or the server closes it. *)
CloseSocket(c) ==
  /\ socket' = [socket EXCEPT ![c] = "closed"]
  /\ leave' = [leave EXCEPT ![c] = IF socket[c] = "open" THEN "close" ELSE @]
  /\ have' = [have EXCEPT ![c] = {}]

Close(c) ==
  /\ c \notin Lasting
  /\ socket[c] = "open"
  /\ CloseSocket(c)
  /\ UNCHANGED <<join, leaving, roomVars, committed, pending, deadLetters, inbox, editing,
                 disturbed, presenceVars>>

(* The membership query of handleJoin returns none.  The message was read   *)
(* from an open socket, which may be closed by now: here and in EnterRoom.  *)
RefuseJoin(c) ==
  /\ join[c] = "none"
  /\ join' = [join EXCEPT ![c] = "refused"]
  /\ CloseSocket(c)
  /\ UNCHANGED <<leaving, roomVars, committed, pending, deadLetters, inbox, editing,
                 disturbed, presenceVars>>

(* Fault to be caught: a new room object replaces one that is there.        *)
NewRoom(c) == c

(* The room a joining socket enters, which the first one creates.           *)
RoomFor(c) == IF room[InstanceOf[c]] = NoRoom THEN c ELSE room[InstanceOf[c]]

(* The member's socket enters the room; then the channels are subscribed    *)
(* to, unless the process has marked them so.                               *)
EnterRoom(c) ==
  LET i == InstanceOf[c] IN
  /\ join[c] = "none"
  /\ room' = [room EXCEPT ![i] = RoomFor(c)]
  /\ members' = [members EXCEPT ![RoomFor(c)] = @ \cup {c}]
  /\ join' = [join EXCEPT ![c] = IF i \in subscribed THEN "count" ELSE "subscribeDoc"]
  /\ disturbed' = IF socket[c] # "open" \/ \E e \in Neighbours(c) : Leaving(e)
                     THEN disturbed \cup {i} ELSE disturbed
  /\ UNCHANGED <<socket, leave, leaving, subscribed, listeners, updateVars, presenceVars>>

(* Fault to be caught: the document channel is not subscribed to.           *)
SubscribeNoDoc(c) ==
  /\ join[c] = "subscribeDoc"
  /\ join' = [join EXCEPT ![c] = "subscribePresence"]
  /\ UNCHANGED <<socket, leave, leaving, roomVars, updateVars, disturbed, presenceVars>>

(* node-redis keeps every callback registered on a channel.                 *)
SubscribeDoc(c) ==
  /\ join[c] = "subscribeDoc"
  /\ listeners' = [listeners EXCEPT ![InstanceOf[c]] = @ + 1]
  /\ join' = [join EXCEPT ![c] = "subscribePresence"]
  /\ UNCHANGED <<socket, leave, leaving, members, room, subscribed, updateVars, disturbed,
                 presenceVars>>

SubscribePresence(c) ==
  /\ join[c] = "subscribePresence"
  /\ subscribed' = subscribed \cup {InstanceOf[c]}
  /\ join' = [join EXCEPT ![c] = "count"]
  /\ UNCHANGED <<socket, leave, leaving, members, room, listeners, updateVars, disturbed,
                 presenceVars>>

(* Either call fails: the socket is closed with 1011.  What is done stays,  *)
(* the callback of the first channel if it is the second call that fails.   *)
SubscribeError(c) ==
  /\ c \in Flaky
  /\ join[c] \in {"subscribeDoc", "subscribePresence"}
  /\ join' = [join EXCEPT ![c] = IF @ = "subscribeDoc" THEN "failed" ELSE "stranded"]
  /\ CloseSocket(c)
  /\ UNCHANGED <<leaving, roomVars, committed, pending, deadLetters, inbox, editing,
                 disturbed, presenceVars>>

(* presenceJoin returns and presenceCounted is set.  The user's first       *)
(* connection is named and announced.                                       *)
CountPresence(c) ==
  LET u == UserOf[c] IN
  /\ join[c] = "count"
  /\ count' = [count EXCEPT ![u] = @ + 1]
  /\ join' = [join EXCEPT ![c] = IF count[u] = 0 THEN "name" ELSE "load"]
  /\ strayed' = IF leave[c] \in {"none", "close"} THEN strayed ELSE strayed \cup {u}
  /\ UNCHANGED <<socket, leave, leaving, roomVars, updateVars, disturbed, named>>

(* The user is looked up, named by setPresenceIdentity, and announced.      *)
SetPresenceIdentity(c) ==
  /\ join[c] = "name"
  /\ named' = named \cup {UserOf[c]}
  /\ join' = [join EXCEPT ![c] = "load"]
  /\ strayed' = IF Held(c) THEN strayed ELSE strayed \cup {UserOf[c]}
  /\ UNCHANGED <<socket, leave, leaving, roomVars, updateVars, disturbed, count>>

(* Snapshot and later operations are read and sent as initial_state: all    *)
(* that is committed by then (Snapshots!LoadsEverything).                   *)
Load(c) ==
  /\ join[c] = "load"
  /\ join' = [join EXCEPT ![c] = "joined"]
  /\ have' = IF socket[c] = "open" THEN [have EXCEPT ![c] = @ \cup committed] ELSE have
  /\ UNCHANGED <<socket, leave, leaving, roomVars, committed, pending, deadLetters, inbox, editing,
                 disturbed, presenceVars>>

(* A later call fails: the handler ends, the socket stays open in its room  *)
(* without initial_state.  A failed presenceJoin may have counted.          *)
JoinError(c) ==
  /\ c \in Flaky
  /\ join[c] \in {"count", "name", "load"}
  /\ join' = [join EXCEPT ![c] = IF @ = "count" THEN "uncounted" ELSE "counted"]
  /\ count' \in {count} \cup
       (IF join[c] = "count" THEN {[count EXCEPT ![UserOf[c]] = @ + 1]} ELSE {})
  /\ strayed' = IF join[c] = "load" THEN strayed ELSE strayed \cup {UserOf[c]}
  /\ UNCHANGED <<socket, leave, leaving, roomVars, updateVars, disturbed, named>>

-----------------------------------------------------------------------------

(* Before documentId is set, or without a room, there is nothing to undo.   *)
LeaveNothing(c) ==
  /\ leave[c] = "close"
  /\ ~InDocument(c) \/ room[InstanceOf[c]] = NoRoom
  /\ leave' = [leave EXCEPT ![c] = "left"]
  /\ strayed' = IF Counted(c) THEN strayed \cup {UserOf[c]} ELSE strayed
  /\ UNCHANGED <<socket, join, leaving, roomVars, updateVars, disturbed, count, named>>

(* handleDisconnect takes the socket out of the room it finds.              *)
LeaveRoom(c) ==
  LET i == InstanceOf[c] IN
  /\ leave[c] = "close"
  /\ InDocument(c)
  /\ room[i] # NoRoom
  /\ members' = [members EXCEPT ![room[i]] = @ \ {c}]
  /\ disturbed' = IF \E e \in Neighbours(c) : Joining(e)
                     THEN disturbed \cup {i} ELSE disturbed
  /\ UNCHANGED <<socket, join, subscribed, listeners, updateVars, presenceVars>>

(* A socket counted as present calls presenceLeave, and goes on with the    *)
(* room object it found.                                                    *)
LeaveCounted(c) ==
  /\ LeaveRoom(c)
  /\ Counted(c)
  /\ leave' = [leave EXCEPT ![c] = "uncount"]
  /\ leaving' = [leaving EXCEPT ![c] = room[InstanceOf[c]]]
  /\ UNCHANGED room

(* Fault to be caught: whoever leaves takes the room with it.               *)
DropAlways(c, left) ==
  /\ room' = [room EXCEPT ![InstanceOf[c]] = NoRoom]
  /\ leave' = [leave EXCEPT ![c] =
                 IF InstanceOf[c] \in subscribed THEN "unsubscribeDoc" ELSE "left"]

(* When the room object is empty the process drops whatever room it has for *)
(* the document by now, and gives up the subscription.                      *)
DropIfEmpty(c, left) ==
  /\ room' = IF left = {} THEN [room EXCEPT ![InstanceOf[c]] = NoRoom] ELSE room
  /\ leave' = [leave EXCEPT ![c] =
                 IF left = {} /\ InstanceOf[c] \in subscribed
                   THEN "unsubscribeDoc" ELSE "left"]

(* Fault to be caught: the name stays when the last connection goes.        *)
LeaveNamed(c) ==
  LET u == UserOf[c] IN
  /\ leave[c] = "uncount"
  /\ count' = [count EXCEPT ![u] = IF @ = 0 THEN 0 ELSE @ - 1]
  /\ DropIfEmpty(c, members[leaving[c]])
  /\ leaving' = [leaving EXCEPT ![c] = NoRoom]
  /\ UNCHANGED <<socket, join, members, subscribed, listeners, updateVars, disturbed,
                 named, strayed>>

(* Fault to be caught: whoever leaves takes the user's field away.          *)
LeaveForAll(c) ==
  LET u == UserOf[c] IN
  /\ leave[c] = "uncount"
  /\ count' = [count EXCEPT ![u] = 0]
  /\ named' = named \ {u}
  /\ DropIfEmpty(c, members[leaving[c]])
  /\ leaving' = [leaving EXCEPT ![c] = NoRoom]
  /\ UNCHANGED <<socket, join, members, subscribed, listeners, updateVars, disturbed,
                 strayed>>

(* The script of presenceLeave: with the last connection both fields go,    *)
(* and the user is announced as offline, with awaits, before the clean-up.  *)
PresenceLeave(c) ==
  LET u == UserOf[c]
      last == count[u] <= 1
  IN
  /\ leave[c] = "uncount"
  /\ count' = [count EXCEPT ![u] = IF last THEN 0 ELSE @ - 1]
  /\ named' = IF last THEN named \ {u} ELSE named
  /\ \/ last /\ leave' = [leave EXCEPT ![c] = "announce"] /\ UNCHANGED <<room, leaving>>
     \/ ~last /\ DropIfEmpty(c, members[leaving[c]])
              /\ leaving' = [leaving EXCEPT ![c] = NoRoom]
  /\ UNCHANGED <<socket, join, members, subscribed, listeners, updateVars, disturbed,
                 strayed>>

LeaveUncounted(c) ==
  /\ LeaveRoom(c)
  /\ ~Counted(c)
  /\ DropIfEmpty(c, members[room[InstanceOf[c]]] \ {c})
  /\ UNCHANGED leaving

DropRoom(c) ==
  /\ leave[c] = "announce"
  /\ DropIfEmpty(c, members[leaving[c]])
  /\ leaving' = [leaving EXCEPT ![c] = NoRoom]
  /\ UNCHANGED <<socket, join, members, subscribed, listeners, updateVars, disturbed,
                 presenceVars>>

(* Fault to be caught: only the callback registered last is removed.        *)
UnsubscribeOne(c) ==
  /\ leave[c] = "unsubscribeDoc"
  /\ listeners' = [listeners EXCEPT ![InstanceOf[c]] = IF @ = 0 THEN 0 ELSE @ - 1]
  /\ leave' = [leave EXCEPT ![c] = "unsubscribePresence"]
  /\ UNCHANGED <<socket, join, leaving, members, room, subscribed, updateVars, disturbed,
                 presenceVars>>

(* Unsubscribing from a channel removes all of its callbacks.               *)
UnsubscribeDoc(c) ==
  /\ leave[c] = "unsubscribeDoc"
  /\ listeners' = [listeners EXCEPT ![InstanceOf[c]] = 0]
  /\ leave' = [leave EXCEPT ![c] = "unsubscribePresence"]
  /\ UNCHANGED <<socket, join, leaving, members, room, subscribed, updateVars, disturbed,
                 presenceVars>>

UnsubscribePresence(c) ==
  /\ leave[c] = "unsubscribePresence"
  /\ subscribed' = subscribed \ {InstanceOf[c]}
  /\ leave' = [leave EXCEPT ![c] = "left"]
  /\ UNCHANGED <<socket, join, leaving, members, room, listeners, updateVars, disturbed,
                 presenceVars>>

(* Fault to be caught: the delivery is enqueued before the commit.          *)
EnqueueUpdate(c, u) ==
  /\ InDocument(c)
  /\ c \notin Viewers
  /\ u \notin pending
  /\ pending' = pending \cup {u}
  /\ UNCHANGED <<socketVars, roomVars, committed, deadLetters, inbox, editing, have, disturbed,
                 presenceVars>>

(* A call of handleDisconnect fails: the rest of the clean-up is skipped.    *)
LeaveError(c) ==
  /\ c \in Flaky
  /\ Leaving(c)
  /\ leave' = [leave EXCEPT ![c] = "left"]
  /\ leaving' = [leaving EXCEPT ![c] = NoRoom]
  /\ disturbed' = disturbed \cup {InstanceOf[c]}
  /\ strayed' = IF Held(c) THEN strayed \cup {UserOf[c]} ELSE strayed
  /\ UNCHANGED <<socket, join, roomVars, updateVars, count, named>>

-----------------------------------------------------------------------------

(* handleUpdate up to the enqueued delivery, of a message received while    *)
(* the socket was open; the socket may have closed meanwhile.               *)
CommitUpdate(c, u) ==
  /\ InDocument(c)
  /\ c \notin Viewers
  /\ u \notin committed
  /\ committed' = committed \cup {u}
  /\ pending' = pending \cup {u}
  /\ editing' = [editing EXCEPT ![c] = @ \cup {u}]
  /\ have' = IF socket[c] = "open" THEN [have EXCEPT ![c] = @ \cup {u}] ELSE have
  /\ UNCHANGED <<socketVars, roomVars, deadLetters, inbox, disturbed, presenceVars>>

(* The rest of handleUpdate: the other open sockets in the room get the     *)
(* update straight away, its author the ack.                                *)
SendToPeers(c, u) ==
  /\ u \in editing[c]
  /\ have' = [e \in Sockets |->
                IF e \in Reached(InstanceOf[c]) \ {c} THEN have[e] \cup {u} ELSE have[e]]
  /\ editing' = [editing EXCEPT ![c] = @ \ {u}]
  /\ UNCHANGED <<socketVars, roomVars, committed, pending, deadLetters, inbox, disturbed,
                 presenceVars>>

(* The outbox processor publishes the update: Redis hands the frame to the  *)
(* processes that are subscribed at that moment.  That a failed deletion    *)
(* repeats it is left out: it only adds to what clients hold.               *)
PublishUpdate(u) ==
  /\ u \in pending
  /\ pending' = pending \ {u}
  /\ inbox' = [i \in Instances |->
                 IF listeners[i] > 0 THEN inbox[i] \cup {u} ELSE inbox[i]]
  /\ UNCHANGED <<socketVars, roomVars, committed, deadLetters, editing, have, disturbed,
                 presenceVars>>

(* Out of attempts, the row is deleted without its update being published.  *)
MoveToDeadLetter(u) ==
  /\ u \in pending
  /\ pending' = pending \ {u}
  /\ deadLetters' = deadLetters \cup {u}
  /\ UNCHANGED <<socketVars, roomVars, committed, inbox, editing, have, disturbed,
                 presenceVars>>

(* Each callback on the channel relays the frame to the document's room.    *)
Relay(i, u) ==
  /\ u \in inbox[i]
  /\ inbox' = [inbox EXCEPT ![i] = @ \ {u}]
  /\ have' = [e \in Sockets |->
                IF listeners[i] > 0 /\ e \in Reached(i) THEN have[e] \cup {u} ELSE have[e]]
  /\ UNCHANGED <<socketVars, roomVars, committed, pending, deadLetters, editing, disturbed,
                 presenceVars>>

-----------------------------------------------------------------------------

Next ==
  \/ \E c \in Sockets :
       \/ Close(c)
       \/ RefuseJoin(c) \/ EnterRoom(c)
       \/ SubscribeDoc(c) \/ SubscribePresence(c) \/ SubscribeError(c)
       \/ CountPresence(c) \/ SetPresenceIdentity(c) \/ Load(c) \/ JoinError(c)
       \/ LeaveNothing(c) \/ LeaveCounted(c) \/ LeaveUncounted(c)
       \/ PresenceLeave(c) \/ DropRoom(c)
       \/ UnsubscribeDoc(c) \/ UnsubscribePresence(c) \/ LeaveError(c)
       \/ \E u \in Updates : CommitUpdate(c, u) \/ SendToPeers(c, u)
  \/ \E u \in Updates :
       PublishUpdate(u) \/ MoveToDeadLetter(u) \/ \E i \in Instances : Relay(i, u)

Spec == Init /\ [][Next]_vars

-----------------------------------------------------------------------------

TypeOK ==
  /\ socket \in [Sockets -> {"open", "closed"}]
  /\ join \in [Sockets -> {"none", "refused", "subscribeDoc",
                           "subscribePresence", "failed", "stranded", "count",
                           "uncounted", "name", "load", "counted", "joined"}]
  /\ leave \in [Sockets -> {"none", "close", "uncount", "announce", "unsubscribeDoc",
                            "unsubscribePresence", "left"}]
  /\ leaving \in [Sockets -> Sockets \cup {NoRoom}]
  /\ members \in [Sockets -> SUBSET Sockets]
  /\ room \in [Instances -> Sockets \cup {NoRoom}]
  /\ subscribed \subseteq Instances
  /\ listeners \in [Instances -> Nat]
  /\ committed \subseteq Updates
  /\ pending \subseteq committed /\ deadLetters \subseteq committed
  /\ inbox \in [Instances -> SUBSET committed]
  /\ editing \in [Sockets -> SUBSET committed]
  /\ have \in [Sockets -> SUBSET committed]
  /\ disturbed \subseteq Instances
  /\ count \in [Users -> 0 .. Cardinality(Sockets)]
  /\ named \subseteq Users
  /\ strayed \subseteq Users

Live(c) == socket[c] = "open" /\ join[c] = "joined"

(* A client that was sent initial_state has every committed update or will  *)
(* be sent it, unless the outbox gave it up: the update waits in the outbox *)
(* or its frame is on the way.                                              *)
(* Joins, edits, publications and departures may interleave at will; only a *)
(* join and a disconnect of one process running together is excluded, and a *)
(* disconnect that failed half way.                                         *)
NoMissedUpdate ==
  \A c \in Sockets :
    Live(c) /\ InstanceOf[c] \notin disturbed =>
      committed \ deadLetters \subseteq have[c] \cup pending \cup inbox[InstanceOf[c]]

(* What handleJoin relies on when it skips the subscription: a document in  *)
(* subscribedChannels has its callback, unless it is being given up.        *)
SubscribedIsListening ==
  \A i \in subscribed \ disturbed :
    listeners[i] > 0 \/ \E c \in Sockets : InstanceOf[c] = i /\ Leaving(c)

(* Once the last socket is gone and the handlers have ended, the process    *)
(* holds neither room nor subscription, however many joins subscribed at    *)
(* the same time.  A callback remains only where a join failed between its  *)
(* two subscriptions: nobody takes that one back, and a later join adds a   *)
(* second, which the comment above the calls means to exclude.             *)
NothingLeftBehind ==
  \A i \in Instances \ disturbed :
    (\A c \in Sockets : InstanceOf[c] = i =>
        socket[c] = "closed" /\ leave[c] = "left" /\ ~Joining(c))
    => /\ room[i] = NoRoom /\ i \notin subscribed
       /\ listeners[i] = 0 \/ \E c \in Sockets : InstanceOf[c] = i /\ join[c] = "stranded"

(* Connections of u that presenceJoin has counted and presenceLeave not yet *)
(* taken away again.                                                        *)
Connections(u) == {c \in Sockets : UserOf[c] = u /\ Counted(c) /\ Held(c)}

(* Nobody is taken for absent while connected: whatever joins, departures   *)
(* and failures of the user's other connections happen meanwhile, the count *)
(* in Redis is never below the number of connections.                       *)
PresentWhileConnected == \A u \in Users : count[u] >= Cardinality(Connections(u))

(* redis.service.ts: the roster is "exactly the set of users currently      *)
(* present".  The count is exact, and a user is in the roster if and only   *)
(* if connected, up to the moment in which the first connection is named.   *)
(* Excluded is a join whose disconnect ran while it was counted or named,   *)
(* or whose presence calls failed.                                          *)
RosterExact ==
  \A u \in Users \ strayed :
    /\ count[u] = Cardinality(Connections(u))
    /\ u \in named => Connections(u) # {}
    /\ Connections(u) # {} =>
         u \in named \/ \E c \in Sockets : UserOf[c] = u /\ join[c] = "name"

(* collaboration.gateway.ts: "every instance subscribed to this document    *)
(* relays that frame into its local room".  So a joined client stays in a   *)
(* room that a subscription feeds for as long as it is connected.           *)
JoinedIsReached ==
  \A c \in Sockets : Live(c) =>
    c \in Reached(InstanceOf[c]) /\ listeners[InstanceOf[c]] > 0

=============================================================================
