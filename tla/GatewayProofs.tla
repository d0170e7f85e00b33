---------------------------- MODULE GatewayProofs ----------------------------
(***************************************************************************)
(* For every number of processes, sockets, users and updates: the presence *)
(* counts, and what a process that no join and disconnect, or failing      *)
(* disconnect, has disturbed does with its room and its subscription.      *)
(***************************************************************************)
EXTENDS Gateway, FiniteSetTheorems, TLAPS

-----------------------------------------------------------------------------

Of(i) == {c \in Sockets : InstanceOf[c] = i}

(* handleDisconnect of c has not looked up a room yet.                      *)
Unleft(c) == leave[c] \in {"none", "close"}

Unsubscribing(c) == leave[c] \in {"unsubscribeDoc", "unsubscribePresence"}

(* handleDisconnect of c, past its look-up, may still drop the room.        *)
Dropping(c) == leave[c] \in {"uncount", "announce"}

(* handleJoin of c has seen the document's channels subscribed to.          *)
Listens(c) == join[c] \in {"count", "uncounted", "name", "load", "counted", "joined"}

(* The strengthening, presence.  A count never exceeds the calls of         *)
(* presenceJoin that may have counted, and only what was counted is         *)
(* taken away.                                                              *)
Tried(u) == {c \in Sockets :
               UserOf[c] = u /\ join[c] \in {"uncounted", "name", "load", "counted", "joined"}}

PresenceFine(u) ==
  /\ count[u] <= Cardinality(Tried(u))
  /\ count[u] >= Cardinality(Connections(u))
  /\ u \notin strayed =>
       /\ count[u] = Cardinality(Connections(u))
       /\ u \in named => Connections(u) # {}
       /\ Connections(u) # {} =>
            u \in named \/ \E c \in Sockets : UserOf[c] = u /\ join[c] = "name"

SocketsFine ==
  \A c \in Sockets : /\ socket[c] = "open" => leave[c] = "none"
                     /\ leave[c] = "uncount" => Counted(c)

(* The strengthening, rooms.  A room object has one creator, on its own     *)
(* process, and is empty before that.                                       *)
RoomsFresh ==
  /\ \A c \in Sockets : join[c] = "none" => members[c] = {}
  /\ \A i \in Instances : room[i] # NoRoom =>
       InstanceOf[room[i]] = i /\ join[room[i]] # "none"

(* On an undisturbed process joins and disconnects keep apart ...           *)
Apart(i) ==
  \A c \in Of(i) : Joining(c) => Unleft(c) /\ \A e \in Of(i) : ~Leaving(e)

(* ... its room holds exactly the sockets that entered and have not left,   *)
(* and whoever empties it drops it ...                                      *)
RoomExact(i) ==
  /\ \A c \in Of(i) : InDocument(c) /\ Unleft(c) =>
       room[i] # NoRoom /\ c \in members[room[i]]
  /\ room[i] # NoRoom =>
       \A c \in members[room[i]] : c \in Of(i) /\ InDocument(c) /\ Unleft(c)
  /\ room[i] # NoRoom =>
       \/ members[room[i]] # {}
       \/ \E e \in Of(i) : Dropping(e) /\ leaving[e] = room[i]
  /\ \A e \in Of(i) : Dropping(e) => room[i] \in {leaving[e], NoRoom}

(* ... and the subscription goes with the room, and comes before a load.    *)
SubscriptionExact(i) ==
  /\ \A e \in Of(i) : Unsubscribing(e) => room[i] = NoRoom
  /\ i \in subscribed => room[i] # NoRoom \/ \E e \in Of(i) : Unsubscribing(e)
  /\ i \in subscribed =>
       listeners[i] > 0 \/ \E e \in Of(i) : leave[e] = "unsubscribePresence"
  /\ \A e \in Of(i) : leave[e] = "unsubscribePresence" => listeners[i] = 0
  /\ \A c \in Of(i) : join[c] = "subscribePresence" => listeners[i] > 0
  /\ listeners[i] > 0 /\ i \notin subscribed =>
       \E c \in Of(i) : join[c] \in {"subscribePresence", "stranded"}
  /\ \A c \in Of(i) : Listens(c) /\ Unleft(c) => i \in subscribed /\ listeners[i] > 0

Undisturbed(i) == Apart(i) /\ RoomExact(i) /\ SubscriptionExact(i)

IInv ==
  /\ TypeOK
  /\ \A u \in Users : PresenceFine(u)
  /\ SocketsFine
  /\ RoomsFresh
  /\ \A i \in Instances \ disturbed : Undisturbed(i)
  /\ NoMissedUpdate

-----------------------------------------------------------------------------

(* The presence of the users.                                               *)
LEMMA PresenceNumbers ==
  ASSUME NEW u
  PROVE  /\ IsFiniteSet(Tried(u)) /\ Cardinality(Tried(u)) \in Nat
         /\ IsFiniteSet(Connections(u)) /\ Cardinality(Connections(u)) \in Nat
         /\ Cardinality(Tried(u)) <= Cardinality(Sockets) /\ Cardinality(Sockets) \in Nat
<1>1. Tried(u) \subseteq Sockets /\ Connections(u) \subseteq Sockets
  BY DEF Tried, Connections
<1> QED BY <1>1, SocketsAssumption, FS_Subset, FS_CardinalityType

LEMMA PresenceNumbersNext ==
  ASSUME NEW u
  PROVE  /\ IsFiniteSet(Tried(u)') /\ Cardinality(Tried(u)') \in Nat
         /\ IsFiniteSet(Connections(u)') /\ Cardinality(Connections(u)') \in Nat
         /\ Cardinality(Tried(u)') <= Cardinality(Sockets)
<1>1. Tried(u)' \subseteq Sockets /\ Connections(u)' \subseteq Sockets
  BY DEF Tried, Connections
<1> QED BY <1>1, SocketsAssumption, FS_Subset, FS_CardinalityType

(* The count is left alone, and connections end only of strayed users.      *)
LEMMA PresenceKept ==
  ASSUME NEW u \in Users, PresenceFine(u), count[u] \in Nat,
         count'[u] = count[u], u \in strayed => u \in strayed',
         Tried(u)' = Tried(u), Connections(u)' \subseteq Connections(u),
         u \notin strayed' =>
           /\ Connections(u)' = Connections(u)
           /\ u \in named' => u \in named \/ Connections(u) # {}
           /\ u \in named => u \in named'
           /\ \A c \in Sockets : UserOf[c] = u /\ join[c] = "name" =>
                join'[c] = "name" \/ u \in named'
  PROVE  PresenceFine(u)'
<1> DEFINE before == Connections(u)
           after == Connections(u)'
<1>1. /\ IsFiniteSet(before) /\ Cardinality(before) \in Nat
      /\ Cardinality(after) \in Nat /\ Cardinality(after) <= Cardinality(before)
  BY PresenceNumbers, PresenceNumbersNext, FS_Subset
<1>2. count'[u] <= Cardinality(Tried(u))' /\ count'[u] >= Cardinality(Connections(u))'
  BY <1>1, PresenceNumbers DEF PresenceFine
<1> QED BY <1>2 DEF PresenceFine

(* A step of c that changes neither count nor names: c is neither counted   *)
(* nor uncounted in it, or its user has strayed.                            *)
LEMMA PresenceOfOthers ==
  ASSUME IInv, NEW c \in Sockets, \A e \in Sockets \ {c} :
           join'[e] = join[e] /\ (Held(e)' <=> Held(e))
  PROVE  \A u \in Users \ {UserOf[c]} :
           /\ Tried(u)' = Tried(u) /\ Connections(u)' = Connections(u)
           /\ \A e \in Sockets : UserOf[e] = u => join'[e] = join[e]
BY DEF Tried, Connections, Counted

LEMMA PresenceStill ==
  ASSUME IInv, UNCHANGED <<count, named>>, strayed \subseteq strayed',
         \A c \in Sockets :
           /\ join'[c] = join[c] \/
                /\ join[c] \in {"none", "subscribeDoc", "subscribePresence", "load"}
                /\ join'[c] \in IF join[c] = "load" THEN {"joined", "counted"}
                                ELSE {"refused", "subscribeDoc", "subscribePresence",
                                      "failed", "stranded", "count"}
           /\ Held(c)' => Held(c)
           /\ Held(c) /\ ~Held(c)' /\ Counted(c) => UserOf[c] \in strayed'
  PROVE  \A u \in Users : PresenceFine(u)'
<1> SUFFICES ASSUME NEW u \in Users PROVE PresenceFine(u)'
  OBVIOUS
<1>1. PresenceFine(u) /\ count[u] \in Nat
  BY DEF IInv, TypeOK
<1>2. \A c \in Sockets : (Counted(c)' <=> Counted(c)) /\ (join'[c] = "name" <=> join[c] = "name")
  BY DEF Counted
<1>3. Tried(u)' = Tried(u)
  BY DEF Tried
<1>4. Connections(u)' \subseteq Connections(u)
  BY <1>2 DEF Connections
<1>5. u \notin strayed' => Connections(u)' = Connections(u)
  BY <1>2 DEF Connections
<1> QED BY <1>1, <1>2, <1>3, <1>4, <1>5, PresenceKept

(* A step of c that counts, names or takes away leaves the presence of      *)
(* other users alone.                                                       *)
LEMMA OtherUsersKept ==
  ASSUME IInv, NEW c \in Sockets, strayed \subseteq strayed',
         \A e \in Sockets \ {c} : join'[e] = join[e] /\ (Held(e)' <=> Held(e)),
         \A u \in Users \ {UserOf[c]} : count'[u] = count[u] /\ (u \in named' <=> u \in named)
  PROVE  \A u \in Users \ {UserOf[c]} : PresenceFine(u)'
<1> SUFFICES ASSUME NEW u \in Users \ {UserOf[c]} PROVE PresenceFine(u)'
  OBVIOUS
<1>1. PresenceFine(u) /\ count[u] \in Nat
  BY DEF IInv, TypeOK
<1>2. /\ Tried(u)' = Tried(u) /\ Connections(u)' = Connections(u)
      /\ \A e \in Sockets : UserOf[e] = u => join'[e] = join[e]
  BY PresenceOfOthers
<1> QED BY <1>1, <1>2, PresenceKept

LEMMA CountPresenceCounts ==
  ASSUME IInv, NEW c \in Sockets, CountPresence(c)
  PROVE  \A u \in Users : PresenceFine(u)'
<1> DEFINE u == UserOf[c]
<1>1. /\ TypeOK /\ u \in Users /\ PresenceFine(u) /\ join[c] = "count"
      /\ count' = [count EXCEPT ![u] = @ + 1] /\ named' = named /\ leave' = leave
      /\ strayed' = IF leave[c] \in {"none", "close"} THEN strayed ELSE strayed \cup {u}
      /\ join' = [join EXCEPT ![c] = IF count[u] = 0 THEN "name" ELSE "load"]
  BY DEF IInv, CountPresence, Users
<1>2. /\ count[u] \in Nat /\ count'[u] = count[u] + 1
      /\ join'[c] = IF count[u] = 0 THEN "name" ELSE "load"
      /\ \A e \in Sockets \ {c} : join'[e] = join[e]
  BY <1>1 DEF TypeOK
<1>3. leave[c] # "uncount"
  BY <1>1 DEF IInv, SocketsFine, Counted
<1>4. \A v \in Users \ {u} : PresenceFine(v)'
  <2>1. \A v \in Users \ {u} : count'[v] = count[v]
    BY <1>1 DEF TypeOK
  <2> QED BY <1>1, <1>2, <2>1, OtherUsersKept DEF Held
<1>5. Tried(u)' = Tried(u) \cup {c} /\ c \notin Tried(u)
  BY <1>1, <1>2 DEF Tried
<1>6. /\ c \notin Connections(u)
      /\ Held(c) => Connections(u)' = Connections(u) \cup {c}
      /\ ~Held(c) => Connections(u)' = Connections(u)
  BY <1>1, <1>2 DEF Connections, Counted, Held
<1>7. Cardinality(Tried(u)') = Cardinality(Tried(u)) + 1
  BY <1>5, PresenceNumbers, FS_AddElement
<1>8. /\ Held(c) => Cardinality(Connections(u)') = Cardinality(Connections(u)) + 1
      /\ ~Held(c) => Cardinality(Connections(u)') = Cardinality(Connections(u))
  BY <1>6, PresenceNumbers, FS_AddElement
<1>9. u \notin strayed' => Held(c) /\ u \notin strayed
  BY <1>1 DEF Held
<1>10. count[u] # 0 /\ u \notin strayed =>
          u \in named \/ \E e \in Sockets : UserOf[e] = u /\ join[e] = "name"
  <2>1. Connections(u) = {} => Cardinality(Connections(u)) = 0
    BY FS_EmptySet
  <2> QED BY <1>1, <2>1 DEF PresenceFine
<1>11. u \notin strayed' =>
         u \in named' \/ \E e \in Sockets : UserOf[e] = u /\ join'[e] = "name"
  BY <1>1, <1>2, <1>9, <1>10
<1>12. /\ count'[u] <= Cardinality(Tried(u)') /\ count'[u] >= Cardinality(Connections(u)')
       /\ u \notin strayed' => count'[u] = Cardinality(Connections(u)')
  BY <1>1, <1>2, <1>7, <1>8, <1>9, PresenceNumbers DEF PresenceFine
<1>13. u \notin strayed' => Connections(u)' # {}
  BY <1>6, <1>9
<1> HIDE DEF u
<1>14. PresenceFine(u)'
  BY <1>11, <1>12, <1>13 DEF PresenceFine
<1> QED BY <1>4, <1>14

LEMMA SetPresenceIdentityNames ==
  ASSUME IInv, NEW c \in Sockets, SetPresenceIdentity(c)
  PROVE  \A u \in Users : PresenceFine(u)'
<1> DEFINE u == UserOf[c]
<1>1. /\ TypeOK /\ u \in Users /\ PresenceFine(u) /\ join[c] = "name" /\ count[u] \in Nat
      /\ named' = named \cup {u} /\ count' = count /\ leave' = leave
      /\ strayed' = IF Held(c) THEN strayed ELSE strayed \cup {u}
      /\ join' = [join EXCEPT ![c] = "load"]
  BY DEF IInv, SetPresenceIdentity, Users, TypeOK
<1>2. join'[c] = "load" /\ \A e \in Sockets \ {c} : join'[e] = join[e]
  BY <1>1 DEF TypeOK
<1>3. \A v \in Users \ {u} : PresenceFine(v)'
  BY <1>1, <1>2, OtherUsersKept DEF Held
<1>4. Tried(u)' = Tried(u) /\ Connections(u)' = Connections(u)
  BY <1>1, <1>2 DEF Tried, Connections, Counted, Held
<1>5. u \notin strayed' => c \in Connections(u)
  BY <1>1 DEF Connections, Counted
<1>6. PresenceFine(u)'
  BY <1>1, <1>4, <1>5, PresenceKept
<1> QED BY <1>3, <1>6

(* A failed presenceJoin may have counted or not: its user has strayed.     *)
LEMMA JoinErrorCounts ==
  ASSUME IInv, NEW c \in Sockets, JoinError(c)
  PROVE  \A u \in Users : PresenceFine(u)'
<1> DEFINE u == UserOf[c]
<1>1. /\ TypeOK /\ u \in Users /\ PresenceFine(u) /\ join[c] \in {"count", "name", "load"}
      /\ named' = named /\ leave' = leave /\ count[u] \in Nat
      /\ count' \in {count} \cup
           (IF join[c] = "count" THEN {[count EXCEPT ![u] = @ + 1]} ELSE {})
      /\ strayed' = IF join[c] = "load" THEN strayed ELSE strayed \cup {u}
      /\ join' = [join EXCEPT ![c] = IF @ = "count" THEN "uncounted" ELSE "counted"]
  BY DEF IInv, JoinError, Users, TypeOK
<1>2. /\ join'[c] = IF join[c] = "count" THEN "uncounted" ELSE "counted"
      /\ \A e \in Sockets \ {c} : join'[e] = join[e]
  BY <1>1 DEF TypeOK
<1>3. \A v \in Users \ {u} : PresenceFine(v)'
  <2>1. \A v \in Users \ {u} : count'[v] = count[v]
    BY <1>1 DEF TypeOK
  <2> QED BY <1>1, <1>2, <2>1, OtherUsersKept DEF Held
<1>4. Connections(u)' = Connections(u)
  BY <1>1, <1>2 DEF Connections, Counted, Held
<1>5. ASSUME join[c] = "count" PROVE PresenceFine(u)'
  <2>1. Tried(u)' = Tried(u) \cup {c} /\ c \notin Tried(u)
    BY <1>2, <1>5 DEF Tried
  <2>2. Cardinality(Tried(u)') = Cardinality(Tried(u)) + 1
    BY <2>1, PresenceNumbers, FS_AddElement
  <2>3. count'[u] \in {count[u], count[u] + 1} /\ u \in strayed'
    BY <1>1, <1>5 DEF TypeOK
  <2>4. /\ count[u] <= Cardinality(Tried(u)) /\ count[u] >= Cardinality(Connections(u))
        /\ Cardinality(Tried(u)) \in Nat /\ Cardinality(Connections(u)) \in Nat
    BY <1>1, PresenceNumbers DEF PresenceFine
  <2>5. /\ count'[u] <= Cardinality(Tried(u)') /\ count'[u] >= Cardinality(Connections(u)')
    BY <1>1, <1>4, <2>2, <2>3, <2>4
  <2> QED BY <2>3, <2>5 DEF PresenceFine
<1>6. ASSUME join[c] # "count" PROVE PresenceFine(u)'
  <2>1. Tried(u)' = Tried(u) /\ count' = count
    BY <1>1, <1>2, <1>6 DEF Tried
  <2>2. u \notin strayed' => join[c] # "name"
    BY <1>1, <1>6
  <2>3. /\ u \in strayed => u \in strayed'
        /\ count'[u] = count[u] /\ Connections(u)' \subseteq Connections(u)
    BY <1>1, <1>4, <2>1
  <2>4. u \notin strayed' => \A e \in Sockets : join[e] = "name" => join'[e] = "name"
    BY <1>2, <2>2
  <2> QED BY <1>1, <1>4, <2>1, <2>3, <2>4, PresenceKept
<1> QED BY <1>3, <1>5, <1>6

(* A socket calls presenceLeave only when its own presenceJoin has counted. *)
LEMMA PresenceLeaveUncounts ==
  ASSUME IInv, NEW c \in Sockets, PresenceLeave(c)
  PROVE  \A u \in Users : PresenceFine(u)'
<1> DEFINE u == UserOf[c]
           last == count[u] <= 1
<1>1. /\ TypeOK /\ u \in Users /\ PresenceFine(u) /\ leave[c] = "uncount" /\ Counted(c)
      /\ count[u] \in Nat /\ join' = join /\ strayed' = strayed
      /\ count' = [count EXCEPT ![u] = IF last THEN 0 ELSE @ - 1]
      /\ named' = IF last THEN named \ {u} ELSE named
  BY DEF IInv, PresenceLeave, Users, TypeOK, SocketsFine
<1>2. /\ leave'[c] \in {"announce", "unsubscribeDoc", "left"}
      /\ \A e \in Sockets \ {c} : leave'[e] = leave[e]
  BY <1>1 DEF PresenceLeave, DropIfEmpty, TypeOK
<1>3. \A v \in Users \ {u} : PresenceFine(v)'
  <2>1. \A v \in Users \ {u} : count'[v] = count[v] /\ (v \in named' <=> v \in named)
    BY <1>1 DEF TypeOK
  <2> QED BY <1>1, <1>2, <2>1, OtherUsersKept DEF Held
<1>4. Tried(u)' = Tried(u)
  BY <1>1 DEF Tried
<1>5. c \in Connections(u) /\ Connections(u)' = Connections(u) \ {c}
  BY <1>1, <1>2 DEF Connections, Counted, Held
<1> DEFINE before == Connections(u)
           after == Connections(u)'
<1>6. /\ Cardinality(before) \in Nat /\ Cardinality(after) \in Nat
      /\ Cardinality(before) = Cardinality(after) + 1
  <2>1. Cardinality(after) = Cardinality(before) - 1
    BY <1>5, PresenceNumbers, FS_RemoveElement
  <2> QED BY <2>1, PresenceNumbers, PresenceNumbersNext
<1>7. after = {} <=> Cardinality(after) = 0
  BY PresenceNumbersNext, FS_EmptySet
<1>8. count'[u] = IF last THEN 0 ELSE count[u] - 1
  BY <1>1 DEF TypeOK
<1>9. count[u] <= Cardinality(Tried(u)) /\ count[u] >= Cardinality(before)
  BY <1>1 DEF PresenceFine
<1>10. /\ count'[u] <= Cardinality(Tried(u)') /\ count'[u] >= Cardinality(after)
  <2> HIDE DEF before, after, u
  <2> QED BY <1>1, <1>4, <1>6, <1>8, <1>9, PresenceNumbers
<1>11. ASSUME u \notin strayed
       PROVE  /\ count'[u] = Cardinality(after)
              /\ u \in named' => after # {}
              /\ after # {} =>
                   u \in named' \/ \E e \in Sockets : UserOf[e] = u /\ join'[e] = "name"
  <2>1. /\ count[u] = Cardinality(before)
        /\ u \in named \/ \E e \in Sockets : UserOf[e] = u /\ join[e] = "name"
    BY <1>1, <1>5, <1>11 DEF PresenceFine
  <2>2. count'[u] = Cardinality(after) /\ (last <=> after = {})
    <3> HIDE DEF before, after, u
    <3> QED BY <1>1, <1>6, <1>7, <1>8, <2>1
  <2> QED BY <1>1, <2>1, <2>2
<1>12. PresenceFine(u)'
  BY <1>1, <1>10, <1>11 DEF PresenceFine
<1> QED BY <1>3, <1>12

-----------------------------------------------------------------------------

(* The room and the subscription of an undisturbed process.                 *)

(* What the progress of a handler may be without touching either.           *)
JoinGoesOn(c) ==
  \/ join'[c] = join[c]
  \/ join[c] = "none" /\ join'[c] = "refused"
  \/ Listens(c) /\ Listens(c)' /\ (Joining(c)' => Joining(c))

LeaveGoesOn(c) ==
  \/ leave'[c] = leave[c]
  \/ leave[c] = "none" /\ leave'[c] = "close"
  \/ leave[c] = "uncount" /\ leave'[c] = "announce"
  \/ ~InDocument(c) /\ leave[c] = "close" /\ leave'[c] = "left"

LEMMA RoomsKept ==
  ASSUME IInv, NEW i \in Instances \ disturbed, room'[i] = room[i],
         room[i] # NoRoom => members'[room[i]] = members[room[i]],
         listeners'[i] = listeners[i], i \in subscribed' <=> i \in subscribed,
         \A c \in Of(i) : leaving'[c] = leaving[c] /\ JoinGoesOn(c) /\ LeaveGoesOn(c)
  PROVE  Undisturbed(i)'
<1>1. Apart(i) /\ RoomExact(i) /\ SubscriptionExact(i)
  BY DEF IInv, Undisturbed
<1>2. \A c \in Of(i) :
        /\ Joining(c)' => Joining(c)
        /\ Listens(c)' <=> Listens(c)
        /\ InDocument(c)' <=> InDocument(c)
        /\ join'[c] \in {"subscribePresence", "stranded"} <=>
             join[c] \in {"subscribePresence", "stranded"}
        /\ join'[c] = "subscribePresence" <=> join[c] = "subscribePresence"
  BY DEF JoinGoesOn, Joining, Listens, InDocument
<1>3. \A c \in Of(i) :
        /\ Leaving(c)' <=> Leaving(c)
        /\ InDocument(c) => (Unleft(c)' <=> Unleft(c))
        /\ Dropping(c)' <=> Dropping(c)
        /\ Unsubscribing(c)' <=> Unsubscribing(c)
        /\ leave'[c] = "unsubscribePresence" <=> leave[c] = "unsubscribePresence"
  BY DEF LeaveGoesOn, Leaving, Unleft, Dropping, Unsubscribing
<1>4. \A c \in Of(i) : Joining(c) => InDocument(c)
  BY DEF Joining, InDocument
<1>5. \A c \in Of(i) : Listens(c) => InDocument(c)
  BY DEF Listens, InDocument
<1>6. Apart(i)'
  BY <1>1, <1>2, <1>3, <1>4 DEF Apart, Of
<1>7. RoomExact(i)'
  BY <1>1, <1>2, <1>3 DEF RoomExact, Of
<1>8. SubscriptionExact(i)'
  BY <1>1, <1>2, <1>3, <1>5 DEF SubscriptionExact, Of
<1> QED BY <1>6, <1>7, <1>8 DEF Undisturbed

LEMMA ClosedSocket ==
  ASSUME TypeOK, SocketsFine, NEW c \in Sockets, CloseSocket(c)
  PROVE  /\ \A e \in Sockets \ {c} : /\ leave'[e] = leave[e] /\ socket'[e] = socket[e]
                                    /\ have'[e] = have[e]
         /\ leave'[c] = leave[c] \/ (leave[c] = "none" /\ leave'[c] = "close")
         /\ socket'[c] = "closed" /\ have'[c] = {}
<1>1. /\ socket \in [Sockets -> {"open", "closed"}]
      /\ leave \in [Sockets -> {"none", "close", "uncount", "announce", "unsubscribeDoc",
                               "unsubscribePresence", "left"}]
      /\ have \in [Sockets -> SUBSET committed]
  BY DEF TypeOK
<1>2. /\ socket' = [socket EXCEPT ![c] = "closed"] /\ have' = [have EXCEPT ![c] = {}]
      /\ leave' = [leave EXCEPT ![c] = IF socket[c] = "open" THEN "close" ELSE leave[c]]
  BY DEF CloseSocket
<1>3. socket[c] = "open" => leave[c] = "none"
  BY DEF SocketsFine
<1> QED BY <1>1, <1>2, <1>3

(* A step of a socket touches the room objects and the subscription of its  *)
(* own process only.                                                        *)
LEMMA OtherProcesses ==
  ASSUME IInv, NEW c \in Sockets, disturbed \subseteq disturbed',
         \A e \in Sockets \ {c} :
           join'[e] = join[e] /\ leave'[e] = leave[e] /\ leaving'[e] = leaving[e],
         \A i \in Instances \ {InstanceOf[c]} :
           /\ room'[i] = room[i] /\ listeners'[i] = listeners[i]
           /\ i \in subscribed' <=> i \in subscribed,
         \A r \in Sockets : InstanceOf[r] # InstanceOf[c] => members'[r] = members[r]
  PROVE  \A i \in Instances \ disturbed' : i # InstanceOf[c] => Undisturbed(i)'
<1> SUFFICES ASSUME NEW i \in Instances \ disturbed', i # InstanceOf[c]
             PROVE  Undisturbed(i)'
  OBVIOUS
<1>1. i \in Instances \ disturbed
  OBVIOUS
<1>2. room[i] # NoRoom => members'[room[i]] = members[room[i]]
  BY DEF IInv, TypeOK, RoomsFresh
<1>3. \A e \in Of(i) : leaving'[e] = leaving[e] /\ JoinGoesOn(e) /\ LeaveGoesOn(e)
  BY DEF Of, JoinGoesOn, LeaveGoesOn
<1> QED BY <1>1, <1>2, <1>3, RoomsKept

LEMMA EnterRoomExact ==
  ASSUME IInv, NEW c \in Sockets, EnterRoom(c), InstanceOf[c] \notin disturbed'
  PROVE  Undisturbed(InstanceOf[c])'
<1> DEFINE i == InstanceOf[c]
           r == RoomFor(c)
<1>1. i \in Instances /\ c \in Of(i)
  BY InstanceAssumption DEF Of
<1>2. /\ TypeOK /\ RoomsFresh /\ join[c] = "none"
      /\ UNCHANGED <<leave, leaving, subscribed, listeners>>
      /\ room' = [room EXCEPT ![i] = r] /\ members' = [members EXCEPT ![r] = @ \cup {c}]
      /\ join' = [join EXCEPT ![c] = IF i \in subscribed THEN "count" ELSE "subscribeDoc"]
      /\ i \notin disturbed /\ socket[c] = "open"
      /\ \A e \in Of(i) : ~Leaving(e)
  BY DEF IInv, EnterRoom, Neighbours, Of
<1>3. Apart(i) /\ RoomExact(i) /\ SubscriptionExact(i) /\ leave[c] = "none"
  BY <1>1, <1>2 DEF IInv, Undisturbed, SocketsFine
<1>4. /\ join'[c] = IF i \in subscribed THEN "count" ELSE "subscribeDoc"
      /\ \A e \in Of(i) \ {c} : join'[e] = join[e]
  BY <1>2 DEF TypeOK, Of
<1>5. PICK s \in Sockets : /\ s = r /\ s # NoRoom
                           /\ room[i] = NoRoom => s = c /\ members[s] = {}
                           /\ room[i] # NoRoom => s = room[i]
  BY <1>1, <1>2, NoRoomAssumption DEF TypeOK, RoomFor, RoomsFresh
<1>6. room'[i] = s /\ members'[s] = members[s] \cup {c}
  BY <1>1, <1>2, <1>5 DEF TypeOK
<1> HIDE DEF r
<1>7. \A e \in Of(i) : ~Leaving(e)' /\ ~Dropping(e)' /\ ~Unsubscribing(e)'
  BY <1>2 DEF Leaving, Dropping, Unsubscribing
<1>8. Apart(i)'
  <2>1. ASSUME NEW e \in Of(i), Joining(e)' PROVE Unleft(e)'
    BY <1>2, <1>3, <1>4, <2>1 DEF Apart, Joining, Unleft
  <2> QED BY <1>7, <2>1 DEF Apart, Of
<1>9. RoomExact(i)'
  <2>1. ASSUME NEW e \in Of(i), InDocument(e)', Unleft(e)' PROVE e \in members'[s]
    BY <1>2, <1>3, <1>4, <1>5, <1>6, <2>1 DEF RoomExact, InDocument, Unleft
  <2>2. ASSUME NEW e \in members'[s] PROVE e \in Of(i) /\ InDocument(e)' /\ Unleft(e)'
    <3>1. CASE e = c
      BY <1>1, <1>2, <1>3, <1>4, <3>1 DEF InDocument, Unleft
    <3>2. CASE e # c
      <4>1. room[i] # NoRoom /\ e \in members[room[i]]
        BY <1>5, <1>6, <2>2, <3>2
      <4> QED BY <1>2, <1>3, <1>4, <3>2, <4>1 DEF RoomExact, InDocument, Unleft
    <3> QED BY <3>1, <3>2
  <2> QED BY <1>5, <1>6, <1>7, <2>1, <2>2 DEF RoomExact, Of
<1>10. SubscriptionExact(i)'
  <2>1. \A e \in Of(i) : leave'[e] # "unsubscribePresence" /\ leave[e] # "unsubscribePresence"
    BY <1>2, <1>7 DEF Leaving
  <2>2. i \in subscribed => listeners[i] > 0
    BY <1>3, <2>1 DEF SubscriptionExact
  <2>3. \A e \in Of(i) : join'[e] = "subscribePresence" <=> join[e] = "subscribePresence"
    BY <1>2, <1>4
  <2>4. \A e \in Of(i) : join[e] = "stranded" => join'[e] = "stranded"
    BY <1>2, <1>4
  <2>5. \A e \in Of(i) : Listens(e)' /\ Unleft(e)' => i \in subscribed /\ listeners[i] > 0
    BY <1>2, <1>3, <1>4, <2>2 DEF SubscriptionExact, Listens, Unleft
  <2> QED BY <1>2, <1>3, <1>5, <1>6, <1>7, <2>1, <2>2, <2>3, <2>4, <2>5
          DEF SubscriptionExact, Of
<1> QED BY <1>8, <1>9, <1>10 DEF Undisturbed

(* A join, of which Apart says that no disconnect is on its way, puts the   *)
(* callback on the channel before it marks the channel as subscribed to.    *)
LEMMA SubscribeExact ==
  ASSUME IInv, NEW c \in Sockets,
         SubscribeDoc(c) \/ SubscribePresence(c) \/ SubscribeError(c),
         InstanceOf[c] \notin disturbed'
  PROVE  Undisturbed(InstanceOf[c])'
<1> DEFINE i == InstanceOf[c]
<1>1. i \in Instances /\ c \in Of(i) /\ TypeOK /\ SocketsFine
  BY InstanceAssumption DEF Of, IInv
<1>2. /\ UNCHANGED <<leaving, members, room>> /\ i \notin disturbed
      /\ join[c] \in {"subscribeDoc", "subscribePresence"}
      /\ \A e \in Of(i) \ {c} : join'[e] = join[e] /\ leave'[e] = leave[e]
      /\ leave'[c] = leave[c] \/ (leave[c] = "none" /\ leave'[c] = "close")
      /\ join'[c] \in {"subscribePresence", "failed", "stranded", "count"}
  <2>1. PICK at \in {"subscribePresence", "failed", "stranded", "count"} : join' = [join EXCEPT ![c] = at]
    BY DEF SubscribeDoc, SubscribePresence, SubscribeError
  <2>2. /\ UNCHANGED <<leaving, members, room, disturbed>>
        /\ join[c] \in {"subscribeDoc", "subscribePresence"}
        /\ leave' = leave \/ CloseSocket(c)
    BY DEF SubscribeDoc, SubscribePresence, SubscribeError, roomVars
  <2>3. /\ \A e \in Sockets \ {c} : leave'[e] = leave[e]
        /\ leave'[c] = leave[c] \/ (leave[c] = "none" /\ leave'[c] = "close")
    BY <1>1, <2>2, ClosedSocket
  <2>4. join'[c] = at /\ \A e \in Sockets \ {c} : join'[e] = join[e]
    BY <1>1, <2>1 DEF TypeOK
  <2> QED BY <2>2, <2>3, <2>4 DEF Of
<1>3. Apart(i) /\ RoomExact(i) /\ SubscriptionExact(i) /\ listeners[i] \in Nat
  BY <1>1, <1>2 DEF IInv, Undisturbed, TypeOK
<1>4. Joining(c) /\ Unleft(c) /\ InDocument(c) /\ \A e \in Of(i) : ~Leaving(e)
  BY <1>1, <1>2, <1>3 DEF Apart, Joining, InDocument
<1>5. \A e \in Of(i) : /\ Unleft(e)' <=> Unleft(e)
                       /\ ~Leaving(e)' /\ ~Dropping(e)' /\ ~Unsubscribing(e)'
                       /\ leave'[e] # "unsubscribePresence" /\ leave[e] # "unsubscribePresence"
                       /\ ~Dropping(e) /\ ~Unsubscribing(e)
  BY <1>2, <1>4 DEF Unleft, Leaving, Dropping, Unsubscribing
<1>6. join'[c] \in {"subscribePresence", "failed", "stranded", "count"}
  BY <1>2
<1>7. Apart(i)'
  BY <1>2, <1>3, <1>4, <1>5 DEF Apart, Of, Joining
<1>8. RoomExact(i)'
  <2>1. \A e \in Of(i) : InDocument(e)' <=> InDocument(e)
    BY <1>2, <1>4, <1>6 DEF InDocument
  <2> QED BY <1>2, <1>3, <1>5, <2>1 DEF RoomExact, Of
<1>9. room[i] # NoRoom
  BY <1>1, <1>3, <1>4 DEF RoomExact
<1>10. CASE SubscribeDoc(c)
  <2>1. /\ listeners'[i] = listeners[i] + 1 /\ subscribed' = subscribed
        /\ join'[c] = "subscribePresence"
    BY <1>1, <1>10 DEF SubscribeDoc, TypeOK, IInv
  <2>2. \A e \in Of(i) : Listens(e)' => Listens(e)
    BY <1>2, <2>1 DEF Listens
  <2> QED BY <1>1, <1>2, <1>3, <1>5, <1>7, <1>8, <1>9, <2>1, <2>2
          DEF SubscriptionExact, Of, Undisturbed
<1>11. CASE SubscribePresence(c)
  <2>1. /\ listeners' = listeners /\ i \in subscribed'
        /\ join[c] = "subscribePresence" /\ join'[c] = "count"
    BY <1>1, <1>11 DEF SubscribePresence, TypeOK, IInv
  <2>2. listeners[i] > 0
    BY <1>1, <1>3, <2>1 DEF SubscriptionExact
  <2> QED BY <1>2, <1>3, <1>5, <1>7, <1>8, <1>9, <2>1, <2>2
          DEF SubscriptionExact, Of, Undisturbed
<1>12. CASE SubscribeError(c)
  <2>1. /\ listeners' = listeners /\ subscribed' = subscribed
        /\ join'[c] = IF join[c] = "subscribeDoc" THEN "failed" ELSE "stranded"
    BY <1>1, <1>12 DEF SubscribeError, TypeOK, IInv, roomVars
  <2>2. \A e \in Of(i) : Listens(e)' => Listens(e)
    BY <1>2, <2>1 DEF Listens
  <2>3. \A e \in Of(i) : join'[e] = "subscribePresence" => join[e] = "subscribePresence"
    BY <1>2, <2>1
  <2>4. (\E e \in Of(i) : join[e] \in {"subscribePresence", "stranded"}) =>
          \E e \in Of(i) : join'[e] \in {"subscribePresence", "stranded"}
    BY <1>1, <1>2, <2>1
  <2> QED BY <1>1, <1>2, <1>3, <1>5, <1>7, <1>8, <1>9, <2>1, <2>2, <2>3, <2>4
          DEF SubscriptionExact, Of, Undisturbed
<1> QED BY <1>10, <1>11, <1>12

(* What LeaveRoom of an undisturbed process finds.                          *)
LEMMA LeaveRoomFinds ==
  ASSUME IInv, NEW c \in Sockets, LeaveRoom(c), InstanceOf[c] \notin disturbed'
  PROVE  /\ InstanceOf[c] \in Instances \ disturbed /\ c \in Of(InstanceOf[c])
         /\ Apart(InstanceOf[c]) /\ RoomExact(InstanceOf[c]) /\ SubscriptionExact(InstanceOf[c])
         /\ \A e \in Of(InstanceOf[c]) : ~Joining(e)
         /\ room[InstanceOf[c]] \in Sockets
         /\ members'[room[InstanceOf[c]]] = members[room[InstanceOf[c]]] \ {c}
<1>1. InstanceOf[c] \in Instances \ disturbed /\ c \in Of(InstanceOf[c])
  BY InstanceAssumption DEF Of, LeaveRoom
<1>2. \A e \in Of(InstanceOf[c]) : ~Joining(e)
  BY <1>1 DEF LeaveRoom, Neighbours, Of
<1> QED BY <1>1, <1>2 DEF IInv, Undisturbed, LeaveRoom, TypeOK

LEMMA LeaveCountedExact ==
  ASSUME IInv, NEW c \in Sockets, LeaveCounted(c), InstanceOf[c] \notin disturbed'
  PROVE  Undisturbed(InstanceOf[c])'
<1> DEFINE i == InstanceOf[c]
<1>1. /\ i \in Instances \ disturbed /\ c \in Of(i)
      /\ Apart(i) /\ RoomExact(i) /\ SubscriptionExact(i) /\ \A e \in Of(i) : ~Joining(e)
      /\ room[i] \in Sockets /\ members'[room[i]] = members[room[i]] \ {c}
  BY LeaveRoomFinds DEF LeaveCounted
<1>2. /\ TypeOK /\ leave[c] = "close" /\ UNCHANGED <<join, room, subscribed, listeners>>
      /\ leave'[c] = "uncount" /\ leaving'[c] = room[i] /\ InDocument(c)
      /\ \A e \in Of(i) \ {c} : leave'[e] = leave[e] /\ leaving'[e] = leaving[e]
  BY DEF IInv, TypeOK, LeaveCounted, LeaveRoom, Of
<1>3. room[i] # NoRoom /\ c \in members[room[i]]
  BY <1>1, <1>2 DEF RoomExact, Unleft
<1>4. Apart(i)'
  BY <1>1, <1>2 DEF Apart, Of, Joining
<1>5. \A e \in Of(i) : /\ Unsubscribing(e)' <=> Unsubscribing(e)
                       /\ leave'[e] = "unsubscribePresence" <=> leave[e] = "unsubscribePresence"
                       /\ Unleft(e)' <=> Unleft(e) /\ e # c
                       /\ Dropping(e)' <=> Dropping(e) \/ e = c
  BY <1>2 DEF Unsubscribing, Unleft, Dropping
<1>6. RoomExact(i)'
  BY <1>1, <1>2, <1>3, <1>5 DEF RoomExact, Of, InDocument
<1>7. SubscriptionExact(i)'
  BY <1>1, <1>2, <1>5 DEF SubscriptionExact, Of, Listens
<1> QED BY <1>4, <1>6, <1>7 DEF Undisturbed

(* Whoever drops the room has found it empty: nobody who entered is left.   *)
LEMMA LeaveUncountedExact ==
  ASSUME IInv, NEW c \in Sockets, LeaveUncounted(c), InstanceOf[c] \notin disturbed'
  PROVE  Undisturbed(InstanceOf[c])'
<1> DEFINE i == InstanceOf[c]
           left == members[room[i]] \ {c}
<1>1. /\ i \in Instances \ disturbed /\ c \in Of(i)
      /\ Apart(i) /\ RoomExact(i) /\ SubscriptionExact(i) /\ \A e \in Of(i) : ~Joining(e)
      /\ room[i] \in Sockets /\ members'[room[i]] = left
  BY LeaveRoomFinds DEF LeaveUncounted
<1>2. /\ TypeOK /\ leave[c] = "close" /\ UNCHANGED <<join, leaving, subscribed, listeners>>
      /\ leave'[c] = IF left = {} /\ i \in subscribed THEN "unsubscribeDoc" ELSE "left"
      /\ room'[i] = IF left = {} THEN NoRoom ELSE room[i]
      /\ \A e \in Of(i) \ {c} : leave'[e] = leave[e]
  BY <1>1 DEF IInv, TypeOK, LeaveUncounted, LeaveRoom, DropIfEmpty, Of
<1>3. room[i] # NoRoom
  BY <1>1, NoRoomAssumption
<1>4. Apart(i)'
  BY <1>1, <1>2 DEF Apart, Of, Joining
<1>5. \A e \in Of(i) : /\ leave'[e] = "unsubscribePresence" <=> leave[e] = "unsubscribePresence"
                       /\ Unleft(e)' <=> Unleft(e) /\ e # c
                       /\ Dropping(e)' <=> Dropping(e)
                       /\ Unsubscribing(e) => Unsubscribing(e)'
                       /\ Unsubscribing(e)' => Unsubscribing(e) \/ left = {}
  BY <1>2 DEF Unsubscribing, Unleft, Dropping
<1>6. left = {} /\ i \in subscribed => Unsubscribing(c)'
  BY <1>2 DEF Unsubscribing
<1> HIDE DEF left
<1>7. RoomExact(i)'
  <2>1. \A e \in Of(i) : InDocument(e) /\ Unleft(e) => e \in members[room[i]]
    BY <1>1 DEF RoomExact
  <2>2. \A e \in Of(i) : InDocument(e)' /\ Unleft(e)' => e \in left
    BY <1>2, <1>5, <2>1 DEF left, InDocument
  <2>3. \A e \in left : e \in Of(i) /\ InDocument(e)' /\ Unleft(e)'
    BY <1>1, <1>2, <1>3, <1>5 DEF left, InDocument, RoomExact
  <2>4. \A e \in Of(i) : Dropping(e)' => room'[i] \in {leaving'[e], NoRoom}
    BY <1>1, <1>2, <1>5 DEF RoomExact
  <2> QED BY <1>1, <1>2, <1>3, <2>2, <2>3, <2>4 DEF RoomExact, Of
<1>8. SubscriptionExact(i)'
  <2>1. \A e \in Of(i) : Unsubscribing(e)' => left = {}
    BY <1>1, <1>3, <1>5 DEF SubscriptionExact
  <2> QED BY <1>1, <1>2, <1>3, <1>5, <1>6, <2>1 DEF SubscriptionExact, Of, Listens
<1> QED BY <1>4, <1>7, <1>8 DEF Undisturbed

LEMMA DropExact ==
  ASSUME IInv, NEW c \in Sockets, InstanceOf[c] \notin disturbed, Dropping(c),
         DropIfEmpty(c, members[leaving[c]]), leaving' = [leaving EXCEPT ![c] = NoRoom],
         UNCHANGED <<join, members, subscribed, listeners>>
  PROVE  Undisturbed(InstanceOf[c])'
<1> DEFINE i == InstanceOf[c]
           left == members[leaving[c]]
<1>1. /\ i \in Instances \ disturbed /\ c \in Of(i) /\ TypeOK
  BY InstanceAssumption DEF Of, IInv
<1>2. /\ Apart(i) /\ RoomExact(i) /\ SubscriptionExact(i) /\ Leaving(c)
  BY <1>1 DEF IInv, Undisturbed, Dropping, Leaving
<1>3. /\ leave'[c] = IF left = {} /\ i \in subscribed THEN "unsubscribeDoc" ELSE "left"
      /\ room'[i] = IF left = {} THEN NoRoom ELSE room[i]
      /\ \A e \in Of(i) \ {c} : leave'[e] = leave[e] /\ leaving'[e] = leaving[e]
  BY <1>1 DEF TypeOK, DropIfEmpty, Of
<1>4. room[i] \in {leaving[c], NoRoom}
  BY <1>1, <1>2 DEF RoomExact
<1>5. \A e \in Of(i) : /\ leave'[e] = "unsubscribePresence" <=> leave[e] = "unsubscribePresence"
                       /\ Unleft(e)' <=> Unleft(e)
                       /\ Dropping(e)' <=> Dropping(e) /\ e # c
                       /\ Unsubscribing(e) => Unsubscribing(e)'
                       /\ Unsubscribing(e)' => Unsubscribing(e) \/ left = {}
  BY <1>3 DEF Unsubscribing, Unleft, Dropping
<1>6. left = {} /\ i \in subscribed => Unsubscribing(c)'
  BY <1>3 DEF Unsubscribing
<1>7. room'[i] # NoRoom => /\ room'[i] = room[i] /\ members[room[i]] # {}
                           /\ members' = members
  BY <1>3, <1>4
<1>8. left = {} => \A e \in Of(i) : ~(InDocument(e) /\ Unleft(e))
  BY <1>2, <1>4 DEF RoomExact
<1> HIDE DEF left
<1>9. Apart(i)'
  BY <1>1, <1>2 DEF Apart, Of, Joining
<1>10. RoomExact(i)'
  <2>1. \A e \in Of(i) : InDocument(e)' /\ Unleft(e)' =>
          room'[i] # NoRoom /\ e \in members'[room'[i]]
    BY <1>2, <1>3, <1>5, <1>8 DEF RoomExact, InDocument
  <2>2. room'[i] # NoRoom =>
          \A e \in members'[room'[i]] : e \in Of(i) /\ InDocument(e)' /\ Unleft(e)'
    BY <1>2, <1>5, <1>7 DEF RoomExact, InDocument
  <2>3. \A e \in Of(i) : Dropping(e)' => room'[i] \in {leaving'[e], NoRoom}
    BY <1>2, <1>3, <1>5 DEF RoomExact
  <2> QED BY <1>7, <2>1, <2>2, <2>3 DEF RoomExact, Of
<1>11. SubscriptionExact(i)'
  <2>1. \A e \in Of(i) : Unsubscribing(e)' => room'[i] = NoRoom
    BY <1>2, <1>3, <1>5 DEF SubscriptionExact
  <2>2. i \in subscribed => room'[i] # NoRoom \/ \E e \in Of(i) : Unsubscribing(e)'
    BY <1>1, <1>2, <1>3, <1>5, <1>6 DEF SubscriptionExact
  <2> QED BY <1>2, <1>5, <2>1, <2>2 DEF SubscriptionExact, Of, Listens
<1> QED BY <1>9, <1>10, <1>11 DEF Undisturbed

(* No join is on its way while the callback is removed.                     *)
LEMMA UnsubscribeExact ==
  ASSUME IInv, NEW c \in Sockets, UnsubscribeDoc(c) \/ UnsubscribePresence(c),
         InstanceOf[c] \notin disturbed
  PROVE  Undisturbed(InstanceOf[c])'
<1> DEFINE i == InstanceOf[c]
<1>1. i \in Instances \ disturbed /\ c \in Of(i) /\ TypeOK
  BY InstanceAssumption DEF Of, IInv
<1>2. /\ UNCHANGED <<join, leaving, members, room>> /\ Unsubscribing(c)
      /\ \A e \in Of(i) \ {c} : leave'[e] = leave[e]
  BY <1>1 DEF UnsubscribeDoc, UnsubscribePresence, Unsubscribing, Of, TypeOK
<1>3. /\ Apart(i) /\ RoomExact(i) /\ SubscriptionExact(i) /\ Leaving(c)
      /\ listeners[i] \in Nat
  BY <1>1, <1>2 DEF IInv, TypeOK, Undisturbed, Unsubscribing, Leaving
<1>4. /\ room[i] = NoRoom /\ \A e \in Of(i) : ~(InDocument(e) /\ Unleft(e)) /\ ~Joining(e)
  BY <1>1, <1>2, <1>3 DEF RoomExact, SubscriptionExact, Apart
<1>5. \A e \in Of(i) : ~(Listens(e) /\ Unleft(e)) /\ join[e] # "subscribePresence"
  BY <1>4 DEF Listens, InDocument, Joining
<1>6. leave'[c] \in {"unsubscribePresence", "left"}
  BY <1>1 DEF UnsubscribeDoc, UnsubscribePresence, TypeOK
<1>7. \A e \in Of(i) : /\ Unleft(e)' <=> Unleft(e)
                       /\ Dropping(e)' <=> Dropping(e)
  BY <1>2, <1>6 DEF Unsubscribing, Unleft, Dropping
<1>8. Apart(i)'
  BY <1>2, <1>4 DEF Apart, Of, Joining
<1>9. RoomExact(i)'
  BY <1>2, <1>3, <1>7 DEF RoomExact, Of, InDocument
<1>10. CASE UnsubscribeDoc(c)
  <2>1. /\ listeners'[i] = 0 /\ subscribed' = subscribed /\ leave'[c] = "unsubscribePresence"
    BY <1>1, <1>10 DEF UnsubscribeDoc, TypeOK
  <2>2. Unsubscribing(c)'
    BY <2>1 DEF Unsubscribing
  <2>3. SubscriptionExact(i)'
    BY <1>1, <1>2, <1>4, <1>5, <1>7, <2>1, <2>2 DEF SubscriptionExact, Of, Listens
  <2> QED BY <1>8, <1>9, <2>3 DEF Undisturbed
<1>11. CASE UnsubscribePresence(c)
  <2>1. /\ listeners' = listeners /\ i \notin subscribed' /\ leave'[c] = "left"
        /\ leave[c] = "unsubscribePresence"
    BY <1>1, <1>11 DEF UnsubscribePresence, TypeOK
  <2>2. listeners[i] = 0
    BY <1>1, <1>3, <2>1 DEF SubscriptionExact
  <2>3. SubscriptionExact(i)'
    BY <1>1, <1>2, <1>4, <1>5, <1>7, <2>1, <2>2 DEF SubscriptionExact, Of, Listens
  <2> QED BY <1>8, <1>9, <2>3 DEF Undisturbed
<1> QED BY <1>10, <1>11

-----------------------------------------------------------------------------

(* What most steps leave alone.                                             *)
LEMMA RoomsUntouched ==
  ASSUME IInv, UNCHANGED <<roomVars, leaving>>, disturbed \subseteq disturbed',
         \A c \in Sockets : JoinGoesOn(c) /\ LeaveGoesOn(c)
  PROVE  /\ \A i \in Instances \ disturbed' : Undisturbed(i)'
         /\ RoomsFresh'
<1>1. UNCHANGED <<room, members, listeners, subscribed, leaving>>
  BY DEF roomVars
<1>2. \A i \in Instances \ disturbed' : Undisturbed(i)'
  BY <1>1, RoomsKept DEF Of
<1>3. \A c \in Sockets : join'[c] = "none" => join[c] = "none"
  BY DEF JoinGoesOn, Listens
<1>4. RoomsFresh'
  BY <1>1, <1>3 DEF IInv, TypeOK, RoomsFresh
<1> QED BY <1>2, <1>4

LEMMA RoomsFreshKept ==
  ASSUME IInv, \A i \in Instances : room'[i] \in {room[i], NoRoom},
         \A c \in Sockets : /\ join'[c] = "none" => join[c] = "none"
                            /\ members'[c] \subseteq members[c]
  PROVE  RoomsFresh'
BY DEF IInv, TypeOK, RoomsFresh

LEMMA NoneMissed ==
  ASSUME IInv, UNCHANGED <<committed, pending, deadLetters, inbox>>, disturbed \subseteq disturbed',
         \A c \in Sockets : Live(c)' => Live(c) /\ have[c] \subseteq have'[c]
  PROVE  NoMissedUpdate'
BY InstanceAssumption DEF IInv, NoMissedUpdate

LEMMA UpdateStep ==
  ASSUME IInv, UNCHANGED <<socketVars, roomVars, disturbed, presenceVars>>,
         TypeOK', NoMissedUpdate'
  PROVE  IInv'
<1>1. UNCHANGED <<socket, join, leave, leaving, roomVars, disturbed, count, named, strayed>>
  BY DEF socketVars, presenceVars
<1>2. /\ \A i \in Instances \ disturbed' : Undisturbed(i)'
      /\ RoomsFresh'
  BY <1>1, RoomsUntouched DEF JoinGoesOn, LeaveGoesOn
<1>3. \A u \in Users : PresenceFine(u)'
  BY <1>1, PresenceStill DEF Held
<1>4. SocketsFine'
  BY <1>1 DEF IInv, SocketsFine, Counted
<1> QED BY <1>2, <1>3, <1>4 DEF IInv

(* A client that goes away, whatever its handlers are at.                   *)
LEMMA CloseKeeps ==
  ASSUME IInv, NEW c \in Sockets, Close(c) \/ RefuseJoin(c)
  PROVE  IInv'
<1>1. /\ TypeOK /\ SocketsFine /\ CloseSocket(c)
      /\ UNCHANGED <<leaving, roomVars, committed, pending, deadLetters, inbox, editing, disturbed,
                     presenceVars>>
      /\ join' = join \/ (join[c] = "none" /\ join' = [join EXCEPT ![c] = "refused"])
  BY DEF IInv, Close, RefuseJoin
<1>2. /\ \A e \in Sockets \ {c} : /\ leave'[e] = leave[e] /\ socket'[e] = socket[e]
                                  /\ have'[e] = have[e]
      /\ leave'[c] = leave[c] \/ (leave[c] = "none" /\ leave'[c] = "close")
      /\ socket'[c] = "closed" /\ have'[c] = {}
  BY <1>1, ClosedSocket
<1>3. \A e \in Sockets : join'[e] = join[e] \/ (join[e] = "none" /\ join'[e] = "refused")
  BY <1>1 DEF TypeOK
<1>4. TypeOK'
  BY <1>1 DEF TypeOK, CloseSocket, roomVars, presenceVars
<1>5. /\ \A i \in Instances \ disturbed' : Undisturbed(i)'
      /\ RoomsFresh'
  BY <1>1, <1>2, <1>3, RoomsUntouched DEF JoinGoesOn, LeaveGoesOn
<1>6. \A u \in Users : PresenceFine(u)'
  BY <1>1, <1>2, <1>3, PresenceStill DEF Held, presenceVars
<1>7. SocketsFine'
  BY <1>1, <1>2, <1>3 DEF SocketsFine, Counted
<1>8. NoMissedUpdate'
  BY <1>1, <1>2, <1>3, NoneMissed DEF Live
<1> QED BY <1>4, <1>5, <1>6, <1>7, <1>8 DEF IInv

LEMMA EnterRoomKeeps ==
  ASSUME IInv, NEW c \in Sockets, EnterRoom(c)
  PROVE  IInv'
<1> DEFINE i == InstanceOf[c]
           r == RoomFor(c)
<1>1. /\ TypeOK /\ RoomsFresh /\ SocketsFine /\ i \in Instances /\ join[c] = "none"
      /\ room' = [room EXCEPT ![i] = r] /\ members' = [members EXCEPT ![r] = @ \cup {c}]
      /\ join' = [join EXCEPT ![c] = IF i \in subscribed THEN "count" ELSE "subscribeDoc"]
      /\ disturbed \subseteq disturbed' /\ disturbed' \subseteq disturbed \cup {i}
      /\ UNCHANGED <<socket, leave, leaving, subscribed, listeners, updateVars, presenceVars>>
  BY InstanceAssumption DEF IInv, EnterRoom
<1>2. /\ r \in Sockets /\ InstanceOf[r] = i
      /\ room[i] = NoRoom => r = c
      /\ r = c \/ join[r] # "none"
  BY <1>1 DEF RoomFor, TypeOK, RoomsFresh
<1> HIDE DEF r
<1>3. /\ join'[c] \in {"count", "subscribeDoc"} /\ \A e \in Sockets \ {c} : join'[e] = join[e]
      /\ room'[i] = r /\ \A j \in Instances \ {i} : room'[j] = room[j]
      /\ \A s \in Sockets \ {r} : members'[s] = members[s]
  BY <1>1, <1>2 DEF TypeOK
<1>4. TypeOK'
  <2>1. /\ room' \in [Instances -> Sockets \cup {NoRoom}]
        /\ members' \in [Sockets -> SUBSET Sockets]
        /\ disturbed' \subseteq Instances
    BY <1>1, <1>2 DEF TypeOK
  <2>2. join' \in [Sockets -> {"none", "refused", "subscribeDoc",
                           "subscribePresence", "failed", "stranded", "count",
                           "uncounted", "name", "load", "counted", "joined"}]
    BY <1>1 DEF TypeOK
  <2> QED BY <1>1, <2>1, <2>2 DEF TypeOK, updateVars, presenceVars
<1>5. \A j \in Instances \ disturbed' : Undisturbed(j)'
  BY <1>1, <1>2, <1>3, EnterRoomExact, OtherProcesses
<1>6. RoomsFresh'
  <2>1. \A s \in Sockets : join'[s] = "none" => s # r /\ s # c /\ join[s] = "none"
    BY <1>2, <1>3
  <2>2. \A j \in Instances : room'[j] # NoRoom =>
          InstanceOf[room'[j]] = j /\ join'[room'[j]] # "none"
    BY <1>1, <1>2, <1>3 DEF RoomsFresh, TypeOK
  <2> QED BY <1>1, <1>3, <2>1, <2>2 DEF RoomsFresh
<1>7. \A u \in Users : PresenceFine(u)'
  BY <1>1, <1>3, PresenceStill DEF Held, presenceVars
<1>8. SocketsFine'
  BY <1>1, <1>3 DEF SocketsFine, Counted
<1>9. NoMissedUpdate'
  BY <1>1, <1>3, NoneMissed DEF Live, updateVars
<1> QED BY <1>4, <1>5, <1>6, <1>7, <1>8, <1>9 DEF IInv

LEMMA SubscribeKeeps ==
  ASSUME IInv, NEW c \in Sockets, SubscribeDoc(c) \/ SubscribePresence(c) \/ SubscribeError(c)
  PROVE  IInv'
<1> DEFINE i == InstanceOf[c]
<1>1. /\ TypeOK /\ RoomsFresh /\ SocketsFine /\ i \in Instances
      /\ join[c] \in {"subscribeDoc", "subscribePresence"}
      /\ UNCHANGED <<leaving, members, room, committed, pending, deadLetters, inbox, editing, disturbed,
                     presenceVars>>
      /\ UNCHANGED <<socket, leave, have>> \/ CloseSocket(c)
  BY InstanceAssumption
     DEF IInv, SubscribeDoc, SubscribePresence, SubscribeError, updateVars, roomVars
<1>2. PICK at \in {"subscribePresence", "failed", "stranded", "count"} : join' = [join EXCEPT ![c] = at]
  BY DEF SubscribeDoc, SubscribePresence, SubscribeError
<1>3. join'[c] = at /\ \A e \in Sockets \ {c} : join'[e] = join[e]
  BY <1>1, <1>2 DEF TypeOK
<1>4. /\ \A e \in Sockets \ {c} : /\ leave'[e] = leave[e] /\ socket'[e] = socket[e]
                                  /\ have'[e] = have[e]
      /\ leave'[c] = leave[c] \/ (leave[c] = "none" /\ leave'[c] = "close")
      /\ socket'[c] = socket[c] \/ socket'[c] = "closed"
  BY <1>1, ClosedSocket
<1>5. /\ listeners' \in [Instances -> Nat] /\ subscribed' \subseteq Instances
      /\ \A j \in Instances \ {i} : /\ listeners'[j] = listeners[j]
                                    /\ j \in subscribed' <=> j \in subscribed
  <2>1. listeners' \in {listeners, [listeners EXCEPT ![i] = @ + 1]}
    BY DEF SubscribeDoc, SubscribePresence, SubscribeError, roomVars
  <2>2. subscribed' \in {subscribed, subscribed \cup {i}}
    BY DEF SubscribeDoc, SubscribePresence, SubscribeError, roomVars
  <2> QED BY <1>1, <2>1, <2>2 DEF TypeOK
<1>6. TypeOK'
  <2>1. /\ socket' \in [Sockets -> {"open", "closed"}]
        /\ leave' \in [Sockets -> {"none", "close", "uncount", "announce", "unsubscribeDoc",
                                  "unsubscribePresence", "left"}]
        /\ have' \in [Sockets -> SUBSET committed]
    BY <1>1 DEF TypeOK, CloseSocket
  <2>2. join' \in [Sockets -> {"none", "refused", "subscribeDoc",
                           "subscribePresence", "failed", "stranded", "count",
                           "uncounted", "name", "load", "counted", "joined"}]
    BY <1>1, <1>2 DEF TypeOK
  <2> QED BY <1>1, <1>5, <2>1, <2>2 DEF TypeOK, presenceVars
<1>7. \A j \in Instances \ disturbed' : Undisturbed(j)'
  BY <1>1, <1>3, <1>4, <1>5, SubscribeExact, OtherProcesses
<1>8. RoomsFresh'
  BY <1>1, <1>3, RoomsFreshKept
<1>9. \A u \in Users : PresenceFine(u)'
  BY <1>1, <1>3, <1>4, PresenceStill DEF Held, presenceVars
<1>10. SocketsFine'
  BY <1>1, <1>3, <1>4 DEF SocketsFine, Counted, CloseSocket, TypeOK
<1>11. NoMissedUpdate'
  BY <1>1, <1>3, <1>4, NoneMissed DEF Live
<1> QED BY <1>6, <1>7, <1>8, <1>9, <1>10, <1>11 DEF IInv

(* The presence calls of a join.                                            *)
LEMMA CountKeeps ==
  ASSUME IInv, NEW c \in Sockets, CountPresence(c) \/ SetPresenceIdentity(c) \/ JoinError(c)
  PROVE  IInv'
<1> DEFINE u == UserOf[c]
<1>1. /\ TypeOK /\ SocketsFine /\ u \in Users /\ join[c] \in {"count", "name", "load"}
      /\ UNCHANGED <<socket, leave, leaving, roomVars, updateVars, disturbed>>
      /\ strayed' \in {strayed, strayed \cup {u}} /\ named' \in {named, named \cup {u}}
      /\ count' \in {count, [count EXCEPT ![u] = @ + 1]}
  BY DEF IInv, CountPresence, SetPresenceIdentity, JoinError, Users
<1>2. PICK at \in {"uncounted", "name", "load", "counted"} :
        /\ join' = [join EXCEPT ![c] = at]
        /\ join[c] # "count" => at # "uncounted"
  BY <1>1 DEF CountPresence, SetPresenceIdentity, JoinError, TypeOK
<1>3. join'[c] = at /\ \A e \in Sockets \ {c} : join'[e] = join[e]
  BY <1>1, <1>2 DEF TypeOK
<1>4. \A v \in Users : PresenceFine(v)'
  BY CountPresenceCounts, SetPresenceIdentityNames, JoinErrorCounts
<1>5. TypeOK'
  <2>1. count' \in [Users -> 0 .. Cardinality(Sockets)]
    <3>1. count' \in [Users -> Nat]
      BY <1>1 DEF TypeOK
    <3>2. \A v \in Users : count'[v] <= Cardinality(Sockets)
      BY <1>4, <3>1, PresenceNumbers, PresenceNumbersNext DEF PresenceFine
    <3> QED BY <3>1, <3>2
  <2>2. join' \in [Sockets -> {"none", "refused", "subscribeDoc",
                           "subscribePresence", "failed", "stranded", "count",
                           "uncounted", "name", "load", "counted", "joined"}]
    BY <1>1, <1>2 DEF TypeOK
  <2> QED BY <1>1, <2>1, <2>2 DEF TypeOK, roomVars, updateVars
<1>6. \A e \in Sockets : JoinGoesOn(e) /\ LeaveGoesOn(e)
  BY <1>1, <1>2, <1>3 DEF JoinGoesOn, LeaveGoesOn, Listens, Joining
<1>7. /\ \A i \in Instances \ disturbed' : Undisturbed(i)'
      /\ RoomsFresh'
  BY <1>1, <1>6, RoomsUntouched
<1>8. SocketsFine'
  BY <1>1, <1>2, <1>3 DEF SocketsFine, Counted
<1>9. NoMissedUpdate'
  BY <1>1, <1>3, NoneMissed DEF Live, updateVars
<1> QED BY <1>4, <1>5, <1>7, <1>8, <1>9 DEF IInv

(* initial_state holds everything committed so far.                         *)
LEMMA LoadKeeps ==
  ASSUME IInv, NEW c \in Sockets, Load(c)
  PROVE  IInv'
<1>1. /\ TypeOK /\ SocketsFine /\ NoMissedUpdate
      /\ join[c] = "load" /\ join' = [join EXCEPT ![c] = "joined"]
      /\ have' = IF socket[c] = "open" THEN [have EXCEPT ![c] = @ \cup committed] ELSE have
      /\ UNCHANGED <<socket, leave, leaving, roomVars, committed, pending, deadLetters, inbox, editing,
                     disturbed, presenceVars>>
  BY DEF IInv, Load
<1>2. join'[c] = "joined" /\ \A e \in Sockets \ {c} : join'[e] = join[e]
  BY <1>1 DEF TypeOK
<1>3. TypeOK'
  BY <1>1 DEF TypeOK, roomVars, presenceVars
<1>4. /\ \A i \in Instances \ disturbed' : Undisturbed(i)'
      /\ RoomsFresh'
  <2>1. \A e \in Sockets : JoinGoesOn(e) /\ LeaveGoesOn(e)
    BY <1>1, <1>2 DEF JoinGoesOn, LeaveGoesOn, Listens, Joining
  <2> QED BY <1>1, <2>1, RoomsUntouched
<1>5. \A u \in Users : PresenceFine(u)'
  BY <1>1, <1>2, PresenceStill DEF Held, presenceVars
<1>6. SocketsFine'
  BY <1>1, <1>2 DEF SocketsFine, Counted
<1>7. NoMissedUpdate'
  <2>1. ASSUME NEW e \in Sockets, Live(e)', InstanceOf[e] \notin disturbed'
        PROVE  committed' \ deadLetters' \subseteq have'[e] \cup pending' \cup inbox'[InstanceOf[e]]
    <3>1. CASE e = c
      BY <1>1, <2>1, <3>1 DEF TypeOK, Live
    <3>2. CASE e # c
      BY <1>1, <1>2, <2>1, <3>2 DEF TypeOK, Live, NoMissedUpdate
    <3> QED BY <3>1, <3>2
  <2> QED BY <2>1 DEF NoMissedUpdate
<1> QED BY <1>3, <1>4, <1>5, <1>6, <1>7 DEF IInv

(* Without a room there is nothing to leave; on an undisturbed process then *)
(* nobody is in the document.                                               *)
LEMMA LeaveNothingKeeps ==
  ASSUME IInv, NEW c \in Sockets, LeaveNothing(c)
  PROVE  IInv'
<1> DEFINE i == InstanceOf[c]
<1>1. /\ TypeOK /\ SocketsFine /\ i \in Instances /\ UserOf[c] \in Users
      /\ leave[c] = "close" /\ leave' = [leave EXCEPT ![c] = "left"]
      /\ ~InDocument(c) \/ room[i] = NoRoom
      /\ strayed' = IF Counted(c) THEN strayed \cup {UserOf[c]} ELSE strayed
      /\ UNCHANGED <<socket, join, leaving, members, room, subscribed, listeners, updateVars,
                     disturbed, count, named>>
  BY InstanceAssumption DEF IInv, LeaveNothing, Users, roomVars
<1>2. leave'[c] = "left" /\ \A e \in Sockets \ {c} : leave'[e] = leave[e]
  BY <1>1 DEF TypeOK
<1>3. TypeOK'
  BY <1>1 DEF TypeOK, updateVars
<1>4. ASSUME i \notin disturbed' PROVE Undisturbed(i)'
  <2>1. RoomExact(i) /\ c \in Of(i)
    BY <1>1, <1>4 DEF IInv, Undisturbed, Of
  <2>2. ~InDocument(c)
    BY <1>1, <2>1 DEF RoomExact, Unleft
  <2>3. \A e \in Of(i) : leaving'[e] = leaving[e] /\ JoinGoesOn(e) /\ LeaveGoesOn(e)
    BY <1>1, <1>2, <2>2 DEF JoinGoesOn, LeaveGoesOn, Of
  <2> QED BY <1>1, <1>4, <2>3, RoomsKept
<1>5. \A j \in Instances \ disturbed' : j # i => Undisturbed(j)'
  BY <1>1, <1>2, OtherProcesses
<1>6. RoomsFresh'
  BY <1>1, RoomsFreshKept
<1>7. \A u \in Users : PresenceFine(u)'
  BY <1>1, <1>2, PresenceStill DEF Held
<1>8. SocketsFine'
  BY <1>1, <1>2 DEF SocketsFine, Counted
<1>9. NoMissedUpdate'
  BY <1>1, NoneMissed DEF Live, updateVars
<1> QED BY <1>3, <1>4, <1>5, <1>6, <1>7, <1>8, <1>9 DEF IInv

LEMMA LeaveRoomKeeps ==
  ASSUME IInv, NEW c \in Sockets, LeaveCounted(c) \/ LeaveUncounted(c)
  PROVE  IInv'
<1> DEFINE i == InstanceOf[c]
<1>1. /\ TypeOK /\ RoomsFresh /\ SocketsFine /\ i \in Instances /\ room[i] # NoRoom
      /\ leave[c] = "close"
      /\ members' = [members EXCEPT ![room[i]] = @ \ {c}]
      /\ disturbed' \in {disturbed, disturbed \cup {i}}
      /\ UNCHANGED <<socket, join, subscribed, listeners, updateVars, presenceVars>>
      /\ room' \in {room, [room EXCEPT ![i] = NoRoom]}
      /\ leaving' \in {leaving, [leaving EXCEPT ![c] = room[i]]}
  BY InstanceAssumption DEF IInv, LeaveCounted, LeaveUncounted, LeaveRoom, DropIfEmpty
<1>2. PICK at \in {"uncount", "unsubscribeDoc", "left"} :
        /\ leave' = [leave EXCEPT ![c] = at]
        /\ at = "uncount" <=> Counted(c)
  BY DEF LeaveCounted, LeaveUncounted, DropIfEmpty
<1>3. leave'[c] = at /\ \A e \in Sockets \ {c} : leave'[e] = leave[e] /\ leaving'[e] = leaving[e]
  BY <1>1, <1>2 DEF TypeOK
<1>4. /\ room[i] \in Sockets /\ InstanceOf[room[i]] = i
      /\ \A s \in Sockets : /\ members'[s] \subseteq members[s]
                             /\ InstanceOf[s] # i => members'[s] = members[s]
      /\ \A j \in Instances : room'[j] \in {room[j], NoRoom}
      /\ \A j \in Instances \ {i} : room'[j] = room[j]
  BY <1>1 DEF TypeOK, RoomsFresh
<1>5. TypeOK'
  <2>1. /\ leave' \in [Sockets -> {"none", "close", "uncount", "announce", "unsubscribeDoc",
                                  "unsubscribePresence", "left"}]
        /\ leaving' \in [Sockets -> Sockets \cup {NoRoom}]
    BY <1>1, <1>2, <1>4 DEF TypeOK
  <2>2. members' \in [Sockets -> SUBSET Sockets] /\ disturbed' \subseteq Instances
    BY <1>1 DEF TypeOK
  <2>3. room' \in [Instances -> Sockets \cup {NoRoom}]
    BY <1>1 DEF TypeOK
  <2> QED BY <1>1, <2>1, <2>2, <2>3 DEF TypeOK, updateVars, presenceVars
<1>6. ASSUME i \notin disturbed' PROVE Undisturbed(i)'
  BY <1>6, LeaveCountedExact, LeaveUncountedExact
<1>7. \A j \in Instances \ disturbed' : j # i => Undisturbed(j)'
  BY <1>1, <1>3, <1>4, OtherProcesses
<1>8. RoomsFresh'
  BY <1>1, <1>4, RoomsFreshKept
<1>9. \A u \in Users : PresenceFine(u)'
  BY <1>1, <1>2, <1>3, PresenceStill DEF Held, presenceVars
<1>10. SocketsFine'
  BY <1>1, <1>2, <1>3 DEF SocketsFine, Counted
<1>11. NoMissedUpdate'
  BY <1>1, NoneMissed DEF Live, updateVars
<1> QED BY <1>5, <1>6, <1>7, <1>8, <1>9, <1>10, <1>11 DEF IInv

(* The steps after the room has been left: none changes a room object, and  *)
(* the socket is past the point where it was connected.                     *)
LEMMA CleanUpKeeps ==
  ASSUME IInv, NEW c \in Sockets, Leaving(c),
         UNCHANGED <<socket, join, members, updateVars>>,
         disturbed' \in {disturbed, disturbed \cup {InstanceOf[c]}},
         NEW at \in {"announce", "unsubscribeDoc", "unsubscribePresence", "left"},
         leave' = [leave EXCEPT ![c] = at],
         leaving' \in {leaving, [leaving EXCEPT ![c] = NoRoom]},
         room' \in {room, [room EXCEPT ![InstanceOf[c]] = NoRoom]},
         listeners' \in {listeners, [listeners EXCEPT ![InstanceOf[c]] = 0]},
         subscribed' \in {subscribed, subscribed \ {InstanceOf[c]}},
         count' \in [Users -> 0 .. Cardinality(Sockets)],
         named' \subseteq named, strayed' \subseteq Users,
         InstanceOf[c] \notin disturbed' => Undisturbed(InstanceOf[c])',
         \A u \in Users : PresenceFine(u)'
  PROVE  IInv'
<1> DEFINE i == InstanceOf[c]
<1>1. TypeOK /\ SocketsFine /\ i \in Instances
  BY InstanceAssumption DEF IInv
<1>2. leave'[c] = at /\ \A e \in Sockets \ {c} : leave'[e] = leave[e] /\ leaving'[e] = leaving[e]
  BY <1>1 DEF TypeOK
<1>3. /\ \A j \in Instances : room'[j] \in {room[j], NoRoom}
      /\ \A j \in Instances \ {i} : /\ room'[j] = room[j] /\ listeners'[j] = listeners[j]
                                    /\ j \in subscribed' <=> j \in subscribed
  BY <1>1 DEF TypeOK
<1>4. TypeOK'
  <2>1. /\ leave' \in [Sockets -> {"none", "close", "uncount", "announce", "unsubscribeDoc",
                                  "unsubscribePresence", "left"}]
        /\ leaving' \in [Sockets -> Sockets \cup {NoRoom}]
    BY <1>1 DEF TypeOK
  <2>2. /\ room' \in [Instances -> Sockets \cup {NoRoom}]
        /\ listeners' \in [Instances -> Nat]
    BY <1>1 DEF TypeOK
  <2>3. subscribed' \subseteq Instances /\ disturbed' \subseteq Instances /\ named' \subseteq Users
    BY <1>1 DEF TypeOK
  <2> QED BY <1>1, <2>1, <2>2, <2>3 DEF TypeOK, updateVars
<1>5. \A j \in Instances \ disturbed' : Undisturbed(j)'
  <2>1. \A j \in Instances \ disturbed' : j # i => Undisturbed(j)'
    BY <1>2, <1>3, OtherProcesses
  <2> QED BY <2>1
<1>6. RoomsFresh'
  BY <1>3, RoomsFreshKept
<1>7. SocketsFine'
  BY <1>1, <1>2 DEF SocketsFine, Counted, Leaving
<1>8. NoMissedUpdate'
  BY NoneMissed DEF Live, updateVars
<1> QED BY <1>4, <1>5, <1>6, <1>7, <1>8 DEF IInv

LEMMA PresenceLeaveKeeps ==
  ASSUME IInv, NEW c \in Sockets, PresenceLeave(c)
  PROVE  IInv'
<1> DEFINE i == InstanceOf[c]
           u == UserOf[c]
           last == count[u] <= 1
<1>1. /\ TypeOK /\ i \in Instances /\ u \in Users /\ leave[c] = "uncount"
      /\ count' = [count EXCEPT ![u] = IF last THEN 0 ELSE @ - 1]
      /\ named' = IF last THEN named \ {u} ELSE named
      /\ UNCHANGED <<socket, join, members, subscribed, listeners, updateVars, disturbed,
                     strayed>>
      /\ \/ last /\ leave' = [leave EXCEPT ![c] = "announce"] /\ UNCHANGED <<room, leaving>>
         \/ ~last /\ DropIfEmpty(c, members[leaving[c]])
                  /\ leaving' = [leaving EXCEPT ![c] = NoRoom]
  BY InstanceAssumption DEF IInv, PresenceLeave, Users
<1>2. PICK at \in {"announce", "unsubscribeDoc", "left"} : leave' = [leave EXCEPT ![c] = at]
  BY <1>1 DEF DropIfEmpty
<1>3. /\ leaving' \in {leaving, [leaving EXCEPT ![c] = NoRoom]}
      /\ room' \in {room, [room EXCEPT ![i] = NoRoom]}
  BY <1>1 DEF DropIfEmpty
<1>4. count' \in [Users -> 0 .. Cardinality(Sockets)]
  <2>1. Cardinality(Sockets) \in Nat /\ count \in [Users -> 0 .. Cardinality(Sockets)]
    BY <1>1, PresenceNumbers DEF TypeOK
  <2>2. count[u] \in 0 .. Cardinality(Sockets)
    BY <1>1, <2>1
  <2>3. (IF last THEN 0 ELSE count[u] - 1) \in 0 .. Cardinality(Sockets)
    BY <2>1, <2>2
  <2> QED BY <1>1, <2>1, <2>3
<1>5. strayed' \subseteq Users /\ named' \subseteq named
  BY <1>1 DEF TypeOK
<1>6. ASSUME i \notin disturbed' PROVE Undisturbed(i)'
  <2>1. CASE last
    <3>1. leave'[c] = "announce" /\ \A e \in Sockets \ {c} : leave'[e] = leave[e]
      BY <1>1, <2>1 DEF TypeOK
    <3>2. \A e \in Of(i) : leaving'[e] = leaving[e] /\ JoinGoesOn(e) /\ LeaveGoesOn(e)
      BY <1>1, <2>1, <3>1 DEF JoinGoesOn, LeaveGoesOn, Of
    <3> QED BY <1>1, <1>6, <2>1, <3>2, RoomsKept
  <2>2. CASE ~last
    BY <1>1, <1>6, <2>2, DropExact DEF Dropping
  <2> QED BY <2>1, <2>2
<1>7. \A v \in Users : PresenceFine(v)'
  BY PresenceLeaveUncounts
<1>8. Leaving(c)
  BY <1>1 DEF Leaving
<1> QED BY <1>1, <1>2, <1>3, <1>4, <1>5, <1>6, <1>7, <1>8, CleanUpKeeps

LEMMA LeftKeeps ==
  ASSUME IInv, NEW c \in Sockets,
         DropRoom(c) \/ UnsubscribeDoc(c) \/ UnsubscribePresence(c) \/ LeaveError(c)
  PROVE  IInv'
<1> DEFINE i == InstanceOf[c]
<1>1. /\ TypeOK /\ i \in Instances /\ UserOf[c] \in Users /\ Leaving(c)
      /\ UNCHANGED <<socket, join, members, updateVars, count, named>>
      /\ disturbed' \in {disturbed, disturbed \cup {i}}
      /\ leaving' \in {leaving, [leaving EXCEPT ![c] = NoRoom]}
      /\ room' \in {room, [room EXCEPT ![i] = NoRoom]}
      /\ listeners' \in {listeners, [listeners EXCEPT ![i] = 0]}
      /\ subscribed' \in {subscribed, subscribed \ {i}}
      /\ strayed' = strayed \/ (strayed' = IF Held(c) THEN strayed \cup {UserOf[c]} ELSE strayed)
  BY InstanceAssumption DEF IInv, DropRoom, UnsubscribeDoc, UnsubscribePresence, LeaveError,
       DropIfEmpty, Users, Leaving, roomVars, presenceVars
<1>2. PICK at \in {"unsubscribeDoc", "unsubscribePresence", "left"} :
        leave' = [leave EXCEPT ![c] = at]
  BY DEF DropRoom, UnsubscribeDoc, UnsubscribePresence, LeaveError, DropIfEmpty
<1>3. leave'[c] = at /\ \A e \in Sockets \ {c} : leave'[e] = leave[e]
  BY <1>1, <1>2 DEF TypeOK
<1>4. \A e \in Sockets : /\ join'[e] = join[e]
                         /\ Held(e)' => Held(e)
                         /\ Held(e) /\ ~Held(e)' /\ Counted(e) => UserOf[e] \in strayed'
  <2>1. CASE LeaveError(c)
    BY <1>1, <1>3, <2>1 DEF LeaveError, Held
  <2>2. CASE DropRoom(c) \/ UnsubscribeDoc(c) \/ UnsubscribePresence(c)
    BY <1>1, <1>3, <2>2 DEF DropRoom, UnsubscribeDoc, UnsubscribePresence, Held
  <2> QED BY <2>1, <2>2
<1>5. strayed \subseteq strayed'
  BY <1>1
<1>6. \A u \in Users : PresenceFine(u)'
  BY <1>1, <1>4, <1>5, PresenceStill
<1>7. ASSUME i \notin disturbed' PROVE Undisturbed(i)'
  <2>1. ~LeaveError(c) /\ i \notin disturbed
    BY <1>1, <1>7 DEF LeaveError
  <2>2. CASE DropRoom(c)
    BY <2>1, <2>2, DropExact DEF DropRoom, Dropping
  <2>3. CASE UnsubscribeDoc(c) \/ UnsubscribePresence(c)
    BY <2>1, <2>3, UnsubscribeExact
  <2> QED BY <2>1, <2>2, <2>3
<1>8. /\ count' \in [Users -> 0 .. Cardinality(Sockets)]
      /\ strayed' \subseteq Users /\ named' \subseteq named
  BY <1>1 DEF TypeOK
<1> QED BY <1>1, <1>2, <1>6, <1>7, <1>8, CleanUpKeeps

-----------------------------------------------------------------------------

(* The way of an update.  Nobody lacks what has just been committed: the    *)
(* outbox holds it.                                                         *)
LEMMA CommitKeeps ==
  ASSUME IInv, NEW c \in Sockets, NEW u \in Updates, CommitUpdate(c, u)
  PROVE  IInv'
<1>1. /\ TypeOK /\ NoMissedUpdate /\ pending' = pending \cup {u} /\ committed' = committed \cup {u}
      /\ editing' = [editing EXCEPT ![c] = @ \cup {u}]
      /\ have' = IF socket[c] = "open" THEN [have EXCEPT ![c] = @ \cup {u}] ELSE have
      /\ UNCHANGED <<socketVars, roomVars, deadLetters, inbox, disturbed, presenceVars>>
  BY DEF IInv, CommitUpdate
<1>2. UNCHANGED <<socket, join, leave, leaving, members, room, subscribed, listeners, count,
                  named, strayed>>
  BY <1>1 DEF socketVars, roomVars, presenceVars
<1>3. have' \in [Sockets -> SUBSET committed'] /\ editing' \in [Sockets -> SUBSET committed']
  BY <1>1 DEF TypeOK
<1>4. TypeOK'
  BY <1>1, <1>2, <1>3 DEF TypeOK
<1>5. \A e \in Sockets : have[e] \subseteq have'[e]
  BY <1>1 DEF TypeOK
<1>6. NoMissedUpdate'
  BY <1>1, <1>2, <1>5 DEF NoMissedUpdate, Live
<1> QED BY <1>1, <1>4, <1>6, UpdateStep

LEMMA SendKeeps ==
  ASSUME IInv, NEW c \in Sockets, NEW u \in Updates, SendToPeers(c, u)
  PROVE  IInv'
<1>1. /\ TypeOK /\ NoMissedUpdate /\ u \in committed
      /\ editing' = [editing EXCEPT ![c] = @ \ {u}]
      /\ have' = [e \in Sockets |->
                    IF e \in Reached(InstanceOf[c]) \ {c} THEN have[e] \cup {u} ELSE have[e]]
      /\ UNCHANGED <<socketVars, roomVars, committed, pending, deadLetters, inbox, disturbed,
                     presenceVars>>
  BY DEF IInv, SendToPeers, TypeOK
<1>2. UNCHANGED <<socket, join, leave, leaving, members, room, subscribed, listeners, count,
                  named, strayed>>
  BY <1>1 DEF socketVars, roomVars, presenceVars
<1>3. have' \in [Sockets -> SUBSET committed] /\ editing' \in [Sockets -> SUBSET committed]
  BY <1>1 DEF TypeOK
<1>4. TypeOK'
  BY <1>1, <1>2, <1>3 DEF TypeOK
<1>5. \A e \in Sockets : have[e] \subseteq have'[e]
  BY <1>1
<1>6. NoMissedUpdate'
  BY <1>1, <1>2, <1>5 DEF NoMissedUpdate, Live
<1> QED BY <1>1, <1>4, <1>6, UpdateStep

(* A client that was sent initial_state, on an undisturbed process, is in   *)
(* the process's room, and a callback on the channel feeds the room.        *)
LEMMA LiveIsReached ==
  ASSUME IInv, NEW c \in Sockets, Live(c), InstanceOf[c] \notin disturbed
  PROVE  c \in Reached(InstanceOf[c]) /\ listeners[InstanceOf[c]] > 0
<1>1. InstanceOf[c] \in Instances \ disturbed /\ c \in Of(InstanceOf[c])
  BY InstanceAssumption DEF Of
<1>2. RoomExact(InstanceOf[c]) /\ SubscriptionExact(InstanceOf[c])
  BY <1>1 DEF IInv, Undisturbed
<1>3. socket[c] = "open" /\ Unleft(c) /\ InDocument(c) /\ Listens(c)
  BY DEF IInv, SocketsFine, Live, Unleft, InDocument, Listens
<1> QED BY <1>1, <1>2, <1>3 DEF RoomExact, SubscriptionExact, Reached

LEMMA PublishKeeps ==
  ASSUME IInv, NEW u \in Updates, PublishUpdate(u)
  PROVE  IInv'
<1>1. /\ TypeOK /\ NoMissedUpdate /\ u \in committed /\ pending' = pending \ {u}
      /\ inbox' = [i \in Instances |->
                     IF listeners[i] > 0 THEN inbox[i] \cup {u} ELSE inbox[i]]
      /\ UNCHANGED <<socketVars, roomVars, committed, deadLetters, editing, have, disturbed,
                     presenceVars>>
  BY DEF IInv, PublishUpdate, TypeOK
<1>2. UNCHANGED <<socket, join, leave, leaving, members, room, subscribed, listeners, count,
                  named, strayed>>
  BY <1>1 DEF socketVars, roomVars, presenceVars
<1>3. inbox' \in [Instances -> SUBSET committed]
  BY <1>1 DEF TypeOK
<1>4. TypeOK'
  BY <1>1, <1>2, <1>3 DEF TypeOK
<1>5. NoMissedUpdate'
  <2>1. ASSUME NEW c \in Sockets, Live(c)', InstanceOf[c] \notin disturbed'
        PROVE  committed' \ deadLetters' \subseteq have'[c] \cup pending' \cup inbox'[InstanceOf[c]]
    <3>1. Live(c) /\ InstanceOf[c] \in Instances \ disturbed
      BY <1>1, <1>2, <2>1, InstanceAssumption DEF Live
    <3>2. listeners[InstanceOf[c]] > 0
      BY <3>1, LiveIsReached
    <3>3. inbox'[InstanceOf[c]] = inbox[InstanceOf[c]] \cup {u}
      BY <1>1, <3>1, <3>2
    <3>4. committed \ deadLetters \subseteq have[c] \cup pending \cup inbox[InstanceOf[c]]
      BY <1>1, <3>1 DEF NoMissedUpdate
    <3> QED BY <1>1, <3>3, <3>4
  <2> QED BY <2>1 DEF NoMissedUpdate
<1> QED BY <1>1, <1>4, <1>5, UpdateStep

(* What is given up is not missed.                                          *)
LEMMA DeadLetterKeeps ==
  ASSUME IInv, NEW u \in Updates, MoveToDeadLetter(u)
  PROVE  IInv'
<1>1. /\ TypeOK /\ NoMissedUpdate /\ u \in committed
      /\ pending' = pending \ {u} /\ deadLetters' = deadLetters \cup {u}
      /\ UNCHANGED <<socketVars, roomVars, committed, inbox, editing, have, disturbed,
                     presenceVars>>
  BY DEF IInv, MoveToDeadLetter, TypeOK
<1>2. UNCHANGED <<socket, join, leave, leaving, members, room, subscribed, listeners, count,
                  named, strayed>>
  BY <1>1 DEF socketVars, roomVars, presenceVars
<1>3. TypeOK'
  BY <1>1, <1>2 DEF TypeOK
<1>4. NoMissedUpdate'
  BY <1>1, <1>2 DEF NoMissedUpdate, Live
<1> QED BY <1>1, <1>3, <1>4, UpdateStep

LEMMA RelayKeeps ==
  ASSUME IInv, NEW i \in Instances, NEW u \in Updates, Relay(i, u)
  PROVE  IInv'
<1>1. /\ TypeOK /\ NoMissedUpdate /\ u \in committed
      /\ inbox' = [inbox EXCEPT ![i] = @ \ {u}]
      /\ have' = [e \in Sockets |->
                    IF listeners[i] > 0 /\ e \in Reached(i) THEN have[e] \cup {u} ELSE have[e]]
      /\ UNCHANGED <<socketVars, roomVars, committed, pending, deadLetters, editing, disturbed,
                     presenceVars>>
  BY DEF IInv, Relay, TypeOK
<1>2. UNCHANGED <<socket, join, leave, leaving, members, room, subscribed, listeners, count,
                  named, strayed>>
  BY <1>1 DEF socketVars, roomVars, presenceVars
<1>3. have' \in [Sockets -> SUBSET committed] /\ inbox' \in [Instances -> SUBSET committed]
  BY <1>1 DEF TypeOK
<1>4. TypeOK'
  BY <1>1, <1>2, <1>3 DEF TypeOK
<1>5. NoMissedUpdate'
  <2>1. ASSUME NEW c \in Sockets, Live(c)', InstanceOf[c] \notin disturbed'
        PROVE  committed' \ deadLetters' \subseteq have'[c] \cup pending' \cup inbox'[InstanceOf[c]]
    <3>1. Live(c) /\ InstanceOf[c] \in Instances \ disturbed
      BY <1>1, <1>2, <2>1, InstanceAssumption DEF Live
    <3>2. committed \ deadLetters \subseteq have[c] \cup pending \cup inbox[InstanceOf[c]]
      BY <1>1, <3>1 DEF NoMissedUpdate
    <3>3. CASE InstanceOf[c] = i
      <4>1. have'[c] = have[c] \cup {u}
        BY <1>1, <3>1, <3>3, LiveIsReached
      <4>2. inbox'[i] = inbox[i] \ {u}
        BY <1>1 DEF TypeOK
      <4> QED BY <1>1, <3>2, <3>3, <4>1, <4>2
    <3>4. CASE InstanceOf[c] # i
      <4>1. inbox'[InstanceOf[c]] = inbox[InstanceOf[c]] /\ have[c] \subseteq have'[c]
        BY <1>1, <3>1, <3>4 DEF TypeOK
      <4> QED BY <1>1, <3>2, <4>1
    <3> QED BY <3>3, <3>4
  <2> QED BY <2>1 DEF NoMissedUpdate
<1> QED BY <1>1, <1>4, <1>5, UpdateStep

-----------------------------------------------------------------------------

LEMMA InitIInv == Init => IInv
<1> SUFFICES ASSUME Init PROVE IInv
  OBVIOUS
<1>1. TypeOK
  <2>1. count \in [Users -> 0 .. Cardinality(Sockets)]
    BY PresenceNumbers DEF Init
  <2> QED BY <2>1 DEF Init, TypeOK
<1>2. ASSUME NEW u \in Users PROVE PresenceFine(u)
  <2>1. Tried(u) = {} /\ Connections(u) = {}
    BY DEF Init, Tried, Connections, Counted
  <2>2. Cardinality(Tried(u)) = 0 /\ Cardinality(Connections(u)) = 0
    BY <2>1, FS_EmptySet
  <2> QED BY <2>1, <2>2 DEF Init, PresenceFine
<1>3. SocketsFine /\ RoomsFresh
  BY DEF Init, SocketsFine, RoomsFresh
<1>4. ASSUME NEW i \in Instances PROVE Undisturbed(i)
  <2>1. /\ room[i] = NoRoom /\ listeners[i] = 0 /\ i \notin subscribed
        /\ \A c \in Of(i) : join[c] = "none" /\ leave[c] = "none"
    BY DEF Init, Of
  <2> QED BY <2>1 DEF Undisturbed, Apart, RoomExact, SubscriptionExact, Joining, InDocument,
             Leaving, Dropping, Unsubscribing, Listens
<1>5. NoMissedUpdate
  BY DEF Init, NoMissedUpdate
<1> QED BY <1>1, <1>2, <1>3, <1>4, <1>5 DEF IInv

LEMMA StepIInv == IInv /\ [Next]_vars => IInv'
<1> SUFFICES ASSUME IInv, [Next]_vars PROVE IInv'
  OBVIOUS
<1>1. ASSUME NEW c \in Sockets,
             \/ Close(c) \/ RefuseJoin(c) \/ EnterRoom(c)
             \/ SubscribeDoc(c) \/ SubscribePresence(c) \/ SubscribeError(c)
             \/ CountPresence(c) \/ SetPresenceIdentity(c) \/ Load(c) \/ JoinError(c)
      PROVE  IInv'
  BY <1>1, CloseKeeps, EnterRoomKeeps, SubscribeKeeps, CountKeeps, LoadKeeps
<1>2. ASSUME NEW c \in Sockets,
             \/ LeaveNothing(c) \/ LeaveCounted(c) \/ LeaveUncounted(c)
             \/ PresenceLeave(c) \/ DropRoom(c)
             \/ UnsubscribeDoc(c) \/ UnsubscribePresence(c) \/ LeaveError(c)
      PROVE  IInv'
  BY <1>2, LeaveNothingKeeps, LeaveRoomKeeps, PresenceLeaveKeeps, LeftKeeps
<1>3. ASSUME NEW c \in Sockets, NEW u \in Updates, CommitUpdate(c, u) \/ SendToPeers(c, u)
      PROVE  IInv'
  BY <1>3, CommitKeeps, SendKeeps
<1>4. ASSUME NEW u \in Updates,
             PublishUpdate(u) \/ MoveToDeadLetter(u) \/ \E i \in Instances : Relay(i, u)
      PROVE  IInv'
  BY <1>4, PublishKeeps, DeadLetterKeeps, RelayKeeps
<1>5. CASE UNCHANGED vars
  <2>1. /\ UNCHANGED <<socketVars, roomVars, disturbed, presenceVars>>
        /\ UNCHANGED <<socket, join, leave, leaving, members, room, subscribed, listeners,
                       count, named, strayed, committed, pending, deadLetters, inbox, editing, have>>
    BY <1>5 DEF vars, socketVars, roomVars, updateVars, presenceVars
  <2>2. TypeOK'
    BY <1>5, <2>1 DEF IInv, TypeOK, vars
  <2>3. NoMissedUpdate'
    BY <1>5, <2>1 DEF IInv, NoMissedUpdate, Live, vars
  <2> QED BY <2>1, <2>2, <2>3, UpdateStep
<1> QED BY <1>1, <1>2, <1>3, <1>4, <1>5 DEF Next

(* The inductive invariant holds of every run, for every number of          *)
(* processes, sockets, users and updates.                                   *)
THEOREM Inductive == Spec => []IInv
BY InitIInv, StepIInv, PTL DEF Spec

(* The variables of the gateway keep their types; in particular no count in *)
(* Redis exceeds the number of sockets.                                     *)
THEOREM TypeCorrect == Spec => []TypeOK
<1>1. IInv => TypeOK
  BY DEF IInv
<1> QED BY <1>1, Inductive, PTL

(* presenceJoin and presenceLeave of one user's connections, in any order   *)
(* and with any failures, never take the count below the connections.       *)
THEOREM NeverAbsent == Spec => []PresentWhileConnected
<1>1. IInv => PresentWhileConnected
  BY DEF IInv, PresenceFine, PresentWhileConnected
<1> QED BY <1>1, Inductive, PTL

(* Unless a disconnect overtook the join, or a presence call of the join    *)
(* failed, the roster is exactly the set of connected users.                *)
THEOREM RosterIsExact == Spec => []RosterExact
<1>1. IInv => RosterExact
  BY DEF IInv, PresenceFine, RosterExact
<1> QED BY <1>1, Inductive, PTL

(* A join that skips the subscription, because the process has the channel  *)
(* in subscribedChannels, finds a callback on it.                           *)
THEOREM SubscriptionListens == Spec => []SubscribedIsListening
<1>1. IInv => SubscribedIsListening
  BY DEF IInv, TypeOK, Undisturbed, SubscriptionExact, SubscribedIsListening, Of, Leaving
<1> QED BY <1>1, Inductive, PTL

(* handleDisconnect of the last socket leaves neither a room nor the mark   *)
(* of a subscription on the process; a callback on the channel remains at   *)
(* most where a join failed between its two subscriptions.                  *)
THEOREM NothingLeft == Spec => []NothingLeftBehind
<1>1. ASSUME IInv, NEW i \in Instances \ disturbed,
             \A c \in Sockets : InstanceOf[c] = i =>
               socket[c] = "closed" /\ leave[c] = "left" /\ ~Joining(c)
      PROVE  /\ room[i] = NoRoom /\ i \notin subscribed
             /\ listeners[i] = 0 \/ \E c \in Sockets : InstanceOf[c] = i /\ join[c] = "stranded"
  <2>1. RoomExact(i) /\ SubscriptionExact(i) /\ listeners[i] \in Nat
    BY <1>1 DEF IInv, TypeOK, Undisturbed
  <2>2. \A c \in Of(i) : /\ ~Unleft(c) /\ ~Dropping(c) /\ ~Unsubscribing(c)
                         /\ join[c] # "subscribePresence"
    BY <1>1 DEF Of, Unleft, Dropping, Unsubscribing, Joining
  <2>3. room[i] = NoRoom
    BY <2>1, <2>2 DEF RoomExact
  <2>4. i \notin subscribed
    BY <2>1, <2>2, <2>3 DEF SubscriptionExact
  <2> QED BY <2>1, <2>2, <2>3, <2>4 DEF SubscriptionExact, Of
<1>2. IInv => NothingLeftBehind
  BY <1>1 DEF NothingLeftBehind
<1> QED BY <1>2, Inductive, PTL

(* A joined client has every committed update, or the outbox or a frame     *)
(* under way to its process will bring it, in every order of joins, edits,  *)
(* publications and departures that keeps joins and disconnects apart.      *)
THEOREM NoneIsMissed == Spec => []NoMissedUpdate
<1>1. IInv => NoMissedUpdate
  BY DEF IInv
<1> QED BY <1>1, Inductive, PTL

=============================================================================
