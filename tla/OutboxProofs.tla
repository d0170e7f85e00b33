---------------------------- MODULE OutboxProofs ----------------------------
(***************************************************************************)
(* For every number of processes, rows, crashes and failed calls: no       *)
(* committed edit loses its row before it was published or used up its     *)
(* attempts, and who was told "ok" has a delivery job.                     *)
(***************************************************************************)
EXTENDS Outbox, FiniteSetTheorems, TLAPS

-----------------------------------------------------------------------------

(* The strengthening.  A stalled job is handed out again while its first   *)
(* worker may still be at it, and a worker writes the attempts it read     *)
(* plus one.  What keeps a late write from taking back attempts that       *)
(* another worker has judged to be used up is that a job is handed out     *)
(* only so often: each attempt counted, and each worker that may still     *)
(* count one, stands for one of the times the job was taken.               *)
CountedAt == {"row", "publish", "delete", "dead", "count"}

Counting(j) == {s \in Servers : worker[s].row = j /\ worker[s].at \in CountedAt}

Takes(j) == jobs[j].stalls + (IF jobs[j].state \in {"absent", "waiting"} THEN 0 ELSE 1)

AttemptsCounted(j) ==
  /\ IsFiniteSet(Counting(j))
  /\ attempts[j] + Cardinality(Counting(j)) <= Takes(j)
  /\ \A s \in Counting(j) : worker[s].at # "row" =>
       worker[s].attempts + Cardinality(Counting(j)) <= Takes(j)

WorkerFine(s) ==
  /\ worker[s].at # "idle" => worker[s].row \in Rows
  /\ worker[s].at \in {"publish", "delete", "dead"} => worker[s].row \in Committed
  /\ worker[s].at = "delete" => worker[s].row \in published
  /\ worker[s].at = "dead" => attempts[worker[s].row] >= MaxAttempts

HandlerFine(s) ==
  /\ handler[s].todo \subseteq handler[s].edits
  /\ handler[s].edits \subseteq Committed
  /\ handler[s].at = "enqueue" =>
       \A j \in handler[s].edits \ handler[s].todo : jobs[j].state # "absent"
  /\ handler[s].at \in {"publish", "answer"} =>
       \A j \in handler[s].edits : jobs[j].state # "absent"

IInv ==
  /\ TypeOK
  /\ Committed \subseteq Rows
  /\ RowUntilPublished
  /\ AnsweredIsQueued
  /\ \A s \in Servers : HandlerFine(s) /\ WorkerFine(s)
  /\ \A j \in Rows : AttemptsCounted(j)

-----------------------------------------------------------------------------

(* The queue: every call keeps its type, takes a job away from nobody, and *)
(* never forgets one.                                                      *)
Onward ==
  /\ Queue!TypeOK(Servers)'
  /\ \A j \in Rows : /\ Takes(j)' \in Nat /\ Takes(j) <= Takes(j)'
                     /\ jobs[j].state # "absent" => jobs'[j].state # "absent"

LEMMA TakesBound ==
  ASSUME Queue!TypeOK(Servers), NEW j \in Rows
  PROVE  Takes(j) \in Nat /\ Takes(j) <= MaxStalls + 1
<1>1. jobs[j].stalls \in 0..MaxStalls
  BY DEF Queue!TypeOK
<1> QED BY <1>1, MaxStallsAssumption DEF Takes

LEMMA QueueStill ==
  ASSUME Queue!TypeOK(Servers), jobs' = jobs
  PROVE  Onward
<1>1. Queue!TypeOK(Servers)' /\ \A j \in Rows : Takes(j)' = Takes(j)
  BY DEF Queue!TypeOK, Takes
<1> QED BY <1>1, TakesBound DEF Onward

(* Each job is as it was, or changed to a record of its type.              *)
LEMMA QueueChanged ==
  ASSUME Queue!TypeOK(Servers), NEW new \in [Rows -> [state : Queue!States,
           owner : Servers \cup {NoWorker}, stalls : 0..MaxStalls]],
         jobs' = new,
         \A j \in Rows : new[j] = jobs[j] \/
           /\ new[j].state # "absent"
           /\ new[j].stalls + (IF new[j].state \in {"absent", "waiting"} THEN 0 ELSE 1)
                >= Takes(j)
  PROVE  Onward
<1>1. Queue!TypeOK(Servers)'
  BY DEF Queue!TypeOK
<1>2. ASSUME NEW j \in Rows
      PROVE  /\ Takes(j)' \in Nat /\ Takes(j) <= Takes(j)'
             /\ jobs[j].state # "absent" => jobs'[j].state # "absent"
  <2>1. Takes(j) \in Nat /\ new[j].stalls \in Nat
    BY TakesBound, MaxStallsAssumption
  <2>2. new[j] = jobs[j] => Takes(j)' = Takes(j)
    BY DEF Takes
  <2> QED BY <2>1, <2>2 DEF Takes
<1> QED BY <1>1, <1>2 DEF Onward

LEMMA AddOnward ==
  ASSUME Queue!TypeOK(Servers), NEW ids, Queue!Add(ids)
  PROVE  Onward /\ \A j \in ids \cap Rows : jobs'[j].state # "absent"
<1>1. jobs' = [j \in Rows |-> IF j \in ids /\ jobs[j].state = "absent"
                                THEN [jobs[j] EXCEPT !.state = "waiting"] ELSE jobs[j]]
  BY DEF Queue!Add
<1>2. ASSUME NEW j \in Rows
      PROVE  /\ jobs'[j] = jobs[j] \/
                  /\ jobs[j].state = "absent"
                  /\ jobs'[j] = [state |-> "waiting", owner |-> jobs[j].owner,
                                 stalls |-> jobs[j].stalls]
             /\ jobs'[j] \in [state : Queue!States, owner : Servers \cup {NoWorker},
                              stalls : 0..MaxStalls]
             /\ j \in ids => jobs'[j].state # "absent"
  <2>1. jobs[j] \in [state : Queue!States, owner : Servers \cup {NoWorker},
                     stalls : 0..MaxStalls]
    BY DEF Queue!TypeOK
  <2>2. CASE j \in ids /\ jobs[j].state = "absent"
    <3>1. jobs'[j] = [jobs[j] EXCEPT !.state = "waiting"]
      BY <1>1, <2>2
    <3>2. jobs'[j] = [state |-> "waiting", owner |-> jobs[j].owner, stalls |-> jobs[j].stalls]
      BY <2>1, <3>1
    <3> QED BY <2>1, <2>2, <3>2 DEF Queue!States
  <2>3. CASE ~(j \in ids /\ jobs[j].state = "absent")
    <3>1. jobs'[j] = jobs[j]
      BY <1>1, <2>3
    <3> QED BY <2>1, <2>3, <3>1
  <2> QED BY <2>2, <2>3
<1>3. jobs' \in [Rows -> [state : Queue!States, owner : Servers \cup {NoWorker},
                         stalls : 0..MaxStalls]]
  BY <1>1, <1>2
<1>4. \A j \in Rows : jobs[j].stalls \in 0..MaxStalls
  BY DEF Queue!TypeOK
<1>5. Onward
  BY <1>2, <1>3, <1>4, QueueChanged, MaxStallsAssumption DEF Takes
<1> QED BY <1>2, <1>5

LEMMA FinishOnward ==
  ASSUME Queue!TypeOK(Servers), NEW j \in Rows, NEW k, NEW outcome \in {"completed", "failed"},
         Queue!Finish(j, k, outcome)
  PROVE  Onward
<1>1. /\ jobs[j].stalls \in 0..MaxStalls
      /\ jobs[j] = [state |-> jobs[j].state, owner |-> jobs[j].owner, stalls |-> jobs[j].stalls]
  BY DEF Queue!TypeOK
<1>2. /\ \A i \in Rows \ {j} : jobs'[i] = jobs[i]
      /\ jobs'[j] = jobs[j] \/
           /\ jobs[j].state = "active"
           /\ jobs'[j] = [state |-> outcome, owner |-> NoWorker, stalls |-> jobs[j].stalls]
  BY <1>1 DEF Queue!Finish, Queue!TypeOK
<1>3. jobs' \in [Rows -> [state : Queue!States, owner : Servers \cup {NoWorker},
                         stalls : 0..MaxStalls]]
  BY <1>1, <1>2 DEF Queue!Finish, Queue!TypeOK, Queue!States
<1> QED BY <1>1, <1>2, <1>3, QueueChanged, MaxStallsAssumption DEF Takes

LEMMA StallOnward ==
  ASSUME Queue!TypeOK(Servers), NEW j \in Rows, Queue!Stall(j)
  PROVE  Onward
<1>1. /\ jobs[j].stalls \in 0..MaxStalls /\ jobs[j].state = "active"
      /\ jobs[j] = [state |-> jobs[j].state, owner |-> jobs[j].owner, stalls |-> jobs[j].stalls]
  BY DEF Queue!TypeOK, Queue!Stall
<1>2. /\ \A i \in Rows \ {j} : jobs'[i] = jobs[i]
      /\ \/ /\ jobs[j].stalls < MaxStalls
            /\ jobs'[j] = [state |-> "waiting", owner |-> NoWorker, stalls |-> jobs[j].stalls + 1]
         \/ jobs'[j] = [state |-> "failed", owner |-> NoWorker, stalls |-> jobs[j].stalls]
  BY <1>1 DEF Queue!Stall, Queue!TypeOK
<1>3. jobs' \in [Rows -> [state : Queue!States, owner : Servers \cup {NoWorker},
                         stalls : 0..MaxStalls]]
  BY <1>1, <1>2, MaxStallsAssumption DEF Queue!Stall, Queue!TypeOK, Queue!States
<1> QED BY <1>1, <1>2, <1>3, QueueChanged, MaxStallsAssumption DEF Takes

(* Taking a job is what uses up one of the times it can be taken.          *)
LEMMA TakeOnward ==
  ASSUME Queue!TypeOK(Servers), NEW j \in Rows, NEW k \in Servers, Queue!Take(j, k)
  PROVE  Onward /\ Takes(j)' = Takes(j) + 1
<1>1. /\ jobs[j].stalls \in 0..MaxStalls /\ jobs[j].state = "waiting"
      /\ jobs[j] = [state |-> jobs[j].state, owner |-> jobs[j].owner, stalls |-> jobs[j].stalls]
  BY DEF Queue!TypeOK, Queue!Take
<1>2. /\ \A i \in Rows \ {j} : jobs'[i] = jobs[i]
      /\ jobs'[j] = [state |-> "active", owner |-> k, stalls |-> jobs[j].stalls]
  BY <1>1 DEF Queue!Take, Queue!TypeOK
<1>3. jobs' \in [Rows -> [state : Queue!States, owner : Servers \cup {NoWorker},
                         stalls : 0..MaxStalls]]
  BY <1>1, <1>2 DEF Queue!Take, Queue!TypeOK, Queue!States
<1>4. Onward
  BY <1>1, <1>2, <1>3, QueueChanged, MaxStallsAssumption DEF Takes
<1>5. Takes(j)' = Takes(j) + 1
  BY <1>1, <1>2, MaxStallsAssumption DEF Takes
<1> QED BY <1>4, <1>5

-----------------------------------------------------------------------------

(* The numbers that AttemptsCounted compares.                               *)
LEMMA CountingNumbers ==
  ASSUME IInv, NEW j \in Rows
  PROVE  /\ IsFiniteSet(Counting(j)) /\ Cardinality(Counting(j)) \in Nat
         /\ attempts[j] \in Nat /\ Takes(j) \in Nat /\ Takes(j) <= MaxStalls + 1
         /\ attempts[j] + Cardinality(Counting(j)) <= Takes(j)
         /\ \A s \in Counting(j) : worker[s].attempts \in Nat
BY FS_CardinalityType, TakesBound DEF IInv, TypeOK, AttemptsCounted, Counting

(* No worker starts to count an attempt of j: what is bounded only shrinks. *)
LEMMA CountingShrinks ==
  ASSUME IInv, Onward, NEW j \in Rows, attempts'[j] = attempts[j],
         \A s \in Counting(j)' :
           /\ s \in Counting(j)
           /\ worker'[s].at # "row" => /\ worker[s].at # "row"
                                      /\ worker'[s].attempts = worker[s].attempts
  PROVE  AttemptsCounted(j)'
<1> DEFINE before == Counting(j)
           after == Counting(j)'
<1>1. /\ IsFiniteSet(before) /\ IsFiniteSet(after)
      /\ Cardinality(before) \in Nat /\ Cardinality(after) \in Nat
      /\ Cardinality(after) <= Cardinality(before)
  <2>1. after \subseteq before
    OBVIOUS
  <2> QED BY <2>1, CountingNumbers, FS_Subset, FS_CardinalityType
<1>2. /\ Takes(j) \in Nat /\ Takes(j)' \in Nat /\ Takes(j) <= Takes(j)'
      /\ attempts[j] \in Nat
  BY CountingNumbers DEF Onward
<1>3. attempts[j] + Cardinality(before) <= Takes(j)
  BY CountingNumbers
<1>4. AttemptsCounted(j)
  BY DEF IInv
<1> HIDE DEF before, after
<1>5. attempts'[j] + Cardinality(after) <= Takes(j)'
  BY <1>1, <1>2, <1>3
<1>6. ASSUME NEW s \in after, worker'[s].at # "row"
      PROVE  worker'[s].attempts + Cardinality(after) <= Takes(j)'
  <2>1. s \in before /\ worker[s].at # "row" /\ worker'[s].attempts = worker[s].attempts
    BY <1>6 DEF after, before
  <2>2. worker[s].attempts \in Nat
    BY <2>1, CountingNumbers DEF before
  <2>3. worker[s].attempts + Cardinality(before) <= Takes(j)
    BY <1>4, <2>1 DEF AttemptsCounted, before
  <2> QED BY <1>1, <1>2, <2>1, <2>2, <2>3
<1> QED BY <1>1, <1>5, <1>6 DEF AttemptsCounted, after

LEMMA CountingStill ==
  ASSUME IInv, Onward, attempts' = attempts, worker' = worker
  PROVE  \A j \in Rows : AttemptsCounted(j)'
BY CountingShrinks DEF Counting

(* What a worker relies on stays true while others go on.                   *)
LEMMA WorkerKept ==
  ASSUME NEW s \in Servers, WorkerFine(s), worker'[s] = worker[s],
         Committed \subseteq Committed', published \subseteq published',
         worker[s].at = "dead" => attempts'[worker[s].row] = attempts[worker[s].row]
                                  \/ attempts'[worker[s].row] >= MaxAttempts
  PROVE  WorkerFine(s)'
BY DEF WorkerFine

LEMMA HandlerKept ==
  ASSUME IInv, Onward, NEW s \in Servers, handler'[s] \in {handler[s], Idle},
         Committed \subseteq Committed'
  PROVE  HandlerFine(s)'
<1>1. HandlerFine(s)
  BY DEF IInv
<1>2. CASE handler'[s] = Idle
  BY <1>2 DEF HandlerFine, Idle
<1>3. CASE handler'[s] = handler[s]
  <2>1. handler[s].edits \subseteq Rows
    BY <1>1 DEF HandlerFine, IInv
  <2> QED BY <1>1, <1>3, <2>1 DEF HandlerFine, Onward
<1> QED BY <1>2, <1>3

LEMMA CommittedStill ==
  ASSUME log' = log
  PROVE  Committed' = Committed
BY DEF Committed

LEMMA CommittedRows ==
  ASSUME IInv
  PROVE  outbox \subseteq Rows /\ published \subseteq Rows
BY DEF IInv, TypeOK

-----------------------------------------------------------------------------

(* A commit adds its batch to the committed rows and to the outbox.         *)
LEMMA CommitGrows ==
  ASSUME TypeOK, NEW d \in Docs, NEW batch \in SUBSET Rows,
         Log!Commit(d, {[seq |-> j, clock |-> j] : j \in batch})
  PROVE  /\ log' \in [Docs -> SUBSET Log!Ops]
         /\ Committed' = Committed \cup batch
         /\ outbox' = outbox \cup batch
<1> DEFINE new == {[seq |-> j, clock |-> j] : j \in batch}
<1>1. /\ log' = [log EXCEPT ![d] = @ \cup new] /\ outbox' = outbox \cup {n.seq : n \in new}
      /\ new \subseteq Log!Ops
  BY DEF Log!Commit
<1>2. {n.seq : n \in new} = batch
  <2>1. \A n \in new : n.seq \in batch
    OBVIOUS
  <2>2. \A j \in batch : \E n \in new : n.seq = j
    <3>1. \A j \in batch : [seq |-> j, clock |-> j] \in new
      OBVIOUS
    <3> QED BY <3>1
  <2> QED BY <2>1, <2>2
<1> HIDE DEF new
<1>3. log \in [Docs -> SUBSET Log!Ops]
  BY DEF TypeOK
<1>4. log' \in [Docs -> SUBSET Log!Ops]
  BY <1>1, <1>3
<1>5. /\ log'[d] = log[d] \cup new
      /\ \A e \in Docs \ {d} : log'[e] = log[e]
  BY <1>1, <1>3
<1>6. \A j : j \in Committed <=> \E e \in Docs : \E op \in log[e] : op.seq = j
  BY DEF Committed
<1>7. \A j : j \in Committed' <=> \E e \in Docs : \E op \in log'[e] : op.seq = j
  BY DEF Committed
<1>8. \A j : j \in Committed' <=> j \in Committed \/ j \in batch
  BY <1>2, <1>5, <1>6, <1>7
<1> QED BY <1>1, <1>2, <1>4, <1>8

LEMMA CommitEditKeeps ==
  ASSUME IInv, NEW s \in Servers, NEW ai \in BOOLEAN, CommitEdit(s, ai)
  PROVE  IInv'
<1>1. PICK d \in Docs, last \in Rows \ Committed :
        LET batch == (Cardinality(Committed) + 1)..last IN
        /\ Log!Commit(d, {[seq |-> j, clock |-> j] : j \in batch})
        /\ handler' = [handler EXCEPT ![s] =
                         [at |-> "enqueue", ai |-> ai, todo |-> batch, edits |-> batch]]
  BY DEF CommitEdit
<1> DEFINE batch == (Cardinality(Committed) + 1)..last
<1>2. IsFiniteSet(Rows)
  BY FS_Interval, MaxSequenceAssumption DEF Rows
<1>3. Cardinality(Committed) \in Nat
  BY <1>2, FS_Subset, FS_CardinalityType DEF IInv
<1>4. batch \subseteq Rows
  BY <1>3, MaxSequenceAssumption DEF Rows
<1>5. TypeOK /\ UNCHANGED <<deliveryVars, answer, processVars, faults>>
  BY DEF IInv, CommitEdit
<1> HIDE DEF batch
<1>6. /\ log' \in [Docs -> SUBSET Log!Ops] /\ Committed' = Committed \cup batch
      /\ outbox' = outbox \cup batch
  BY <1>1, <1>4, <1>5, CommitGrows DEF batch
<1>7. handler' = [handler EXCEPT ![s] =
                    [at |-> "enqueue", ai |-> ai, todo |-> batch, edits |-> batch]]
  BY <1>1 DEF batch
<1>8. Onward
  BY <1>5, QueueStill DEF TypeOK, deliveryVars
<1>9. TypeOK'
  <2>1. handler' \in [Servers -> [at : {"idle", "enqueue", "publish", "answer"}, ai : BOOLEAN,
                                  todo : SUBSET Rows, edits : SUBSET Rows]]
    BY <1>4, <1>5, <1>7 DEF TypeOK
  <2> QED BY <1>5, <1>6, <1>8, <2>1 DEF TypeOK, Onward, deliveryVars, processVars
<1>10. RowUntilPublished' /\ AnsweredIsQueued'
  BY <1>5, <1>6 DEF IInv, RowUntilPublished, AnsweredIsQueued, deliveryVars
<1>11. \A t \in Servers : HandlerFine(t)'
  <2>1. HandlerFine(s)'
    BY <1>5, <1>6, <1>7 DEF HandlerFine, TypeOK
  <2>2. \A t \in Servers \ {s} : handler'[t] = handler[t]
    BY <1>5, <1>7 DEF TypeOK
  <2> QED BY <1>6, <1>8, <2>1, <2>2, HandlerKept
<1>12. \A t \in Servers : WorkerFine(t)'
  BY <1>5, <1>6, WorkerKept DEF IInv, deliveryVars
<1>13. \A j \in Rows : AttemptsCounted(j)'
  BY <1>5, <1>8, CountingStill DEF deliveryVars
<1>14. Committed' \subseteq Rows
  BY <1>4, <1>6 DEF IInv
<1> QED BY <1>9, <1>10, <1>11, <1>12, <1>13, <1>14 DEF IInv

-----------------------------------------------------------------------------

(* A step of a handler leaves the rows and the workers alone.               *)
Handler == [at : {"idle", "enqueue", "publish", "answer"}, ai : BOOLEAN,
            todo : SUBSET Rows, edits : SUBSET Rows]

LEMMA HandlerStep ==
  ASSUME IInv, NEW s \in Servers, Onward,
         UNCHANGED <<log, outbox, attempts, worker, processVars>>,
         published \subseteq published', published' \subseteq Committed,
         faults' \in 0..MaxFaults,
         NEW h \in Handler, handler' = [handler EXCEPT ![s] = h], HandlerFine(s)',
         answer' \in [Rows -> {"none", "ok", "error"}], AnsweredIsQueued'
  PROVE  IInv'
<1>1. Committed' = Committed
  BY CommittedStill
<1>2. TypeOK'
  BY <1>1 DEF IInv, TypeOK, Onward, Handler, processVars
<1>3. RowUntilPublished'
  BY <1>1 DEF IInv, RowUntilPublished
<1>4. \A t \in Servers : HandlerFine(t)'
  <2>1. \A t \in Servers \ {s} : handler'[t] = handler[t]
    BY DEF IInv, TypeOK
  <2> QED BY <1>1, <2>1, HandlerKept
<1>5. \A t \in Servers : WorkerFine(t)'
  BY <1>1, WorkerKept DEF IInv
<1>6. \A j \in Rows : AttemptsCounted(j)'
  BY CountingStill
<1> QED BY <1>1, <1>2, <1>3, <1>4, <1>5, <1>6 DEF IInv

LEMMA EnqueueDeliveryKeeps ==
  ASSUME IInv, NEW s \in Servers, EnqueueDelivery(s)
  PROVE  IInv'
<1>1. PICK j \in handler[s].todo :
        /\ Queue!Add({j})
        /\ handler' = [handler EXCEPT
             ![s].todo = IF @ = {j} /\ handler[s].ai THEN handler[s].edits ELSE @ \ {j},
             ![s].at = IF handler[s].todo # {j} THEN "enqueue"
                       ELSE IF handler[s].ai THEN "publish" ELSE "answer"]
  BY DEF EnqueueDelivery
<1>2. /\ TypeOK /\ HandlerFine(s) /\ handler[s].at = "enqueue" /\ handler[s] \in Handler
      /\ handler[s].todo \subseteq Rows /\ handler[s].edits \subseteq Rows
      /\ UNCHANGED <<log, outbox, attempts, published, worker, answer, processVars, faults>>
  BY DEF IInv, TypeOK, Handler, EnqueueDelivery
<1>3. Onward /\ jobs'[j].state # "absent"
  BY <1>1, <1>2, AddOnward DEF TypeOK
<1> DEFINE at == IF handler[s].todo # {j} THEN "enqueue"
                 ELSE IF handler[s].ai THEN "publish" ELSE "answer"
           todo == IF handler[s].todo = {j} /\ handler[s].ai
                     THEN handler[s].edits ELSE handler[s].todo \ {j}
           h == [handler[s] EXCEPT !.todo = todo, !.at = at]
<1>4. /\ handler' = [handler EXCEPT ![s] = h] /\ h \in Handler
      /\ h.at = at /\ h.todo = todo /\ h.edits = handler[s].edits
  <2>1. at \in {"enqueue", "publish", "answer"} /\ todo \in SUBSET Rows
    BY <1>2
  <2>2. handler' = [handler EXCEPT ![s] = h]
    BY <1>1
  <2> HIDE DEF at, todo
  <2> QED BY <1>2, <2>1, <2>2 DEF Handler
<1> HIDE DEF h
<1>5. h.edits = handler[s].edits /\ h.todo \subseteq h.edits
  BY <1>2, <1>4 DEF HandlerFine
<1>6. \A i \in h.edits : i \in handler[s].todo \ {j} \/ jobs'[i].state # "absent"
  BY <1>2, <1>3, <1>5 DEF HandlerFine, Onward
<1>7. /\ h.at = "enqueue" => h.todo = handler[s].todo \ {j}
      /\ h.at # "enqueue" => handler[s].todo = {j}
  BY <1>4
<1>8. HandlerFine(s)'
  <2>1. handler'[s] = h /\ Committed' = Committed
    BY <1>2, <1>4, CommittedStill DEF TypeOK
  <2>2. h.edits \subseteq Committed
    BY <1>2, <1>5 DEF HandlerFine
  <2> QED BY <1>5, <1>6, <1>7, <2>1, <2>2 DEF HandlerFine
<1>9. AnsweredIsQueued'
  BY <1>2, <1>3, CommittedStill DEF IInv, AnsweredIsQueued, Onward
<1> QED BY <1>2, <1>3, <1>4, <1>8, <1>9, HandlerStep DEF TypeOK

LEMMA PublishDirectlyKeeps ==
  ASSUME IInv, NEW s \in Servers, PublishDirectly(s)
  PROVE  IInv'
<1>1. PICK j \in handler[s].todo, reached \in BOOLEAN :
        /\ reached \/ faults < MaxFaults
        /\ published' = IF reached THEN published \cup {j} ELSE published
        /\ faults' = IF reached THEN faults ELSE faults + 1
        /\ handler' = [handler EXCEPT
             ![s].todo = @ \ {j},
             ![s].at = IF handler[s].todo = {j} THEN "answer" ELSE "publish"]
  BY DEF PublishDirectly, MayFail
<1>2. /\ TypeOK /\ HandlerFine(s) /\ handler[s].at = "publish" /\ handler[s] \in Handler
      /\ UNCHANGED <<log, outbox, attempts, jobs, worker, answer, processVars>>
  BY DEF IInv, TypeOK, Handler, PublishDirectly
<1>3. Onward
  BY <1>2, QueueStill DEF TypeOK
<1> DEFINE h == [handler[s] EXCEPT !.todo = @ \ {j},
                                   !.at = IF handler[s].todo = {j} THEN "answer" ELSE "publish"]
<1>4. handler' = [handler EXCEPT ![s] = h] /\ h \in Handler
  BY <1>1, <1>2 DEF TypeOK, Handler
<1>5. /\ h.todo \subseteq handler[s].todo /\ h.edits = handler[s].edits
      /\ h.at \in {"answer", "publish"}
  BY <1>2 DEF Handler
<1> HIDE DEF h
<1>6. published \subseteq published' /\ published' \subseteq Committed
  BY <1>1, <1>2 DEF TypeOK, HandlerFine
<1>7. HandlerFine(s)'
  <2>1. handler'[s] = h /\ Committed' = Committed
    BY <1>2, <1>4, CommittedStill DEF TypeOK
  <2> QED BY <1>2, <1>5, <2>1 DEF HandlerFine
<1>8. AnsweredIsQueued'
  BY <1>2, CommittedStill DEF IInv, AnsweredIsQueued
<1>9. faults' \in 0..MaxFaults
  BY <1>1, <1>2, MaxFaultsAssumption DEF TypeOK
<1> QED BY <1>2, <1>3, <1>4, <1>6, <1>7, <1>8, <1>9, HandlerStep DEF TypeOK

(* The handler ends, and tells its author "ok" only when it got to the end. *)
LEMMA AnswerKeeps ==
  ASSUME IInv, NEW s \in Servers, AnswerOk(s) \/ EnqueueError(s)
  PROVE  IInv'
<1>1. /\ TypeOK /\ handler' = [handler EXCEPT ![s] = Idle]
      /\ UNCHANGED <<log, outbox, deliveryVars, processVars>>
  BY DEF IInv, AnswerOk, EnqueueError
<1>2. Onward
  BY <1>1, QueueStill DEF TypeOK, deliveryVars
<1>3. faults' \in 0..MaxFaults
  BY <1>1, MaxFaultsAssumption DEF TypeOK, AnswerOk, EnqueueError, MayFail
<1>4. /\ \/ answer' = Answered(s, "ok") /\ handler[s].at = "answer"
         \/ answer' = Answered(s, "error")
      /\ HandlerFine(s) /\ Committed' = Committed
  BY CommittedStill, <1>1 DEF IInv, AnswerOk, EnqueueError
<1>5. AnsweredIsQueued'
  BY <1>1, <1>4 DEF IInv, AnsweredIsQueued, Answered, HandlerFine, deliveryVars
<1>6. answer' \in [Rows -> {"none", "ok", "error"}]
  BY <1>1, <1>4 DEF TypeOK, Answered
<1>7. Idle \in Handler
  BY DEF Idle, Handler
<1>8. HandlerFine(s)'
  BY <1>1 DEF TypeOK, HandlerFine, Idle
<1>9. published' = published /\ published \subseteq Committed
  BY <1>1 DEF TypeOK, deliveryVars
<1> QED BY <1>1, <1>2, <1>3, <1>5, <1>6, <1>7, <1>8, <1>9, HandlerStep DEF deliveryVars

-----------------------------------------------------------------------------

(* A step of a worker leaves the committed rows and the handlers alone.     *)
Worker == [at : {"idle", "row", "publish", "delete", "dead", "count", "requeue", "return"},
           row : Rows \cup {0}, attempts : Nat, outcome : {"completed", "failed"}]

LEMMA WorkerStep ==
  ASSUME IInv, NEW s \in Servers, Onward, UNCHANGED <<log, requestVars, processVars>>,
         outbox' \subseteq outbox, RowUntilPublished',
         published \subseteq published', published' \subseteq Committed,
         faults' \in 0..MaxFaults, attempts' \in [Rows -> Nat],
         \A t \in Servers : worker[t].at = "dead" =>
           \/ attempts'[worker[t].row] = attempts[worker[t].row]
           \/ attempts'[worker[t].row] >= MaxAttempts,
         NEW w \in Worker, worker' = [worker EXCEPT ![s] = w], WorkerFine(s)',
         \A j \in Rows : AttemptsCounted(j)'
  PROVE  IInv'
<1>1. Committed' = Committed
  BY CommittedStill
<1>2. TypeOK'
  BY <1>1 DEF IInv, TypeOK, Onward, Worker, requestVars, processVars
<1>3. AnsweredIsQueued'
  BY <1>1 DEF IInv, AnsweredIsQueued, Onward, requestVars
<1>4. \A t \in Servers : HandlerFine(t)'
  BY <1>1, HandlerKept DEF requestVars
<1>5. \A t \in Servers : WorkerFine(t)'
  <2>1. \A t \in Servers \ {s} : worker'[t] = worker[t] /\ WorkerFine(t)
    BY DEF IInv, TypeOK
  <2> QED BY <1>1, <2>1, WorkerKept
<1> QED BY <1>1, <1>2, <1>3, <1>4, <1>5 DEF IInv

(* Most steps count nothing and do not make the worker start to count.      *)
LEMMA WorkerGoesOn ==
  ASSUME IInv, NEW s \in Servers, Onward, UNCHANGED <<log, requestVars, processVars>>,
         outbox' \subseteq outbox, RowUntilPublished', attempts' = attempts,
         published \subseteq published', published' \subseteq Committed,
         faults' \in 0..MaxFaults,
         NEW w \in Worker, worker' = [worker EXCEPT ![s] = w], WorkerFine(s)',
         w.at \in CountedAt => /\ worker[s].at \in CountedAt \ {"row"} /\ w.at # "row"
                               /\ w.row = worker[s].row /\ w.attempts = worker[s].attempts
  PROVE  IInv'
<1>1. worker'[s] = w /\ \A t \in Servers \ {s} : worker'[t] = worker[t]
  BY DEF IInv, TypeOK
<1>2. \A j \in Rows : AttemptsCounted(j)'
  BY <1>1, CountingShrinks DEF Counting
<1>3. attempts' \in [Rows -> Nat]
  BY DEF IInv, TypeOK
<1> QED BY <1>2, <1>3, WorkerStep

(* The record of a worker that only moves on.                               *)
LEMMA GotoWorker ==
  ASSUME TypeOK, NEW s \in Servers, NEW at \in {"delete", "return", "count", "requeue"},
         Goto(s, at)
  PROVE  /\ worker'[s] \in Worker /\ worker' = [worker EXCEPT ![s] = worker'[s]]
         /\ worker'[s].row = worker[s].row /\ worker'[s].attempts = worker[s].attempts
         /\ worker'[s].at = at
<1>1. worker \in [Servers -> Worker] /\ worker[s] \in Worker
  BY DEF TypeOK, Worker
<1> DEFINE w == [worker[s] EXCEPT !.at = at]
<1>2. /\ w \in Worker /\ w.at = at /\ w.row = worker[s].row /\ w.attempts = worker[s].attempts
  BY <1>1 DEF Worker
<1>3. worker' = [worker EXCEPT ![s] = w]
  BY DEF Goto
<1> QED BY <1>1, <1>2, <1>3

LEMMA PublishKeeps ==
  ASSUME IInv, NEW s \in Servers, Publish(s)
  PROVE  IInv'
<1>1. /\ TypeOK /\ WorkerFine(s) /\ worker[s].at = "publish" /\ Goto(s, "delete")
      /\ published' = published \cup {worker[s].row}
      /\ UNCHANGED <<outbox, attempts, jobs, faults, log, requestVars, processVars>>
  BY DEF IInv, Publish, WorkerUnchanged
<1>2. /\ worker[s].row \in Rows /\ worker[s].row \in Committed /\ Committed' = Committed
  BY <1>1, CommittedStill DEF WorkerFine
<1>3. /\ published \subseteq published' /\ published' \subseteq Committed
      /\ faults' \in 0..MaxFaults
  BY <1>1, <1>2 DEF TypeOK
<1>4. RowUntilPublished'
  BY <1>1, <1>2 DEF IInv, RowUntilPublished
<1>5. /\ worker'[s] \in Worker /\ worker' = [worker EXCEPT ![s] = worker'[s]]
      /\ worker'[s].row = worker[s].row /\ worker'[s].attempts = worker[s].attempts
      /\ worker'[s].at = "delete"
  BY <1>1, GotoWorker
<1>6. WorkerFine(s)'
  BY <1>1, <1>2, <1>5 DEF WorkerFine
<1>7. Onward
  BY <1>1, QueueStill DEF TypeOK
<1> QED BY <1>1, <1>3, <1>4, <1>5, <1>6, <1>7, WorkerGoesOn DEF CountedAt

(* A row is deleted once it was published, or by a worker that found no     *)
(* attempts left: and those it found used up are still used up.             *)
LEMMA DeleteRowKeeps ==
  ASSUME IInv, NEW s \in Servers, DeleteRow(s)
  PROVE  IInv'
<1>1. /\ TypeOK /\ WorkerFine(s) /\ worker[s].at \in {"delete", "dead"} /\ Goto(s, "return")
      /\ outbox' = outbox \ {worker[s].row}
      /\ UNCHANGED <<published, attempts, jobs, faults, log, requestVars, processVars>>
  BY DEF IInv, DeleteRow, WorkerUnchanged
<1>2. RowUntilPublished'
  <2>1. worker[s].row \in published \/ attempts[worker[s].row] >= MaxAttempts
    BY <1>1 DEF WorkerFine
  <2> QED BY <1>1, <2>1, CommittedStill DEF IInv, RowUntilPublished
<1>3. /\ worker'[s] \in Worker /\ worker' = [worker EXCEPT ![s] = worker'[s]]
      /\ worker'[s].row = worker[s].row /\ worker'[s].at = "return"
  BY <1>1, GotoWorker
<1>4. WorkerFine(s)'
  BY <1>1, <1>3 DEF WorkerFine
<1>5. /\ outbox' \subseteq outbox /\ published' \subseteq Committed /\ faults' \in 0..MaxFaults
  BY <1>1 DEF TypeOK
<1>6. Onward
  BY <1>1, QueueStill DEF TypeOK
<1> QED BY <1>1, <1>2, <1>3, <1>4, <1>5, <1>6, WorkerGoesOn DEF CountedAt

LEMMA RequeueKeeps ==
  ASSUME IInv, NEW s \in Servers, Requeue(s)
  PROVE  IInv'
<1>1. /\ TypeOK /\ WorkerFine(s) /\ worker[s].at = "requeue" /\ Goto(s, "return")
      /\ Queue!Add({worker[s].row})
      /\ UNCHANGED <<outbox, published, attempts, faults, log, requestVars, processVars>>
  BY DEF IInv, Requeue, WorkerUnchanged
<1>2. /\ worker'[s] \in Worker /\ worker' = [worker EXCEPT ![s] = worker'[s]]
      /\ worker'[s].row = worker[s].row /\ worker'[s].at = "return"
  BY <1>1, GotoWorker
<1>3. WorkerFine(s)'
  BY <1>1, <1>2 DEF WorkerFine
<1>4. published' \subseteq Committed /\ faults' \in 0..MaxFaults
  BY <1>1 DEF TypeOK
<1>5. Onward
  BY <1>1, AddOnward DEF TypeOK
<1>6. RowUntilPublished'
  BY <1>1, CommittedStill DEF IInv, RowUntilPublished
<1> QED BY <1>1, <1>2, <1>3, <1>4, <1>5, <1>6, WorkerGoesOn DEF CountedAt

LEMMA ErrorKeeps ==
  ASSUME IInv, NEW s \in Servers, DeliveryError(s) \/ JobError(s)
  PROVE  IInv'
<1>1. /\ TypeOK /\ WorkerFine(s)
      /\ UNCHANGED <<outbox, published, attempts, jobs, log, requestVars, processVars>>
      /\ faults < MaxFaults /\ faults' = faults + 1
  BY DEF IInv, DeliveryError, JobError, MayFail, WorkerUnchanged
<1>2. published' \subseteq Committed /\ faults' \in 0..MaxFaults
  BY <1>1, MaxFaultsAssumption DEF TypeOK
<1>3. Onward /\ RowUntilPublished'
  BY <1>1, QueueStill, CommittedStill DEF IInv, TypeOK, RowUntilPublished
<1>4. CASE DeliveryError(s)
  <2>1. /\ worker'[s] \in Worker /\ worker' = [worker EXCEPT ![s] = worker'[s]]
        /\ worker'[s].row = worker[s].row /\ worker'[s].attempts = worker[s].attempts
        /\ worker'[s].at = "count" /\ worker[s].at \in {"publish", "delete", "dead"}
    BY <1>1, <1>4, GotoWorker DEF DeliveryError
  <2>2. WorkerFine(s)'
    BY <1>1, <2>1 DEF WorkerFine
  <2> QED BY <1>1, <1>2, <1>3, <2>1, <2>2, WorkerGoesOn DEF CountedAt
<1>5. CASE JobError(s)
  <2>1. /\ worker'[s] \in Worker /\ worker' = [worker EXCEPT ![s] = worker'[s]]
        /\ worker'[s].row = worker[s].row /\ worker'[s].at = "return"
        /\ worker[s].at # "idle"
    BY <1>1, <1>5 DEF JobError, TypeOK, Worker
  <2>2. WorkerFine(s)'
    BY <1>1, <2>1 DEF WorkerFine
  <2> QED BY <1>1, <1>2, <1>3, <2>1, <2>2, WorkerGoesOn DEF CountedAt
<1> QED BY <1>4, <1>5

LEMMA ReturnJobKeeps ==
  ASSUME IInv, NEW s \in Servers, ReturnJob(s)
  PROVE  IInv'
<1>1. /\ TypeOK /\ WorkerFine(s) /\ worker[s].at = "return"
      /\ worker' = [worker EXCEPT ![s] = NoJob]
      /\ Queue!Finish(worker[s].row, s, worker[s].outcome)
      /\ UNCHANGED <<outbox, published, attempts, faults, log, requestVars, processVars>>
  BY DEF IInv, ReturnJob, WorkerUnchanged
<1>2. worker[s].row \in Rows /\ worker[s].outcome \in {"completed", "failed"}
  BY <1>1 DEF WorkerFine, TypeOK
<1>3. Onward
  BY <1>1, <1>2, FinishOnward DEF TypeOK
<1>4. NoJob \in Worker /\ NoJob.at = "idle"
  BY DEF NoJob, Worker
<1>5. WorkerFine(s)'
  BY <1>1, <1>4 DEF WorkerFine, TypeOK
<1>6. published' \subseteq Committed /\ faults' \in 0..MaxFaults
  BY <1>1 DEF TypeOK
<1>7. RowUntilPublished'
  BY <1>1, CommittedStill DEF IInv, RowUntilPublished
<1> QED BY <1>1, <1>3, <1>4, <1>5, <1>6, <1>7, WorkerGoesOn DEF CountedAt

-----------------------------------------------------------------------------

(* Taking a job adds a worker that may count an attempt, and uses up one of *)
(* the times the job can be taken.                                          *)
LEMMA TakeJobKeeps ==
  ASSUME IInv, NEW s \in Servers, NEW j \in Rows, TakeJob(s, j)
  PROVE  IInv'
<1> DEFINE w == [NoJob EXCEPT !.at = "row", !.row = j]
<1>1. /\ TypeOK /\ worker[s].at = "idle" /\ Queue!Take(j, s)
      /\ worker' = [worker EXCEPT ![s] = w]
      /\ UNCHANGED <<outbox, attempts, published, faults, log, requestVars, processVars>>
  BY DEF IInv, TakeJob, WorkerUnchanged
<1>2. w \in Worker /\ w.at = "row" /\ w.row = j
  BY DEF NoJob, Worker
<1> HIDE DEF w
<1>3. worker'[s] = w /\ \A t \in Servers \ {s} : worker'[t] = worker[t]
  BY <1>1 DEF TypeOK
<1>4. Onward /\ Takes(j)' = Takes(j) + 1
  BY <1>1, TakeOnward DEF TypeOK
<1>5. AttemptsCounted(j)'
  <2> DEFINE before == Counting(j)
             after == Counting(j)'
  <2>1. after = before \cup {s} /\ s \notin before
    BY <1>1, <1>2, <1>3 DEF Counting, CountedAt
  <2>2. /\ IsFiniteSet(before) /\ Cardinality(before) \in Nat /\ Takes(j) \in Nat
        /\ attempts[j] \in Nat /\ attempts[j] + Cardinality(before) <= Takes(j)
    BY CountingNumbers
  <2>3. AttemptsCounted(j)
    BY DEF IInv
  <2> HIDE DEF before, after
  <2>4. IsFiniteSet(after) /\ Cardinality(after) = Cardinality(before) + 1
    BY <2>1, <2>2, FS_AddElement
  <2>5. ASSUME NEW t \in after, worker'[t].at # "row"
        PROVE  worker'[t].attempts + Cardinality(after) <= Takes(j)'
    <3>1. t \in before /\ t # s /\ t \in Servers
      BY <1>2, <1>3, <2>1, <2>5 DEF before, Counting
    <3>2. worker'[t] = worker[t] /\ worker[t].attempts \in Nat
      BY <1>3, <3>1, CountingNumbers DEF before
    <3>3. worker[t].attempts + Cardinality(before) <= Takes(j)
      BY <2>3, <2>5, <3>1, <3>2 DEF AttemptsCounted, before
    <3> QED BY <1>4, <2>2, <2>4, <3>2, <3>3
  <2>6. attempts'[j] + Cardinality(after) <= Takes(j)'
    BY <1>1, <1>4, <2>2, <2>4
  <2> QED BY <2>4, <2>5, <2>6 DEF AttemptsCounted, after
<1>6. \A i \in Rows \ {j} : AttemptsCounted(i)'
  BY <1>1, <1>2, <1>3, <1>4, CountingShrinks DEF Counting
<1>7. WorkerFine(s)'
  BY <1>2, <1>3 DEF WorkerFine
<1>8. /\ published' \subseteq Committed /\ faults' \in 0..MaxFaults
      /\ attempts' \in [Rows -> Nat] /\ RowUntilPublished'
  BY <1>1, CommittedStill DEF IInv, TypeOK, RowUntilPublished
<1> QED BY <1>1, <1>2, <1>4, <1>5, <1>6, <1>7, <1>8, WorkerStep

LEMMA ReadRowKeeps ==
  ASSUME IInv, NEW s \in Servers, ReadRow(s)
  PROVE  IInv'
<1>0. PICK j \in Rows : j = worker[s].row
  BY DEF ReadRow, IInv, WorkerFine
<1> DEFINE w == [worker[s] EXCEPT !.attempts = attempts[j],
                   !.at = IF j \notin outbox THEN "return"
                          ELSE IF attempts[j] >= MaxAttempts THEN "dead" ELSE "publish"]
<1>1. /\ TypeOK /\ WorkerFine(s) /\ worker[s].at = "row" /\ worker[s] \in Worker
      /\ worker' = [worker EXCEPT ![s] = w]
      /\ UNCHANGED <<outbox, attempts, jobs, published, faults, log, requestVars, processVars>>
  BY <1>0 DEF IInv, ReadRow, WorkerUnchanged, TypeOK, Worker
<1>2. attempts[j] \in Nat
  BY <1>1 DEF TypeOK
<1>3. /\ w \in Worker /\ w.row = j /\ w.attempts = attempts[j]
      /\ w.at \in {"return", "dead", "publish"}
      /\ w.at # "return" => j \in outbox
      /\ w.at = "dead" => attempts[j] >= MaxAttempts
  BY <1>0, <1>1, <1>2 DEF Worker
<1> HIDE DEF w
<1>4. worker'[s] = w /\ \A t \in Servers \ {s} : worker'[t] = worker[t]
  BY <1>1 DEF TypeOK
<1>5. Onward
  BY <1>1, QueueStill DEF TypeOK
<1>6. AttemptsCounted(j)'
  <2> DEFINE before == Counting(j)
             after == Counting(j)'
  <2>1. after \subseteq before
    BY <1>0, <1>1, <1>4 DEF Counting, CountedAt
  <2>2. /\ IsFiniteSet(before) /\ Cardinality(before) \in Nat /\ Takes(j) \in Nat
        /\ attempts[j] + Cardinality(before) <= Takes(j)
    BY <1>2, CountingNumbers
  <2>3. AttemptsCounted(j) /\ Takes(j)' \in Nat /\ Takes(j) <= Takes(j)'
    BY <1>2, <1>5 DEF IInv, Onward
  <2> HIDE DEF before, after
  <2>4. /\ IsFiniteSet(after) /\ Cardinality(after) \in Nat
        /\ Cardinality(after) <= Cardinality(before)
    BY <2>1, <2>2, FS_Subset, FS_CardinalityType
  <2>5. ASSUME NEW t \in after, worker'[t].at # "row"
        PROVE  worker'[t].attempts + Cardinality(after) <= Takes(j)'
    <3>1. CASE t = s
      BY <1>2, <1>3, <1>4, <2>2, <2>3, <2>4, <3>1
    <3>2. CASE t # s
      <4>1. t \in before /\ worker'[t] = worker[t] /\ worker[t].attempts \in Nat
        BY <1>2, <1>4, <2>1, <2>5, <3>2, CountingNumbers DEF before, Counting
      <4>2. worker[t].attempts + Cardinality(before) <= Takes(j)
        BY <2>3, <2>5, <4>1 DEF AttemptsCounted, before
      <4> QED BY <2>2, <2>3, <2>4, <4>1, <4>2
    <3> QED BY <3>1, <3>2
  <2>6. attempts'[j] + Cardinality(after) <= Takes(j)'
    BY <1>1, <1>2, <2>2, <2>3, <2>4
  <2> QED BY <2>4, <2>5, <2>6 DEF AttemptsCounted, after
<1>7. \A i \in Rows \ {j} : AttemptsCounted(i)'
  BY <1>1, <1>3, <1>4, <1>5, CountingShrinks DEF Counting
<1>8. WorkerFine(s)'
  BY <1>0, <1>1, <1>2, <1>3, <1>4, CommittedStill DEF WorkerFine, TypeOK
<1>9. /\ published' \subseteq Committed /\ faults' \in 0..MaxFaults
      /\ attempts' \in [Rows -> Nat] /\ RowUntilPublished'
  BY <1>1, CommittedStill DEF IInv, TypeOK, RowUntilPublished
<1> QED BY <1>1, <1>3, <1>5, <1>6, <1>7, <1>8, <1>9, WorkerStep

(* An attempt is counted: the worker leaves the ones that may still count,  *)
(* and the attempts written are bounded as the ones it read were.  No other *)
(* worker can be about to delete the row as used up: with this one and the  *)
(* attempts counted the job would have been taken too often.                *)
LEMMA UpdateAttemptsKeeps ==
  ASSUME IInv, NEW s \in Servers, UpdateAttempts(s)
  PROVE  IInv'
<1>0. PICK j \in Rows : j = worker[s].row
  BY DEF UpdateAttempts, IInv, WorkerFine
<1>1. /\ TypeOK /\ WorkerFine(s) /\ worker[s].at = "count" /\ Goto(s, "requeue")
      /\ attempts' = IF j \in outbox THEN [attempts EXCEPT ![j] = worker[s].attempts + 1]
                                     ELSE attempts
      /\ UNCHANGED <<outbox, jobs, published, faults, log, requestVars, processVars>>
  BY <1>0 DEF IInv, UpdateAttempts, WorkerUnchanged
<1>2. worker[s].attempts \in Nat /\ attempts \in [Rows -> Nat]
  BY <1>1 DEF TypeOK
<1>3. /\ worker'[s] \in Worker /\ worker' = [worker EXCEPT ![s] = worker'[s]]
      /\ worker'[s].row = j /\ worker'[s].at = "requeue"
      /\ \A t \in Servers \ {s} : worker'[t] = worker[t]
  BY <1>0, <1>1, GotoWorker DEF TypeOK
<1>4. s \in Counting(j)
  BY <1>0, <1>1 DEF Counting, CountedAt
<1>5. /\ attempts' \in [Rows -> Nat] /\ attempts'[j] \in {attempts[j], worker[s].attempts + 1}
      /\ \A i \in Rows : i # j \/ i \notin outbox => attempts'[i] = attempts[i]
  BY <1>1, <1>2
<1>6. Onward /\ Takes(j)' = Takes(j)
  BY <1>1, QueueStill DEF TypeOK, Takes
<1> DEFINE before == Counting(j)
           after == Counting(j)'
<1>7. after = before \ {s}
  BY <1>3, <1>4 DEF Counting, CountedAt
<1>8. /\ IsFiniteSet(before) /\ Cardinality(before) \in Nat /\ Takes(j) \in Nat
      /\ attempts[j] \in Nat /\ attempts[j] + Cardinality(before) <= Takes(j)
      /\ Takes(j) <= MaxStalls + 1
  BY <1>2, CountingNumbers
<1>9. AttemptsCounted(j)
  BY <1>2 DEF IInv
<1>10. worker[s].attempts + Cardinality(before) <= Takes(j)
  BY <1>1, <1>4, <1>9 DEF AttemptsCounted
<1> HIDE DEF before, after
<1>11. /\ IsFiniteSet(after) /\ Cardinality(after) \in Nat
       /\ Cardinality(before) = Cardinality(after) + 1
  <2>1. /\ IsFiniteSet(after) /\ Cardinality(after) = Cardinality(before) - 1
    BY <1>4, <1>7, <1>8, FS_RemoveElement DEF before
  <2>2. Cardinality(after) \in Nat
    BY <2>1, FS_CardinalityType
  <2> QED BY <1>8, <2>1, <2>2
<1>12. AttemptsCounted(j)'
  <2>1. attempts'[j] + Cardinality(after) <= Takes(j)'
    BY <1>2, <1>5, <1>6, <1>8, <1>10, <1>11
  <2>2. ASSUME NEW t \in after, worker'[t].at # "row"
        PROVE  worker'[t].attempts + Cardinality(after) <= Takes(j)'
    <3>1. t \in before /\ worker'[t] = worker[t] /\ worker[t].attempts \in Nat
      BY <1>2, <1>3, <1>7, <2>2, CountingNumbers DEF before, Counting
    <3>2. worker[t].attempts + Cardinality(before) <= Takes(j)
      BY <1>9, <2>2, <3>1 DEF AttemptsCounted, before
    <3> QED BY <1>6, <1>8, <1>11, <3>1, <3>2
  <2> QED BY <1>11, <2>1, <2>2 DEF AttemptsCounted, after
<1>13. \A i \in Rows \ {j} : AttemptsCounted(i)'
  BY <1>3, <1>5, <1>6, CountingShrinks DEF Counting
<1>14. ASSUME NEW t \in Servers, worker[t].at = "dead"
       PROVE  attempts'[worker[t].row] = attempts[worker[t].row]
  <2>1. WorkerFine(t) /\ worker[t].row \in Rows
    BY <1>14 DEF IInv, WorkerFine
  <2>2. CASE worker[t].row = j
    <3>1. t \in before \ {s}
      BY <1>1, <1>14, <2>2 DEF before, Counting, CountedAt
    <3>2. after # {}
      BY <1>7, <3>1
    <3>3. Cardinality(after) # 0
      BY <1>11, <3>2, FS_EmptySet
    <3>4. attempts[j] >= MaxAttempts
      BY <1>14, <2>1, <2>2 DEF WorkerFine
    <3>5. FALSE
      BY <1>8, <1>11, <3>3, <3>4, StallsAssumption, MaxStallsAssumption, MaxAttemptsAssumption
    <3> QED BY <3>5
  <2>3. CASE worker[t].row # j
    BY <1>5, <2>1, <2>3
  <2> QED BY <2>2, <2>3
<1>15. WorkerFine(s)'
  BY <1>3 DEF WorkerFine
<1>16. published' \subseteq Committed /\ faults' \in 0..MaxFaults
  BY <1>1 DEF TypeOK
<1>17. RowUntilPublished'
  <2>1. Committed' = Committed /\ outbox' = outbox /\ published' = published
    BY <1>1, CommittedStill
  <2> QED BY <1>5, <2>1 DEF IInv, RowUntilPublished
<1> QED BY <1>1, <1>3, <1>5, <1>6, <1>12, <1>13, <1>14, <1>15, <1>16, <1>17, WorkerStep

-----------------------------------------------------------------------------

LEMMA StallKeeps ==
  ASSUME IInv, NEW j \in Rows, RecoverJob(j) \/ StallJob(j)
  PROVE  IInv'
<1>1. /\ TypeOK /\ Queue!Stall(j)
      /\ UNCHANGED <<outbox, attempts, published, worker, log, requestVars, processVars>>
  BY DEF IInv, RecoverJob, StallJob, WorkerUnchanged
<1>2. faults' \in 0..MaxFaults
  BY <1>1, MaxFaultsAssumption DEF TypeOK, RecoverJob, StallJob, MayFail
<1>3. Onward /\ Committed' = Committed
  BY <1>1, StallOnward, CommittedStill DEF TypeOK
<1>4. TypeOK'
  BY <1>1, <1>2, <1>3 DEF TypeOK, Onward, requestVars, processVars
<1>5. RowUntilPublished' /\ AnsweredIsQueued'
  BY <1>1, <1>3 DEF IInv, RowUntilPublished, AnsweredIsQueued, Onward, requestVars
<1>6. \A s \in Servers : HandlerFine(s)' /\ WorkerFine(s)'
  BY <1>1, <1>3, HandlerKept, WorkerKept DEF IInv, requestVars
<1>7. \A i \in Rows : AttemptsCounted(i)'
  BY <1>1, <1>3, CountingStill
<1> QED BY <1>3, <1>4, <1>5, <1>6, <1>7 DEF IInv

(* A process that dies leaves its worker counting nothing and its handler   *)
(* answering nobody.                                                        *)
LEMMA CrashKeeps ==
  ASSUME IInv, NEW s \in Servers, Crash(s)
  PROVE  IInv'
<1>1. /\ TypeOK /\ crashes < MaxCrashes /\ crashes' = crashes + 1
      /\ boot' = [boot EXCEPT ![s] = [at |-> "down", pending |-> {}]]
      /\ handler' = [handler EXCEPT ![s] = Idle]
      /\ worker' = [worker EXCEPT ![s] = NoJob]
      /\ UNCHANGED <<log, outbox, attempts, jobs, published, answer, faults>>
  BY DEF IInv, Crash
<1>2. Onward /\ Committed' = Committed
  BY <1>1, QueueStill, CommittedStill DEF TypeOK
<1>3. Idle \in Handler /\ NoJob \in Worker /\ NoJob.at = "idle"
  BY DEF Idle, Handler, NoJob, Worker
<1>4. /\ handler'[s] = Idle /\ worker'[s] = NoJob
      /\ \A t \in Servers \ {s} : handler'[t] = handler[t] /\ worker'[t] = worker[t]
  BY <1>1 DEF TypeOK
<1>5. TypeOK'
  <2>1. handler' \in [Servers -> Handler] /\ worker' \in [Servers -> Worker]
    BY <1>1, <1>3 DEF TypeOK, Handler, Worker
  <2>2. crashes' \in 0..MaxCrashes
    BY <1>1, MaxCrashesAssumption DEF TypeOK
  <2>3. boot' \in [Servers -> [at : {"up", "down", "start"}, pending : SUBSET Rows]]
    BY <1>1 DEF TypeOK
  <2> QED BY <1>1, <1>2, <2>1, <2>2, <2>3 DEF TypeOK, Onward, Handler, Worker
<1>6. RowUntilPublished' /\ AnsweredIsQueued'
  BY <1>1, <1>2 DEF IInv, RowUntilPublished, AnsweredIsQueued
<1>7. \A t \in Servers : HandlerFine(t)'
  BY <1>2, <1>4, HandlerKept
<1>8. \A t \in Servers : WorkerFine(t)'
  <2>1. WorkerFine(s)'
    BY <1>3, <1>4 DEF WorkerFine
  <2> QED BY <1>1, <1>2, <1>4, <2>1, WorkerKept DEF IInv
<1>9. \A j \in Rows : AttemptsCounted(j)'
  BY <1>1, <1>2, <1>3, <1>4, CountingShrinks DEF Counting, CountedAt
<1> QED BY <1>2, <1>5, <1>6, <1>7, <1>8, <1>9 DEF IInv

LEMMA StartKeeps ==
  ASSUME IInv, NEW s \in Servers, Start(s)
  PROVE  IInv'
<1>1. /\ TypeOK /\ outbox \subseteq Rows
      /\ UNCHANGED <<log, outbox, attempts, published, worker, requestVars, crashes, faults>>
  BY CommittedRows DEF IInv, Start, GetPendingRows, AddPendingJobs, deliveryVars
<1>2. /\ Onward
      /\ boot' \in [Servers -> [at : {"up", "down", "start"}, pending : SUBSET Rows]]
  <2>1. CASE GetPendingRows(s)
    <3>1. jobs' = jobs
      BY <2>1 DEF GetPendingRows, deliveryVars
    <3> DEFINE rows == {j \in outbox : attempts[j] < MaxAttempts}
    <3>2. rows \in SUBSET Rows
      BY <1>1
    <3>3. boot' = [boot EXCEPT ![s] = [at |-> "start", pending |-> rows]]
      BY <2>1 DEF GetPendingRows
    <3> HIDE DEF rows
    <3> QED BY <1>1, <3>1, <3>2, <3>3, QueueStill DEF TypeOK
  <2>2. CASE AddPendingJobs(s)
    BY <1>1, <2>2, AddOnward DEF TypeOK, AddPendingJobs, Up
  <2> QED BY <2>1, <2>2 DEF Start
<1>3. Committed' = Committed
  BY <1>1, CommittedStill
<1>4. TypeOK'
  BY <1>1, <1>2, <1>3 DEF TypeOK, Onward, requestVars
<1>5. RowUntilPublished' /\ AnsweredIsQueued'
  BY <1>1, <1>2, <1>3 DEF IInv, RowUntilPublished, AnsweredIsQueued, Onward, requestVars
<1>6. \A t \in Servers : HandlerFine(t)' /\ WorkerFine(t)'
  BY <1>1, <1>2, <1>3, HandlerKept, WorkerKept DEF IInv, requestVars
<1>7. \A j \in Rows : AttemptsCounted(j)'
  BY <1>1, <1>2, CountingStill
<1> QED BY <1>3, <1>4, <1>5, <1>6, <1>7 DEF IInv

-----------------------------------------------------------------------------

LEMMA InitIInv == Init => IInv
<1> SUFFICES ASSUME Init PROVE IInv
  OBVIOUS
<1>1. Committed = {}
  BY DEF Init, Log!Init, Committed
<1>2. TypeOK
  BY <1>1, MaxStallsAssumption, MaxCrashesAssumption, MaxFaultsAssumption
  DEF Init, TypeOK, Log!Init, Queue!Init, Queue!TypeOK, Queue!States, Idle, NoJob, Up
<1>3. \A j \in Rows : AttemptsCounted(j)
  <2> SUFFICES ASSUME NEW j \in Rows PROVE AttemptsCounted(j)
    OBVIOUS
  <2>1. Counting(j) = {}
    BY DEF Init, Counting, CountedAt, NoJob
  <2>2. attempts[j] = 0 /\ Takes(j) = 0
    BY DEF Init, Queue!Init, Takes
  <2>3. IsFiniteSet(Counting(j)) /\ Cardinality(Counting(j)) = 0
    BY <2>1, FS_EmptySet
  <2> QED BY <2>1, <2>2, <2>3 DEF AttemptsCounted
<1>4. \A s \in Servers : HandlerFine(s) /\ WorkerFine(s)
  BY DEF Init, HandlerFine, WorkerFine, Idle, NoJob
<1>5. RowUntilPublished /\ AnsweredIsQueued
  BY <1>1 DEF Init, RowUntilPublished, AnsweredIsQueued
<1> QED BY <1>1, <1>2, <1>3, <1>4, <1>5 DEF IInv

LEMMA StutterKeeps ==
  ASSUME IInv, UNCHANGED vars
  PROVE  IInv'
<1>1. /\ TypeOK
      /\ UNCHANGED <<log, outbox, attempts, jobs, published, worker, handler, answer,
                     boot, crashes, faults>>
  BY DEF IInv, vars, deliveryVars, requestVars, processVars
<1>2. Onward /\ Committed' = Committed
  BY <1>1, QueueStill, CommittedStill DEF TypeOK
<1>3. TypeOK'
  BY <1>1, <1>2 DEF TypeOK, Onward
<1>4. RowUntilPublished' /\ AnsweredIsQueued'
  BY <1>1, <1>2 DEF IInv, RowUntilPublished, AnsweredIsQueued
<1>5. \A s \in Servers : HandlerFine(s)' /\ WorkerFine(s)'
  BY <1>1, <1>2, HandlerKept, WorkerKept DEF IInv
<1>6. \A j \in Rows : AttemptsCounted(j)'
  BY <1>1, <1>2, CountingStill
<1> QED BY <1>2, <1>3, <1>4, <1>5, <1>6 DEF IInv

(* The invariant holds in every reachable state.                            *)
THEOREM Inductive == Spec => []IInv
<1>1. Init => IInv
  BY InitIInv
<1>2. IInv /\ [Next]_vars => IInv'
  <2> SUFFICES ASSUME IInv, [Next]_vars PROVE IInv'
    OBVIOUS
  <2>1. ASSUME NEW s \in Servers, Work(s)
        PROVE  IInv'
    BY <2>1, TakeJobKeeps, ReadRowKeeps, PublishKeeps, DeleteRowKeeps, UpdateAttemptsKeeps,
       RequeueKeeps, ReturnJobKeeps DEF Work
  <2>2. ASSUME NEW s \in Servers, Handle(s) \/ EnqueueError(s)
        PROVE  IInv'
    BY <2>2, EnqueueDeliveryKeeps, PublishDirectlyKeeps, AnswerKeeps DEF Handle
  <2> QED BY <2>1, <2>2, CommitEditKeeps, ErrorKeeps, CrashKeeps, StartKeeps, StallKeeps,
             StutterKeeps DEF Next
<1> QED BY <1>1, <1>2, PTL DEF Spec

(* Every variable keeps its type.                                           *)
THEOREM TypeCorrect == Spec => []TypeOK
<1>1. IInv => TypeOK
  BY DEF IInv
<1> QED BY <1>1, Inductive, PTL

(* outbox.processor.ts deletes a row only after the update is out, or with  *)
(* its attempts used up: whatever two workers at one job, a crash or a      *)
(* restart do, no other row of a committed edit goes.                       *)
THEOREM NoRowDropped == Spec => []RowUntilPublished
<1>1. IInv => RowUntilPublished
  BY DEF IInv
<1> QED BY <1>1, Inductive, PTL

(* An author is told "ok" only for committed operations with delivery jobs. *)
THEOREM OkIsQueued == Spec => []AnsweredIsQueued
<1>1. IInv => AnsweredIsQueued
  BY DEF IInv
<1> QED BY <1>1, Inductive, PTL

=============================================================================
