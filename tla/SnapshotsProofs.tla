-------------------------- MODULE SnapshotsProofs --------------------------
(***************************************************************************)
(* Proofs about Snapshots, for any number of documents, workers, readers   *)
(* and closing connections and any threshold.  A snapshot is exact when it *)
(* is read and stays so because edits only appear above its mark; a worker *)
(* that still holds its job's lock is alone on its document.               *)
(***************************************************************************)
EXTENDS Snapshots, TLAPS

(* Numbers of a set of operations.                                          *)
LEMMA SequencesType ==
  ASSUME TypeOK, NEW d \in Docs, NEW after \in Nat
  PROVE  /\ Sequences(log[d]) \subseteq Nat
         /\ Sequences(OperationsSince(d, after)) = {s \in Sequences(log[d]) : s > after}
         /\ OperationsSince(d, after) = {} <=> Sequences(OperationsSince(d, after)) = {}
<1>1. log[d] \subseteq Log!Ops
  BY DEF TypeOK
<1>2. \A op \in log[d] : op.seq \in Nat
  BY <1>1 DEF Log!Ops
<1> QED BY <1>2 DEF Sequences, OperationsSince

(* The queue's operations keep the type of its jobs, and Add and Finish the *)
(* stall counts.                                                            *)
LEMMA AddType ==
  ASSUME Queue!TypeOK(Workers), NEW ids, Queue!Add(ids)
  PROVE  /\ Queue!TypeOK(Workers)'
         /\ \A d \in Docs : jobs'[d].stalls = jobs[d].stalls
         /\ \A d \in Docs : jobs[d].state # "absent" => jobs'[d] = jobs[d]
  BY DEF Queue!TypeOK, Queue!Add, Queue!States

LEMMA TakeType ==
  ASSUME Queue!TypeOK(Workers), NEW d \in Docs, NEW k \in Workers, Queue!Take(d, k)
  PROVE  /\ Queue!TypeOK(Workers)'
         /\ jobs[d].state = "waiting"
         /\ jobs'[d].state = "active" /\ jobs'[d].owner = k
         /\ jobs'[d].stalls = jobs[d].stalls
         /\ \A e \in Docs \ {d} : jobs'[e] = jobs[e]
  BY DEF Queue!TypeOK, Queue!Take, Queue!States

LEMMA FinishType ==
  ASSUME Queue!TypeOK(Workers), NEW d \in Docs, NEW k \in Workers,
         Queue!Finish(d, k, "completed")
  PROVE  /\ Queue!TypeOK(Workers)'
         /\ \A e \in Docs : jobs'[e].stalls = jobs[e].stalls
         /\ \A e \in Docs \ {d} : jobs'[e] = jobs[e]
         /\ jobs[d].owner # k => jobs'[d] = jobs[d]
  BY DEF Queue!TypeOK, Queue!Finish, Queue!States

LEMMA StallType ==
  ASSUME Queue!TypeOK(Workers), NEW d \in Docs, Queue!Stall(d)
  PROVE  /\ Queue!TypeOK(Workers)'
         /\ jobs'[d].stalls # 0
         /\ \A e \in Docs \ {d} : jobs'[e] = jobs[e]
<1> USE DEF Queue!TypeOK, Queue!Stall
<1>1. \A e \in Docs \ {d} : jobs'[e] = jobs[e]
  OBVIOUS
<1>2. CASE jobs[d].stalls < MaxStalls
  <2>1. jobs'[d] = [state |-> "waiting", owner |-> NoWorker, stalls |-> jobs[d].stalls + 1]
    BY <1>2
  <2>2. jobs[d].stalls + 1 \in 0..MaxStalls /\ jobs[d].stalls + 1 # 0
    BY <1>2, MaxStallsAssumption
  <2> QED BY <1>1, <2>1, <2>2 DEF Queue!States
<1>3. CASE ~(jobs[d].stalls < MaxStalls)
  <2>1. jobs'[d] = [jobs[d] EXCEPT !.state = "failed", !.owner = NoWorker]
    BY <1>3
  <2>2. jobs[d].stalls # 0
    BY <1>3, MaxStallsAssumption
  <2> QED BY <1>1, <2>1, <2>2 DEF Queue!States
<1> QED BY <1>2, <1>3

(* What a commit does to the numbers of its document.                       *)
LEMMA CommitNumbers ==
  ASSUME TypeOK, CommitEdit
  PROVE  \E d \in Docs, s \in Nat \ {0} :
           /\ log' = [log EXCEPT ![d] = @ \cup {[seq |-> s, clock |-> s]}]
           /\ outbox' = outbox \cup {s}
           /\ \A t \in Sequences(log[d]) : t < s
           /\ Sequences(log'[d]) = Sequences(log[d]) \cup {s}
           /\ \A e \in Docs \ {d} : log'[e] = log[e]
<1>1. PICK d \in Docs, s \in 1..MaxSequence : Log!Commit(d, {[seq |-> s, clock |-> s]})
  BY DEF CommitEdit
<1> DEFINE new == [seq |-> s, clock |-> s]
<1>2. /\ log' = [log EXCEPT ![d] = @ \cup {new}]
      /\ outbox' = outbox \cup {n.seq : n \in {new}}
      /\ \A n \in {new}, old \in log[d] : old.seq < n.seq /\ old.clock < n.clock
  BY <1>1 DEF Log!Commit
<1>3. new.seq = s /\ s \in Nat \ {0}
  BY MaxSequenceAssumption
<1>4. log'[d] = log[d] \cup {new} /\ \A e \in Docs \ {d} : log'[e] = log[e]
  BY <1>2 DEF TypeOK
<1>5. {n.seq : n \in {new}} = {s}
  BY <1>3
<1>6. \A t \in Sequences(log[d]) : t < s
  BY <1>2, <1>3 DEF Sequences
<1>7. Sequences(log'[d]) = Sequences(log[d]) \cup {s}
  BY <1>3, <1>4 DEF Sequences
<1> QED BY <1>2, <1>3, <1>4, <1>5, <1>6, <1>7

-----------------------------------------------------------------------------

LEMMA InitTypeOK == Init => TypeOK
<1> SUFFICES ASSUME Init PROVE TypeOK
  OBVIOUS
<1>1. NoSnapshot \in Snapshot
  BY DEF NoSnapshot, Snapshot
<1>2. PICK d \in Docs : /\ worker = [k \in Workers |-> NoJob(d)]
                        /\ reader = [r \in Readers |-> NoLoad(d)]
                        /\ closer = [c \in Closers |-> NoClose(d)]
  BY DEF Init
<1>3. NoJob(d) \in WorkerState /\ NoLoad(d) \in ReaderState /\ NoClose(d) \in CloserState
  BY <1>1 DEF NoJob, NoLoad, NoClose, WorkerState, ReaderState, CloserState
<1>4. Queue!TypeOK(Workers)
  BY MaxStallsAssumption DEF Init, Queue!Init, Queue!TypeOK, Queue!States
<1>5. loaded \in [Readers -> [doc : Docs, content : SUBSET Nat]]
  BY <1>2 DEF Init, NoLoad
<1> QED BY <1>1, <1>2, <1>3, <1>4, <1>5 DEF Init, TypeOK, Log!Init

(* A step that only moves worker k to v keeps every type.                   *)
LEMMA WorkerType ==
  ASSUME TypeOK, NEW k \in Workers, NEW v \in WorkerState,
         worker' = [worker EXCEPT ![k] = v],
         latest' \in [Docs -> Snapshot], Queue!TypeOK(Workers)',
         UNCHANGED <<log, outbox, reader, loaded, closer, locked>>
  PROVE  TypeOK'
  BY DEF TypeOK

LEMMA JobsUnchanged ==
  ASSUME Queue!TypeOK(Workers), jobs' = jobs
  PROVE  Queue!TypeOK(Workers)'
  BY DEF Queue!TypeOK

LEMMA NextTypeOK == TypeOK /\ [Next]_vars => TypeOK'
<1> SUFFICES ASSUME TypeOK, [Next]_vars PROVE TypeOK'
  OBVIOUS
<1>1. CASE UNCHANGED vars
  BY <1>1, JobsUnchanged DEF vars, snapVars, TypeOK
<1>2. CASE CommitEdit
  <2>1. log' \in [Docs -> SUBSET Log!Ops] /\ outbox' \subseteq Nat
    <3>1. PICK d \in Docs, s \in Nat \ {0} :
             /\ log' = [log EXCEPT ![d] = @ \cup {[seq |-> s, clock |-> s]}]
             /\ outbox' = outbox \cup {s}
      BY <1>2, CommitNumbers
    <3>2. [seq |-> s, clock |-> s] \in Log!Ops
      BY DEF Log!Ops
    <3> QED BY <3>1, <3>2 DEF TypeOK
  <2> QED BY <1>2, <2>1, JobsUnchanged DEF CommitEdit, snapVars, TypeOK
<1>3. ASSUME NEW added, Sweep(added) PROVE TypeOK'
  BY <1>3, AddType DEF Sweep, TypeOK
<1>4. ASSUME NEW k \in Workers, NEW d \in Docs, TakeJob(k, d) PROVE TypeOK'
  <2>1. [NoJob(d) EXCEPT !.at = "snapshot"] \in WorkerState
    BY DEF NoJob, NoSnapshot, Snapshot, WorkerState
  <2> QED BY <1>4, <2>1, TakeType, WorkerType DEF TakeJob, TypeOK
<1>5. ASSUME NEW k \in Workers, ReadSnapshot(k) PROVE TypeOK'
  <2> DEFINE v == [worker[k] EXCEPT !.at = "operations", !.snap = latest[worker[k].doc]]
  <2>1. v \in WorkerState
    BY DEF TypeOK, WorkerState
  <2>2. worker' = [worker EXCEPT ![k] = v]
    BY <1>5 DEF ReadSnapshot, TypeOK, WorkerState
  <2> QED BY <1>5, <2>1, <2>2, WorkerType, JobsUnchanged DEF ReadSnapshot, TypeOK
<1>6. ASSUME NEW k \in Workers, ReadOperations(k) PROVE TypeOK'
  <2> DEFINE delta == OperationsSince(worker[k].doc, worker[k].snap.seq)
             at == IF delta = {} THEN "return" ELSE "create"
             v == [worker[k] EXCEPT !.delta = Sequences(delta), !.at = at]
  <2>1. Sequences(delta) \subseteq Nat
    BY SequencesType DEF TypeOK, WorkerState, Snapshot
  <2>2. at \in {"create", "return"}
    OBVIOUS
  <2>3. worker' = [worker EXCEPT ![k] = v]
    <3> HIDE DEF delta, at
    <3>1. worker' = [worker EXCEPT ![k].delta = Sequences(delta), ![k].at = at]
      BY <1>6 DEF ReadOperations, delta, at
    <3> QED BY <3>1 DEF TypeOK, WorkerState
  <2> HIDE DEF delta, at
  <2>4. v \in WorkerState
    BY <2>1, <2>2 DEF TypeOK, WorkerState
  <2> QED BY <1>6, <2>3, <2>4, WorkerType, JobsUnchanged DEF ReadOperations, TypeOK
<1>7. ASSUME NEW k \in Workers, CreateSnapshot(k) PROVE TypeOK'
  <2>1. latest' \in [Docs -> Snapshot]
    BY <1>7 DEF CreateSnapshot, TypeOK, WorkerState, Snapshot
  <2>2. [worker[k] EXCEPT !.at = "return"] \in WorkerState
    BY DEF TypeOK, WorkerState
  <2>3. worker' = [worker EXCEPT ![k] = [worker[k] EXCEPT !.at = "return"]]
    BY <1>7 DEF CreateSnapshot
  <2> QED BY <1>7, <2>1, <2>2, <2>3, WorkerType, JobsUnchanged DEF CreateSnapshot, TypeOK
<1>8. ASSUME NEW k \in Workers, JobError(k) PROVE TypeOK'
  <2>1. [worker[k] EXCEPT !.at = "return"] \in WorkerState
    BY DEF TypeOK, WorkerState
  <2>2. worker' = [worker EXCEPT ![k] = [worker[k] EXCEPT !.at = "return"]]
    BY <1>8 DEF JobError
  <2> QED BY <1>8, <2>1, <2>2, WorkerType, JobsUnchanged DEF JobError, TypeOK
<1>9. ASSUME NEW k \in Workers, ReturnJob(k) \/ CrashWorker(k) PROVE TypeOK'
  <2>1. worker[k].doc \in Docs
    BY DEF TypeOK, WorkerState
  <2>2. NoJob(worker[k].doc) \in WorkerState
    BY <2>1 DEF NoJob, NoSnapshot, Snapshot, WorkerState
  <2>3. Queue!TypeOK(Workers)'
    BY <1>9, <2>1, FinishType, JobsUnchanged DEF ReturnJob, CrashWorker, TypeOK
  <2> QED BY <1>9, <2>2, <2>3, WorkerType DEF ReturnJob, CrashWorker, TypeOK
<1>10. ASSUME NEW d \in Docs, StallJob(d) PROVE TypeOK'
  BY <1>10, StallType DEF StallJob, TypeOK
<1>11. ASSUME NEW d \in Docs, ExpireLock(d) PROVE TypeOK'
  BY <1>11, JobsUnchanged DEF ExpireLock, TypeOK
<1>12. ASSUME NEW r \in Readers, NEW d \in Docs, LoadSnapshot(r, d) PROVE TypeOK'
  BY <1>12, JobsUnchanged DEF LoadSnapshot, TypeOK, ReaderState
<1>13. ASSUME NEW r \in Readers, LoadOperations(r) PROVE TypeOK'
  <2>1. Sequences(OperationsSince(reader[r].doc, reader[r].snap.seq)) \subseteq Nat
    BY SequencesType DEF TypeOK, ReaderState, Snapshot
  <2>2. NoLoad(reader[r].doc) \in ReaderState
    BY DEF TypeOK, NoLoad, NoSnapshot, ReaderState, Snapshot
  <2>3. loaded' \in [Readers -> [doc : Docs, content : SUBSET Nat]]
    BY <1>13, <2>1 DEF LoadOperations, TypeOK, ReaderState, Snapshot
  <2> QED BY <1>13, <2>2, <2>3, JobsUnchanged DEF LoadOperations, TypeOK
<1>14. ASSUME NEW c \in Closers, NEW d \in Docs, CloseReadSnapshot(c, d) PROVE TypeOK'
  BY <1>14, JobsUnchanged DEF CloseReadSnapshot, TypeOK, CloserState, Snapshot
<1>15. ASSUME NEW c \in Closers, CloseCount(c) PROVE TypeOK'
  <2>1. locked' \subseteq Docs
    BY <1>15 DEF CloseCount, TypeOK, CloserState
  <2>2. closer' \in [Closers -> CloserState]
    BY <1>15 DEF CloseCount, NoClose, TypeOK, CloserState
  <2> QED BY <1>15, <2>1, <2>2, JobsUnchanged DEF CloseCount, TypeOK
<1>16. ASSUME NEW c \in Closers, CloseAddJob(c) PROVE TypeOK'
  <2>1. closer' \in [Closers -> CloserState]
    BY <1>16 DEF CloseAddJob, NoClose, TypeOK, CloserState
  <2> QED BY <1>16, <2>1, AddType DEF CloseAddJob, TypeOK
<1>17. ASSUME NEW c \in Closers, CloseError(c) PROVE TypeOK'
  <2>1. closer' \in [Closers -> CloserState]
    BY <1>17 DEF CloseError, NoClose, TypeOK, CloserState
  <2> QED BY <1>17, <2>1, JobsUnchanged DEF CloseError, TypeOK
<1> QED BY <1>1, <1>2, <1>3, <1>4, <1>5, <1>6, <1>7, <1>8, <1>9, <1>10, <1>11, <1>12,
           <1>13, <1>14, <1>15, <1>16, <1>17 DEF Next, Work

-----------------------------------------------------------------------------

(* A snapshot stays exact when a number above all others is added.          *)
LEMMA ExactGrows ==
  ASSUME NEW snap \in Snapshot, NEW seqs \in SUBSET Nat, NEW s \in Nat \ {0},
         \A t \in seqs : t < s, Exact(snap, seqs)
  PROVE  Exact(snap, seqs \cup {s})
  BY DEF Exact, NoSnapshot, Snapshot

(* A snapshot and all that follows it up to h make an exact snapshot.       *)
LEMMA ExactExtended ==
  ASSUME NEW snap \in Snapshot, NEW seqs \in SUBSET Nat, NEW delta \in SUBSET Nat,
         NEW h \in delta, Exact(snap, seqs),
         delta = {s \in seqs : snap.seq < s /\ s <= h}
  PROVE  Exact([seq |-> h, content |-> snap.content \cup delta], seqs)
<1> DEFINE next == [seq |-> h, content |-> snap.content \cup delta]
<1>1. next.seq = h /\ next.content = snap.content \cup delta
  OBVIOUS
<1>2. h \in Nat /\ snap.seq \in Nat /\ snap.seq < h
  BY DEF Snapshot
<1>3. snap.content = {s \in seqs : s <= snap.seq}
  BY DEF Exact
<1>4. \A s \in seqs : s <= h <=> s \in snap.content \cup delta
  BY <1>2, <1>3
<1>5. next.content = {s \in seqs : s <= next.seq}
  BY <1>1, <1>3, <1>4
<1> QED BY <1>1, <1>5 DEF Exact

LEMMA NoSnapshotExact ==
  ASSUME NEW seqs \in SUBSET Nat, 0 \notin seqs
  PROVE  Exact(NoSnapshot, seqs)
<1>1. \A s \in seqs : ~(s <= 0)
  OBVIOUS
<1> QED BY <1>1 DEF Exact, NoSnapshot

(* Types as the steps below need them.                                      *)
LEMMA Types ==
  ASSUME TypeOK
  PROVE  /\ \A d \in Docs : latest[d] \in Snapshot /\ Sequences(log[d]) \in SUBSET Nat
         /\ \A k \in Workers : /\ worker[k].doc \in Docs
                                /\ worker[k].snap \in Snapshot
                                /\ worker[k].delta \in SUBSET Nat
         /\ \A r \in Readers : reader[r].doc \in Docs /\ reader[r].snap \in Snapshot
  BY DEF TypeOK, Sequences, Log!Ops, WorkerState, ReaderState

(* A step that changes none of these variables keeps the invariant.         *)
LEMMA FrameIInv ==
  ASSUME IInv, TypeOK', UNCHANGED <<log, latest, jobs, worker, reader>>
  PROVE  IInv'
  BY DEF IInv, SnapshotsExact, DeltaComplete, JobHeld, PointerHeld, Numbered

LEMMA CommitEditIInv ==
  ASSUME IInv, TypeOK', CommitEdit
  PROVE  IInv'
<1>1. PICK d \in Docs, s \in Nat \ {0} :
         /\ \A t \in Sequences(log[d]) : t < s
         /\ Sequences(log'[d]) = Sequences(log[d]) \cup {s}
         /\ \A e \in Docs \ {d} : log'[e] = log[e]
  BY CommitNumbers DEF IInv
<1>2. UNCHANGED <<latest, jobs, worker, reader>>
  BY DEF CommitEdit, snapVars
<1>3. \A e \in Docs : Sequences(log'[e]) = Sequences(log[e]) \/ e = d
  BY <1>1
<1>4. \A snap \in Snapshot, e \in Docs :
        Exact(snap, Sequences(log[e])) => Exact(snap, Sequences(log'[e]))
  BY <1>1, <1>3, ExactGrows, Types DEF IInv
<1>5. SnapshotsExact'
  BY <1>2, <1>4, Types DEF IInv, SnapshotsExact
<1>6. DeltaComplete'
  BY <1>1, <1>2, <1>3, Types DEF IInv, DeltaComplete
<1>7. JobHeld' /\ PointerHeld'
  BY <1>2 DEF IInv, JobHeld, PointerHeld
<1>8. Numbered'
  BY <1>1, <1>3 DEF IInv, Numbered
<1> QED BY <1>5, <1>6, <1>7, <1>8 DEF IInv

(* queue.add touches no job that runs.                                      *)
LEMMA AddIInv ==
  ASSUME IInv, TypeOK', NEW ids, Queue!Add(ids), UNCHANGED <<log, latest, worker, reader>>
  PROVE  IInv'
<1>1. /\ \A d \in Docs : jobs'[d].stalls = jobs[d].stalls
      /\ \A d \in Docs : jobs[d].state # "absent" => jobs'[d] = jobs[d]
  BY AddType DEF IInv, TypeOK
<1>2. JobHeld'
  BY <1>1, Types DEF IInv, JobHeld
<1>3. PointerHeld'
  BY <1>1, Types DEF IInv, PointerHeld
<1> QED BY <1>2, <1>3 DEF IInv, SnapshotsExact, DeltaComplete, Numbered

(* A stalled job obliges nobody any more.                                   *)
LEMMA StallJobIInv ==
  ASSUME IInv, TypeOK', NEW d \in Docs, StallJob(d)
  PROVE  IInv'
<1>1. /\ jobs'[d].stalls # 0
      /\ \A e \in Docs \ {d} : jobs'[e] = jobs[e]
  BY StallType DEF IInv, TypeOK, StallJob
<1>2. JobHeld' /\ PointerHeld'
  BY <1>1, Types DEF IInv, JobHeld, PointerHeld, StallJob
<1> QED BY <1>2 DEF IInv, SnapshotsExact, DeltaComplete, Numbered, StallJob

LEMMA LoadIInv ==
  ASSUME IInv, TypeOK', NEW r \in Readers,
         LoadOperations(r) \/ \E d \in Docs : LoadSnapshot(r, d)
  PROVE  IInv'
<1>1. UNCHANGED <<log, latest, jobs, worker>>
  BY DEF LoadOperations, LoadSnapshot
<1>2. /\ \A e \in Readers \ {r} : reader'[e] = reader[e]
      /\ reader'[r].doc \in Docs
      /\ reader'[r].snap \in {NoSnapshot, latest[reader'[r].doc]}
  BY Types DEF LoadOperations, LoadSnapshot, NoLoad, IInv, TypeOK
<1>3. Exact(reader'[r].snap, Sequences(log[reader'[r].doc]))
  BY <1>2, NoSnapshotExact, Types DEF IInv, SnapshotsExact, Numbered
<1>4. SnapshotsExact'
  BY <1>1, <1>2, <1>3 DEF IInv, SnapshotsExact
<1> QED BY <1>1, <1>4 DEF IInv, DeltaComplete, JobHeld, PointerHeld, Numbered

-----------------------------------------------------------------------------

LEMMA TakeJobIInv ==
  ASSUME IInv, TypeOK', NEW k \in Workers, NEW d \in Docs, TakeJob(k, d)
  PROVE  IInv'
<1>1. /\ jobs[d].state = "waiting"
      /\ jobs'[d].state = "active" /\ jobs'[d].owner = k
      /\ jobs'[d].stalls = jobs[d].stalls
      /\ \A e \in Docs \ {d} : jobs'[e] = jobs[e]
  BY TakeType DEF IInv, TypeOK, TakeJob
<1>2. /\ \A j \in Workers \ {k} : worker'[j] = worker[j]
      /\ worker'[k].at = "snapshot" /\ worker'[k].doc = d /\ worker'[k].snap = NoSnapshot
  BY DEF TakeJob, NoJob, IInv, TypeOK
<1>3. UNCHANGED <<log, latest, reader>>
  BY DEF TakeJob
<1>4. SnapshotsExact'
  BY <1>2, <1>3, NoSnapshotExact, Types DEF IInv, SnapshotsExact, Numbered
<1>5. DeltaComplete'
  BY <1>2, <1>3 DEF IInv, DeltaComplete
<1>6. JobHeld'
  BY <1>1, <1>2, Types DEF IInv, JobHeld
<1>7. PointerHeld'
  BY <1>1, <1>2, <1>3, Types DEF IInv, PointerHeld
<1>8. Numbered'
  BY <1>3 DEF IInv, Numbered
<1> QED BY <1>4, <1>5, <1>6, <1>7, <1>8 DEF IInv

LEMMA ReadSnapshotIInv ==
  ASSUME IInv, TypeOK', NEW k \in Workers, ReadSnapshot(k)
  PROVE  IInv'
<1>1. /\ \A j \in Workers \ {k} : worker'[j] = worker[j]
      /\ worker[k].at = "snapshot" /\ worker'[k].at = "operations"
      /\ worker'[k].doc = worker[k].doc
      /\ worker'[k].snap = latest[worker[k].doc]
  BY DEF ReadSnapshot, IInv, TypeOK, WorkerState
<1>2. UNCHANGED <<log, latest, jobs, reader>>
  BY DEF ReadSnapshot
<1>3. SnapshotsExact'
  BY <1>1, <1>2, Types DEF IInv, SnapshotsExact
<1>4. DeltaComplete'
  BY <1>1, <1>2 DEF IInv, DeltaComplete
<1>5. JobHeld' /\ PointerHeld'
  BY <1>1, <1>2 DEF IInv, JobHeld, PointerHeld
<1> QED BY <1>2, <1>3, <1>4, <1>5 DEF IInv, Numbered

LEMMA ReadOperationsIInv ==
  ASSUME IInv, TypeOK', NEW k \in Workers, ReadOperations(k)
  PROVE  IInv'
<1> DEFINE d == worker[k].doc
           after == worker[k].snap.seq
           ops == OperationsSince(d, after)
           at == IF ops = {} THEN "return" ELSE "create"
           numbers == Sequences(ops)
<1>1. /\ \A j \in Workers \ {k} : worker'[j] = worker[j]
      /\ worker[k].at = "operations" /\ worker'[k].at = at
      /\ worker'[k].doc = d /\ worker'[k].snap = worker[k].snap
      /\ worker'[k].delta = numbers
  <2>1. /\ worker[k].at = "operations"
        /\ worker' = [worker EXCEPT ![k].delta = numbers, ![k].at = at]
    BY DEF ReadOperations
  <2> HIDE DEF at, numbers
  <2> QED BY <2>1 DEF IInv, TypeOK, WorkerState
<1>2. UNCHANGED <<log, latest, jobs, reader>>
  BY DEF ReadOperations
<1> HIDE DEF at
<1>3. SnapshotsExact'
  BY <1>1, <1>2 DEF IInv, SnapshotsExact
<1>4. DeltaComplete'
  <2>1. /\ d \in Docs /\ after \in Nat
        /\ Sequences(log[d]) \subseteq Nat
    BY Types DEF IInv, Snapshot
  <2>2. numbers = {s \in Sequences(log[d]) : s > after}
    BY <2>1, SequencesType DEF IInv
  <2> HIDE DEF at, numbers
  <2> QED BY <1>1, <1>2, <2>1, <2>2 DEF IInv, DeltaComplete
<1>5. JobHeld' /\ PointerHeld'
  BY <1>1, <1>2 DEF IInv, JobHeld, PointerHeld
<1> QED BY <1>2, <1>3, <1>4, <1>5 DEF IInv, Numbered

(* While a job has not stalled, one worker at most is at its document.      *)
LEMMA AloneOnDocument ==
  ASSUME IInv, NEW j \in Workers, NEW k \in Workers, j # k,
         worker[j].at # "idle", worker[k].at # "idle", worker[j].doc = worker[k].doc
  PROVE  jobs[worker[k].doc].stalls # 0
  BY DEF IInv, JobHeld

LEMMA CreateSnapshotIInv ==
  ASSUME IInv, TypeOK', NEW k \in Workers, CreateSnapshot(k)
  PROVE  IInv'
<1> DEFINE d == worker[k].doc
<1>1. PICK h \in worker[k].delta :
        /\ \A s \in worker[k].delta : s <= h
        /\ latest' = [latest EXCEPT ![d] =
                        [seq |-> h, content |-> worker[k].snap.content \cup worker[k].delta]]
  BY DEF CreateSnapshot
<1>2. /\ \A j \in Workers \ {k} : worker'[j] = worker[j]
      /\ worker[k].at = "create" /\ worker'[k].at = "return"
      /\ worker'[k].doc = d /\ worker'[k].snap = worker[k].snap
  BY DEF CreateSnapshot, IInv, TypeOK, WorkerState
<1>3. UNCHANGED <<log, jobs, reader>>
  BY DEF CreateSnapshot
<1>4. worker[k].delta = {s \in Sequences(log[d]) : worker[k].snap.seq < s /\ s <= h}
  BY <1>1, <1>2 DEF IInv, DeltaComplete
<1>5. /\ latest'[d] = [seq |-> h, content |-> worker[k].snap.content \cup worker[k].delta]
      /\ \A e \in Docs \ {d} : latest'[e] = latest[e]
  BY <1>1, Types DEF IInv, TypeOK
<1>6. Exact(latest'[d], Sequences(log[d]))
  BY <1>4, <1>5, ExactExtended, Types DEF IInv, SnapshotsExact
<1>7. SnapshotsExact'
  BY <1>2, <1>3, <1>5, <1>6 DEF IInv, SnapshotsExact
<1>8. DeltaComplete'
  BY <1>2, <1>3 DEF IInv, DeltaComplete
<1>9. JobHeld'
  BY <1>2, <1>3 DEF IInv, JobHeld
<1>10. PointerHeld'
  <2>1. SUFFICES ASSUME NEW j \in Workers \ {k}, worker[j].at \in {"operations", "create"},
                        jobs[worker[j].doc].stalls = 0
                 PROVE  latest'[worker[j].doc] = worker[j].snap
    BY <1>2, <1>3 DEF PointerHeld
  <2>2. worker[j].doc # d
    BY <1>2, <2>1, AloneOnDocument
  <2> QED BY <1>5, <2>1, <2>2, Types DEF IInv, PointerHeld
<1> QED BY <1>3, <1>7, <1>8, <1>9, <1>10 DEF IInv, Numbered

LEMMA JobErrorIInv ==
  ASSUME IInv, TypeOK', NEW k \in Workers, JobError(k)
  PROVE  IInv'
<1>1. /\ \A j \in Workers \ {k} : worker'[j] = worker[j]
      /\ worker[k].at # "idle" /\ worker'[k].at = "return"
      /\ worker'[k].doc = worker[k].doc /\ worker'[k].snap = worker[k].snap
  BY DEF JobError, IInv, TypeOK, WorkerState
<1>2. UNCHANGED <<log, latest, jobs, reader>>
  BY DEF JobError
<1> QED BY <1>1, <1>2 DEF IInv, SnapshotsExact, DeltaComplete, JobHeld, PointerHeld, Numbered

LEMMA EndJobIInv ==
  ASSUME IInv, TypeOK', NEW k \in Workers, ReturnJob(k) \/ CrashWorker(k)
  PROVE  IInv'
<1> DEFINE d == worker[k].doc
<1>1. /\ \A j \in Workers \ {k} : worker'[j] = worker[j]
      /\ worker[k].at # "idle" /\ worker'[k].at = "idle"
      /\ worker'[k].doc = d /\ worker'[k].snap = NoSnapshot
  BY DEF ReturnJob, CrashWorker, NoJob, IInv, TypeOK
<1>2. UNCHANGED <<log, latest, reader>>
  BY DEF ReturnJob, CrashWorker
<1>3. /\ \A e \in Docs : jobs'[e].stalls = jobs[e].stalls
      /\ \A e \in Docs \ {d} : jobs'[e] = jobs[e]
      /\ jobs[d].owner # k => jobs'[d] = jobs[d]
  BY FinishType, Types DEF ReturnJob, CrashWorker, IInv, TypeOK
<1>4. SnapshotsExact'
  BY <1>1, <1>2, NoSnapshotExact, Types DEF IInv, SnapshotsExact, Numbered
<1>5. DeltaComplete'
  BY <1>1, <1>2 DEF IInv, DeltaComplete
<1>6. JobHeld'
  BY <1>1, <1>3, AloneOnDocument, Types DEF IInv, JobHeld
<1>7. PointerHeld'
  BY <1>1, <1>2, <1>3, Types DEF IInv, PointerHeld
<1> QED BY <1>2, <1>4, <1>5, <1>6, <1>7 DEF IInv, Numbered

-----------------------------------------------------------------------------

LEMMA InitIInv == Init => IInv
<1> SUFFICES ASSUME Init PROVE IInv
  OBVIOUS
<1>1. TypeOK
  BY InitTypeOK
<1>2. \A d \in Docs : Sequences(log[d]) = {} /\ latest[d] = NoSnapshot
  BY DEF Init, Log!Init, Sequences
<1>3. /\ \A k \in Workers : worker[k].at = "idle" /\ worker[k].snap = NoSnapshot
      /\ \A r \in Readers : reader[r].snap = NoSnapshot
  BY DEF Init, NoJob, NoLoad
<1>4. SnapshotsExact
  BY <1>1, <1>2, <1>3, NoSnapshotExact, Types DEF SnapshotsExact
<1> QED BY <1>1, <1>2, <1>3, <1>4 DEF IInv, DeltaComplete, JobHeld, PointerHeld, Numbered

LEMMA NextIInv == IInv /\ [Next]_vars => IInv'
<1> SUFFICES ASSUME IInv, [Next]_vars PROVE IInv'
  OBVIOUS
<1>1. TypeOK'
  BY NextTypeOK DEF IInv
<1>2. CASE UNCHANGED vars
  BY <1>1, <1>2, FrameIInv DEF vars, snapVars
<1>3. CASE CommitEdit
  BY <1>1, <1>3, CommitEditIInv
<1>4. ASSUME NEW added \in SUBSET Docs, Sweep(added) PROVE IInv'
  BY <1>1, <1>4, AddIInv DEF Sweep
<1>5. ASSUME NEW k \in Workers, Work(k) \/ JobError(k) \/ CrashWorker(k) PROVE IInv'
  BY <1>1, <1>5, TakeJobIInv, ReadSnapshotIInv, ReadOperationsIInv, CreateSnapshotIInv,
     JobErrorIInv, EndJobIInv DEF Work
<1>6. ASSUME NEW d \in Docs, StallJob(d) \/ ExpireLock(d) PROVE IInv'
  BY <1>1, <1>6, StallJobIInv, FrameIInv DEF ExpireLock
<1>7. ASSUME NEW r \in Readers, LoadOperations(r) \/ \E d \in Docs : LoadSnapshot(r, d)
      PROVE  IInv'
  BY <1>1, <1>7, LoadIInv
<1>8. ASSUME NEW c \in Closers,
             \/ \E d \in Docs : CloseReadSnapshot(c, d)
             \/ CloseCount(c) \/ CloseError(c)
      PROVE  IInv'
  BY <1>1, <1>8, FrameIInv DEF CloseReadSnapshot, CloseCount, CloseError
<1>9. ASSUME NEW c \in Closers, CloseAddJob(c) PROVE IInv'
  BY <1>1, <1>9, AddIInv DEF CloseAddJob
<1> QED BY <1>2, <1>3, <1>4, <1>5, <1>6, <1>7, <1>8, <1>9 DEF Next

-----------------------------------------------------------------------------

(* The inductive invariant holds of every reachable state.                  *)
THEOREM Inductive == Spec => []IInv
<1> QED BY InitIInv, NextIInv, PTL DEF Spec

(* Every variable keeps its type.                                           *)
THEOREM TypeCorrect == Spec => []TypeOK
<1>1. IInv => TypeOK
  BY DEF IInv
<1> QED BY <1>1, Inductive, PTL

(* Snapshots in the database and in the hands of workers and readers stand  *)
(* for exactly the operations up to their marks.                            *)
THEOREM Exactness == Spec => []SnapshotsExact
<1>1. IInv => SnapshotsExact
  BY DEF IInv
<1> QED BY <1>1, Inductive, PTL

(* Two workers are never at one document unless its job has stalled.        *)
THEOREM OneWorker == Spec => []OneWorkerPerDocument
<1>1. IInv => OneWorkerPerDocument
  <2> SUFFICES ASSUME IInv, NEW j \in Workers, NEW k \in Workers, j # k,
                      worker[j].at # "idle", worker[k].at # "idle",
                      worker[j].doc = worker[k].doc
               PROVE  jobs[worker[k].doc].stalls > 0
    BY DEF OneWorkerPerDocument
  <2>1. jobs[worker[k].doc].stalls \in 0..MaxStalls
    BY Types DEF IInv, TypeOK, Queue!TypeOK
  <2> QED BY <2>1, AloneOnDocument
<1> QED BY <1>1, Inductive, PTL

(* A joining client or an AI request is given every operation committed     *)
(* when its second read ran, whatever snapshots and edits came between.     *)
THEOREM NothingSkipped == Spec => LoadsEverything
<1> DEFINE A == \A r \in Readers :
                  reader[r].at = "operations" /\ reader'[r].at = "idle" =>
                    loaded'[r].content = Sequences(log[reader[r].doc])
<1>1. IInv /\ [Next]_vars => [A]_vars
  <2> SUFFICES ASSUME IInv, Next, NEW r \in Readers,
                      reader[r].at = "operations", reader'[r].at = "idle"
               PROVE  loaded'[r].content = Sequences(log[reader[r].doc])
    OBVIOUS
  <2> DEFINE d == reader[r].doc
             snap == reader[r].snap
  <2>1. LoadOperations(r)
    <3>1. reader' # reader
      OBVIOUS
    <3>2. ASSUME NEW q \in Readers, LoadOperations(q) PROVE q = r
      BY <3>2 DEF LoadOperations, NoLoad, IInv, TypeOK
    <3>3. ASSUME NEW q \in Readers, NEW e \in Docs, LoadSnapshot(q, e) PROVE FALSE
      BY <3>3 DEF LoadSnapshot, IInv, TypeOK
    <3> QED BY <3>1, <3>2, <3>3 DEF Next, CommitEdit, snapVars, Sweep, Work, TakeJob,
        ReadSnapshot, ReadOperations, CreateSnapshot, ReturnJob, JobError, CrashWorker,
        StallJob, ExpireLock, CloseReadSnapshot, CloseCount, CloseAddJob, CloseError
  <2>2. loaded'[r].content = snap.content \cup Sequences(OperationsSince(d, snap.seq))
    BY <2>1 DEF LoadOperations, IInv, TypeOK
  <2>3. /\ d \in Docs /\ snap.seq \in Nat
        /\ Sequences(log[d]) \subseteq Nat
    BY Types DEF IInv, Snapshot
  <2>4. Sequences(OperationsSince(d, snap.seq)) = {s \in Sequences(log[d]) : s > snap.seq}
    BY <2>3, SequencesType DEF IInv
  <2>5. snap.content = {s \in Sequences(log[d]) : s <= snap.seq}
    BY DEF IInv, SnapshotsExact, Exact
  <2> HIDE DEF d, snap
  <2>6. snap.content \cup Sequences(OperationsSince(d, snap.seq)) = Sequences(log[d])
    BY <2>3, <2>4, <2>5
  <2> QED BY <2>2, <2>6 DEF d
<1> QED BY <1>1, Inductive, PTL DEF Spec, LoadsEverything

(* The pointer moves back only where a job was given to two workers.        *)
THEOREM PointerAdvances == Spec => NoRegress
<1> DEFINE A == \A d \in Docs : latest'[d].seq < latest[d].seq => jobs[d].stalls > 0
<1>1. IInv /\ [Next]_vars => [A]_vars
  <2> SUFFICES ASSUME IInv, Next, NEW d \in Docs, latest'[d].seq < latest[d].seq
               PROVE  jobs[d].stalls > 0
    OBVIOUS
  <2>1. latest[d].seq \in Nat /\ jobs[d].stalls \in Nat
    BY Types DEF IInv, TypeOK, Queue!TypeOK, Snapshot
  <2>2. latest' # latest
    BY <2>1
  <2>3. PICK k \in Workers : CreateSnapshot(k)
    BY <2>2 DEF Next, CommitEdit, snapVars, Sweep, Work, TakeJob, ReadSnapshot,
       ReadOperations, ReturnJob, JobError, CrashWorker, StallJob, ExpireLock,
       LoadSnapshot, LoadOperations, CloseReadSnapshot, CloseCount, CloseAddJob,
       CloseError
  <2>4. PICK h \in worker[k].delta :
          latest' = [latest EXCEPT ![worker[k].doc] =
                      [seq |-> h, content |-> worker[k].snap.content \cup worker[k].delta]]
    BY <2>3 DEF CreateSnapshot
  <2>5. worker[k].doc = d /\ latest'[d].seq = h
    BY <2>1, <2>4 DEF IInv, TypeOK
  <2>6. worker[k].snap.seq < h /\ worker[k].at = "create"
    BY <2>3 DEF CreateSnapshot, IInv, DeltaComplete
  <2>7. latest[d] # worker[k].snap
    BY <2>1, <2>5, <2>6, Types DEF IInv
  <2> QED BY <2>1, <2>5, <2>6, <2>7 DEF IInv, PointerHeld
<1> QED BY <1>1, Inductive, PTL DEF Spec, NoRegress

=============================================================================
