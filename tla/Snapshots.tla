----------------------------- MODULE Snapshots -----------------------------
(***************************************************************************)
(* Compaction of the operation log: the snapshot jobs that the sweep and   *)
(* closing connections enqueue, the workers that replay a document and     *)
(* move its latest snapshot, and the readers (handleJoin of the gateway,   *)
(* reconstructDocument of the AI service) that load a snapshot and the     *)
(* operations after it.  Every database call is a step of its own, so      *)
(* edits, other workers and readers run between any two of them.  Edits    *)
(* arrive as DocumentLog promises.                                         *)
(***************************************************************************)
EXTENDS Integers, FiniteSets

CONSTANTS
  Docs,         \* documents
  Workers,      \* queue workers, one per server process
  Readers,      \* concurrent joins and AI requests
  Closers,      \* concurrent handleDisconnect calls
  Threshold,    \* SNAPSHOT_THRESHOLD
  MaxSequence,  \* bound of the model: sequence numbers used
  CallsFail,    \* TRUE: database and Redis calls may fail, workers may die
  MaxStalls,    \* see JobQueue
  NoWorker

ASSUME ThresholdAssumption == Threshold \in Nat
ASSUME MaxSequenceAssumption == MaxSequence \in Nat
ASSUME MaxStallsAssumption == MaxStalls \in Nat \ {0}
ASSUME CallsFailAssumption == CallsFail \in BOOLEAN
ASSUME NoWorkerAssumption == NoWorker \notin Workers

VARIABLES
  log, outbox,  \* see DocumentLog
  latest,       \* latest[d]: the snapshot documents.latest_snapshot_id points to
  jobs,         \* the snapshot queue; the job id snapshot-<d> is written d
  worker,       \* worker[k]: progress of SnapshotProcessor.process on worker k
  reader,       \* reader[r]: progress of a load of a document
  loaded,       \* loaded[r]: what the last finished load of r was given
  closer,       \* closer[c]: progress of the bookkeeping of a disconnect
  locked        \* documents whose snapshot:lock key is set

snapVars == <<latest, jobs, worker, reader, loaded, closer, locked>>
vars == <<log, outbox, snapVars>>

Log == INSTANCE DocumentLog
Queue == INSTANCE JobQueue WITH JobIds <- Docs

Sequences(ops) == {op.seq : op \in ops}

(* Fault to be caught: the default of a missing snapshot is -1.             *)
NoSnapshotMinusOne == [seq |-> -1, content |-> {}]

(* A document without snapshot is read as one after sequence number 0.      *)
(* content is the set of operations that went into content_blob: updates of *)
(* a CRDT, of which a state is the set of those it has seen.                *)
NoSnapshot == [seq |-> 0, content |-> {}]
Snapshot == [seq : Nat, content : SUBSET Nat]

(* Fault to be caught: operations from the mark on are taken as read.       *)
OperationsAfterNext(d, after) == {op \in log[d] : op.seq > after + 1}

(* getOperationsSinceSequence.                                              *)
OperationsSince(d, after) == {op \in log[d] : op.seq > after}

NoLoad(d) == [at |-> "idle", doc |-> d, snap |-> NoSnapshot]
NoJob(d) == [at |-> "idle", doc |-> d, snap |-> NoSnapshot, delta |-> {}]
NoClose(d) == [at |-> "idle", doc |-> d, after |-> 0]

Init ==
  /\ Log!Init
  /\ Queue!Init
  /\ latest = [d \in Docs |-> NoSnapshot]
  /\ locked = {}
  /\ \E d \in Docs :
       /\ worker = [k \in Workers |-> NoJob(d)]
       /\ reader = [r \in Readers |-> NoLoad(d)]
       /\ closer = [c \in Closers |-> NoClose(d)]
  /\ loaded = [r \in Readers |-> [doc |-> reader[r].doc, content |-> {}]]

-----------------------------------------------------------------------------

(* An edit of d commits; its number need not follow the last visible one,   *)
(* since rollbacks leave gaps and other documents use the same counter.     *)
CommitEdit ==
  /\ \E d \in Docs, s \in 1..MaxSequence : Log!Commit(d, {[seq |-> s, clock |-> s]})
  /\ UNCHANGED snapVars

(* The repeated job 'ALL' asks for a snapshot job of every document; some   *)
(* of the calls may fail, the others stay done.                             *)
Sweep(added) ==
  /\ added = Docs \/ CallsFail
  /\ Queue!Add(added)
  /\ UNCHANGED <<log, outbox, latest, worker, reader, loaded, closer, locked>>

TakeJob(k, d) ==
  /\ worker[k].at = "idle"
  /\ Queue!Take(d, k)
  /\ worker' = [worker EXCEPT ![k] = [NoJob(d) EXCEPT !.at = "snapshot"]]
  /\ UNCHANGED <<log, outbox, latest, reader, loaded, closer, locked>>

(* getLatestSnapshot of the worker.                                         *)
ReadSnapshot(k) ==
  /\ worker[k].at = "snapshot"
  /\ worker' = [worker EXCEPT ![k].at = "operations", ![k].snap = latest[worker[k].doc]]
  /\ UNCHANGED <<log, outbox, latest, jobs, reader, loaded, closer, locked>>

(* The worker's delta; without new operations the job is done.              *)
ReadOperations(k) ==
  /\ worker[k].at = "operations"
  /\ LET delta == OperationsSince(worker[k].doc, worker[k].snap.seq) IN
     worker' = [worker EXCEPT ![k].delta = Sequences(delta),
                              ![k].at = IF delta = {} THEN "return" ELSE "create"]
  /\ UNCHANGED <<log, outbox, latest, jobs, reader, loaded, closer, locked>>

(* Fault to be caught: the mark is taken from the log when the snapshot is  *)
(* written, not from the operations that were replayed.                     *)
CreateSnapshotAtEnd(k) ==
  /\ worker[k].at = "create"
  /\ \E highest \in Sequences(log[worker[k].doc]) :
       /\ \A s \in Sequences(log[worker[k].doc]) : s <= highest
       /\ latest' = [latest EXCEPT ![worker[k].doc] =
                      [seq |-> highest, content |-> worker[k].snap.content \cup worker[k].delta]]
  /\ worker' = [worker EXCEPT ![k].at = "return"]
  /\ UNCHANGED <<log, outbox, jobs, reader, loaded, closer, locked>>

(* Snapshot and delta are replayed, encoded and written under the number of *)
(* the last operation replayed; the same transaction moves the pointer.     *)
CreateSnapshot(k) ==
  /\ worker[k].at = "create"
  /\ \E highest \in worker[k].delta :
       /\ \A s \in worker[k].delta : s <= highest
       /\ latest' = [latest EXCEPT ![worker[k].doc] =
                      [seq |-> highest, content |-> worker[k].snap.content \cup worker[k].delta]]
  /\ worker' = [worker EXCEPT ![k].at = "return"]
  /\ UNCHANGED <<log, outbox, jobs, reader, loaded, closer, locked>>

(* An error of any of these calls is logged and swallowed.                  *)
JobError(k) ==
  /\ CallsFail
  /\ worker[k].at \in {"snapshot", "operations", "create"}
  /\ worker' = [worker EXCEPT ![k].at = "return"]
  /\ UNCHANGED <<log, outbox, latest, jobs, reader, loaded, closer, locked>>

(* process() returns and BullMQ marks the job completed.                    *)
ReturnJob(k) ==
  /\ worker[k].at = "return"
  /\ Queue!Finish(worker[k].doc, k, "completed")
  /\ worker' = [worker EXCEPT ![k] = NoJob(worker[k].doc)]
  /\ UNCHANGED <<log, outbox, latest, reader, loaded, closer, locked>>

(* The worker's process dies and starts again: its job stays active.        *)
CrashWorker(k) ==
  /\ CallsFail
  /\ worker[k].at # "idle"
  /\ worker' = [worker EXCEPT ![k] = NoJob(worker[k].doc)]
  /\ UNCHANGED <<log, outbox, latest, jobs, reader, loaded, closer, locked>>

StallJob(d) ==
  /\ CallsFail
  /\ Queue!Stall(d)
  /\ UNCHANGED <<log, outbox, latest, worker, reader, loaded, closer, locked>>

-----------------------------------------------------------------------------

(* A load reads the latest snapshot, then what was recorded after it.       *)
LoadSnapshot(r, d) ==
  /\ reader[r].at = "idle"
  /\ reader' = [reader EXCEPT ![r] = [at |-> "operations", doc |-> d, snap |-> latest[d]]]
  /\ UNCHANGED <<log, outbox, latest, jobs, worker, loaded, closer, locked>>

LoadOperations(r) ==
  /\ reader[r].at = "operations"
  /\ LET d == reader[r].doc
         snap == reader[r].snap
     IN  /\ loaded' = [loaded EXCEPT ![r] =
                         [doc |-> d,
                          content |-> snap.content
                                        \cup Sequences(OperationsSince(d, snap.seq))]]
         /\ reader' = [reader EXCEPT ![r] = NoLoad(d)]
  /\ UNCHANGED <<log, outbox, latest, jobs, worker, closer, locked>>

-----------------------------------------------------------------------------

(* handleDisconnect's bookkeeping first reads the latest snapshot ...       *)
CloseReadSnapshot(c, d) ==
  /\ closer[c].at = "idle"
  /\ closer' = [closer EXCEPT ![c] = [at |-> "count", doc |-> d, after |-> latest[d].seq]]
  /\ UNCHANGED <<log, outbox, latest, jobs, worker, reader, loaded, locked>>

(* ... then counts the operations after it and, past the threshold, asks    *)
(* for the lock.  Whoever finds the lock taken leaves the job to its holder.*)
CloseCount(c) ==
  /\ closer[c].at = "count"
  /\ LET d == closer[c].doc
         acquired == /\ Cardinality(OperationsSince(d, closer[c].after)) >= Threshold
                     /\ d \notin locked
     IN  /\ closer' = [closer EXCEPT ![c] =
                         IF acquired THEN [@ EXCEPT !.at = "add", !.after = 0] ELSE NoClose(d)]
         /\ locked' = IF acquired THEN locked \cup {d} ELSE locked
  /\ UNCHANGED <<log, outbox, latest, jobs, worker, reader, loaded>>

CloseAddJob(c) ==
  /\ closer[c].at = "add"
  /\ Queue!Add({closer[c].doc})
  /\ closer' = [closer EXCEPT ![c] = NoClose(closer[c].doc)]
  /\ UNCHANGED <<log, outbox, latest, worker, reader, loaded, locked>>

(* A failing call only skips the rest of the bookkeeping.                   *)
CloseError(c) ==
  /\ CallsFail
  /\ closer[c].at # "idle"
  /\ closer' = [closer EXCEPT ![c] = NoClose(closer[c].doc)]
  /\ UNCHANGED <<log, outbox, latest, jobs, worker, reader, loaded, locked>>

(* The key expires after thirty seconds; nobody releases it.                *)
ExpireLock(d) ==
  /\ d \in locked
  /\ locked' = locked \ {d}
  /\ UNCHANGED <<log, outbox, latest, jobs, worker, reader, loaded, closer>>

-----------------------------------------------------------------------------

Work(k) ==
  \/ \E d \in Docs : TakeJob(k, d)
  \/ ReadSnapshot(k)
  \/ ReadOperations(k)
  \/ CreateSnapshot(k)
  \/ ReturnJob(k)

Next ==
  \/ CommitEdit
  \/ \E added \in SUBSET Docs : Sweep(added)
  \/ \E k \in Workers : Work(k) \/ JobError(k) \/ CrashWorker(k)
  \/ \E d \in Docs : StallJob(d) \/ ExpireLock(d)
  \/ \E r \in Readers : LoadOperations(r) \/ \E d \in Docs : LoadSnapshot(r, d)
  \/ \E c \in Closers :
       \/ \E d \in Docs : CloseReadSnapshot(c, d)
       \/ CloseCount(c)
       \/ CloseAddJob(c)
       \/ CloseError(c)

Spec == Init /\ [][Next]_vars

(* The sweep is scheduled for ever and an idle worker takes a waiting job.  *)
FairSpec == Spec /\ WF_vars(Sweep(Docs)) /\ \A k \in Workers : WF_vars(Work(k))

-----------------------------------------------------------------------------

WorkerState == [at : {"idle", "snapshot", "operations", "create", "return"},
                doc : Docs, snap : Snapshot, delta : SUBSET Nat]
ReaderState == [at : {"idle", "operations"}, doc : Docs, snap : Snapshot]
CloserState == [at : {"idle", "count", "add"}, doc : Docs, after : Nat]

TypeOK ==
  /\ log \in [Docs -> SUBSET Log!Ops]
  /\ outbox \subseteq Nat
  /\ Queue!TypeOK(Workers)
  /\ latest \in [Docs -> Snapshot]
  /\ worker \in [Workers -> WorkerState]
  /\ reader \in [Readers -> ReaderState]
  /\ loaded \in [Readers -> [doc : Docs, content : SUBSET Nat]]
  /\ closer \in [Closers -> CloserState]
  /\ locked \subseteq Docs

(* Of the numbers seqs, snap holds exactly those up to its own mark.        *)
Exact(snap, seqs) ==
  /\ snap.content = {s \in seqs : s <= snap.seq}
  /\ snap = NoSnapshot \/ snap.seq \in snap.content

(* Every snapshot in use, whoever holds it and however old it has become,   *)
(* stands for exactly the operations up to its mark: what the reader adds   *)
(* from the log later completes it, with nothing skipped.                   *)
SnapshotsExact ==
  /\ \A d \in Docs : Exact(latest[d], Sequences(log[d]))
  /\ \A k \in Workers : Exact(worker[k].snap, Sequences(log[worker[k].doc]))
  /\ \A r \in Readers : Exact(reader[r].snap, Sequences(log[reader[r].doc]))

(* What a joining client or the AI service is given is every operation      *)
(* committed when the second of its two reads ran, although snapshots and   *)
(* edits come between the reads.                                            *)
LoadsEverything ==
  [][\A r \in Readers :
        reader[r].at = "operations" /\ reader'[r].at = "idle" =>
          loaded'[r].content = Sequences(log[reader[r].doc])]_vars

(* The job id keeps two workers off one document, unless BullMQ took the    *)
(* job from a worker it believed dead ("at most one snapshot job per        *)
(* document is ever queued").                                               *)
OneWorkerPerDocument ==
  \A j, k \in Workers :
    /\ j # k
    /\ worker[j].at # "idle" /\ worker[k].at # "idle"
    /\ worker[j].doc = worker[k].doc
    => jobs[worker[k].doc].stalls > 0

(* A document's latest snapshot is replaced by an older one only where two  *)
(* workers were given the same job.                                         *)
NoRegress ==
  [][\A d \in Docs : latest'[d].seq < latest[d].seq => jobs[d].stalls > 0]_vars

(* What a worker is about to write is all there is above its snapshot, up   *)
(* to any number it has read: later edits appear above its delta.           *)
DeltaComplete ==
  \A k \in Workers : worker[k].at = "create" =>
    \A h \in worker[k].delta :
      /\ h \in Sequences(log[worker[k].doc]) /\ worker[k].snap.seq < h
      /\ \A s \in Sequences(log[worker[k].doc]) :
           worker[k].snap.seq < s /\ s <= h => s \in worker[k].delta

(* A worker holds the lock of the job it runs, unless the job has stalled.  *)
JobHeld ==
  \A k \in Workers :
    worker[k].at # "idle" /\ jobs[worker[k].doc].stalls = 0 =>
      jobs[worker[k].doc].state = "active" /\ jobs[worker[k].doc].owner = k

(* The pointer a worker has read is still the latest one when it moves it.  *)
PointerHeld ==
  \A k \in Workers :
    worker[k].at \in {"operations", "create"} /\ jobs[worker[k].doc].stalls = 0 =>
      latest[worker[k].doc] = worker[k].snap

(* Sequence numbers start at 1, above the mark of a missing snapshot.       *)
Numbered == \A d \in Docs : 0 \notin Sequences(log[d])

(* The conjunction that is preserved by every step.                         *)
IInv ==
  /\ TypeOK
  /\ SnapshotsExact
  /\ DeltaComplete
  /\ JobHeld
  /\ PointerHeld
  /\ Numbered

(* README.md: snapshots compact accumulated operations on a scheduled       *)
(* interval, keeping replay time bounded.  So every operation is, sooner or *)
(* later, part of its document's latest snapshot.                           *)
EveryOperationCompacted ==
  \A d \in Docs : \A s \in 1..MaxSequence :
    s \in Sequences(log[d]) ~> latest[d].seq >= s

=============================================================================
