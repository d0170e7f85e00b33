---------------------------- MODULE OperationLog ----------------------------
(***************************************************************************)
(* The edit transactions of the backend against Postgres under READ        *)
(* COMMITTED: handleUpdate of the collaboration gateway (one human edit)   *)
(* and applyOps of the AI service (a batch of accepted edits) both lock    *)
(* the documents row, read the highest Lamport clock, insert operations    *)
(* with their outbox rows and commit.  The sequence number is an identity  *)
(* column: one counter for all documents that a rollback does not return.  *)
(* A writer is one running handler call; server processes share Postgres,  *)
(* so writers of different processes need not be told apart.               *)
(***************************************************************************)
EXTENDS Naturals, FiniteSets

CONSTANTS
  Docs,            \* documents
  Writers,         \* concurrent handler calls that edit documents
  ReceivedClocks,  \* Lamport clocks classifyUpdate may find in a client's update
  MaxBatch,        \* most operations one accepted AI proposal holds
  MaxSequence,     \* last value of the operation_sequence identity column
  NoWriter         \* the documents row is not locked

ASSUME ReceivedClocksAssumption == ReceivedClocks \subseteq Nat
ASSUME MaxBatchAssumption == MaxBatch \in Nat
ASSUME MaxSequenceAssumption == MaxSequence \in Nat
ASSUME NoWriterAssumption == NoWriter \notin Writers

VARIABLES
  log,        \* log[d]: committed operation rows of d
  outbox,     \* sequence numbers whose outbox row is committed
  sequence,   \* last number drawn from the identity column
  rowLock,    \* rowLock[d]: the writer whose transaction locked d's row
  pc,         \* pc[w]: the statement w's transaction executes next
  target,     \* target[w]: the document w edits
  clock,      \* clock[w]: highest clock w knows, then the last it assigned
  todo,       \* todo[w]: operations w still has to insert
  rows,       \* rows[w]: operations inserted by w and not committed
  outboxRows  \* outboxRows[w]: sequence numbers of w's uncommitted outbox rows

txVars == <<sequence, rowLock, pc, target, clock, todo, rows, outboxRows>>
vars == <<log, outbox, txVars>>

Operation == [seq : Nat, clock : Nat]

Statements == {"idle", "lock", "max", "insert", "outbox", "commit"}
Locked == {"max", "insert", "outbox", "commit"}

Init ==
  /\ log = [d \in Docs |-> {}]
  /\ outbox = {}
  /\ sequence = 0
  /\ rowLock = [d \in Docs |-> NoWriter]
  /\ pc = [w \in Writers |-> "idle"]
  /\ target \in [Writers -> Docs]
  /\ clock = [w \in Writers |-> 0]
  /\ todo = [w \in Writers |-> 0]
  /\ rows = [w \in Writers |-> {}]
  /\ outboxRows = [w \in Writers |-> {}]

-----------------------------------------------------------------------------

(* Both handlers open a transaction: clock[w] holds what the update itself  *)
(* carries, todo[w] how many operations will be written.                    *)
Begin(w, d, received, n) ==
  /\ pc[w] = "idle"
  /\ pc' = [pc EXCEPT ![w] = "lock"]
  /\ target' = [target EXCEPT ![w] = d]
  /\ clock' = [clock EXCEPT ![w] = received]
  /\ todo' = [todo EXCEPT ![w] = n]
  /\ UNCHANGED <<log, outbox, sequence, rowLock, rows, outboxRows>>

(* A client's binary update: one operation, with the clock it carries.      *)
BeginUpdate(w) ==
  \E d \in Docs, received \in ReceivedClocks : Begin(w, d, received, 1)

(* An accepted AI proposal: its operations carry no clock of their own.     *)
BeginApplyOps(w) ==
  \E d \in Docs, n \in 1..MaxBatch : Begin(w, d, 0, n)

(* Fault to be caught: the transaction reads the clock without the lock.    *)
AcquireNoLock(w) ==
  /\ pc[w] = "lock"
  /\ pc' = [pc EXCEPT ![w] = "max"]
  /\ UNCHANGED <<log, outbox, sequence, rowLock, target, clock, todo, rows,
                 outboxRows>>

(* SELECT ... FOR UPDATE on the documents row blocks while another          *)
(* transaction holds it.                                                    *)
AcquireDocumentWriteLock(w) ==
  /\ pc[w] = "lock"
  /\ rowLock[target[w]] = NoWriter
  /\ rowLock' = [rowLock EXCEPT ![target[w]] = w]
  /\ pc' = [pc EXCEPT ![w] = "max"]
  /\ UNCHANGED <<log, outbox, sequence, target, clock, todo, rows, outboxRows>>

(* The clocks getMaxClockValue reads, with the 0 it returns for no row.     *)
ClocksOf(d) == {0} \cup {op.clock : op \in log[d]}

(* SELECT max(clock_value): the statement sees every row committed so far.  *)
(* The transaction goes on from the larger of that and the received clock.  *)
GetMaxClockValue(w) ==
  /\ pc[w] = "max"
  /\ \E highest \in ClocksOf(target[w]) :
        /\ \A c \in ClocksOf(target[w]) : c <= highest
        /\ clock' = [clock EXCEPT ![w] = IF highest > @ THEN highest ELSE @]
  /\ pc' = [pc EXCEPT ![w] = "insert"]
  /\ UNCHANGED <<log, outbox, sequence, rowLock, target, todo, rows, outboxRows>>

(* INSERT INTO operations draws the next sequence number, which no rollback *)
(* gives back; the row is invisible to others until commit.                 *)
InsertOperation(w) ==
  /\ pc[w] = "insert"
  /\ sequence < MaxSequence
  /\ sequence' = sequence + 1
  /\ clock' = [clock EXCEPT ![w] = @ + 1]
  /\ rows' = [rows EXCEPT ![w] =
                @ \cup {[seq |-> sequence + 1, clock |-> clock[w] + 1]}]
  /\ todo' = [todo EXCEPT ![w] = @ - 1]
  /\ pc' = [pc EXCEPT ![w] = "outbox"]
  /\ UNCHANGED <<log, outbox, rowLock, target, outboxRows>>

(* Fault to be caught: the outbox row is left for later.                    *)
InsertNoOutboxEntry(w) ==
  /\ pc[w] = "outbox"
  /\ pc' = [pc EXCEPT ![w] = IF todo[w] = 0 THEN "commit" ELSE "insert"]
  /\ UNCHANGED <<log, outbox, sequence, rowLock, target, clock, todo, rows,
                 outboxRows>>

(* Fault to be caught: the loop over a batch tests its end the wrong way.   *)
InsertPastBatch(w) ==
  /\ pc[w] = "outbox"
  /\ outboxRows' = [outboxRows EXCEPT ![w] = {op.seq : op \in rows[w]}]
  /\ pc' = [pc EXCEPT ![w] = IF todo[w] = 0 THEN "insert" ELSE "commit"]
  /\ UNCHANGED <<log, outbox, sequence, rowLock, target, clock, todo, rows>>

(* INSERT INTO outbox for the operation just inserted, the last number w    *)
(* drew; then the next operation of the batch, or COMMIT.                   *)
InsertOutboxEntry(w) ==
  /\ pc[w] = "outbox"
  /\ outboxRows' = [outboxRows EXCEPT ![w] = {op.seq : op \in rows[w]}]
  /\ pc' = [pc EXCEPT ![w] = IF todo[w] = 0 THEN "commit" ELSE "insert"]
  /\ UNCHANGED <<log, outbox, sequence, rowLock, target, clock, todo, rows>>

(* Fault to be caught: the lock outlives the transaction.                   *)
EndTransactionLocked(w) ==
  /\ pc' = [pc EXCEPT ![w] = "idle"]
  /\ clock' = [clock EXCEPT ![w] = 0]
  /\ todo' = [todo EXCEPT ![w] = 0]
  /\ rows' = [rows EXCEPT ![w] = {}]
  /\ outboxRows' = [outboxRows EXCEPT ![w] = {}]
  /\ UNCHANGED <<sequence, target, rowLock>>

(* The transaction ends: its row lock goes and its private rows with it.    *)
EndTransaction(w) ==
  /\ pc' = [pc EXCEPT ![w] = "idle"]
  /\ rowLock' = [d \in Docs |-> IF rowLock[d] = w THEN NoWriter ELSE rowLock[d]]
  /\ clock' = [clock EXCEPT ![w] = 0]
  /\ todo' = [todo EXCEPT ![w] = 0]
  /\ rows' = [rows EXCEPT ![w] = {}]
  /\ outboxRows' = [outboxRows EXCEPT ![w] = {}]
  /\ UNCHANGED <<sequence, target>>

Commit(w) ==
  /\ pc[w] = "commit"
  /\ log' = [log EXCEPT ![target[w]] = @ \cup rows[w]]
  /\ outbox' = outbox \cup outboxRows[w]
  /\ EndTransaction(w)

(* The transaction is rolled back: its handler fails.                       *)
Rollback(w) ==
  /\ EndTransaction(w)
  /\ UNCHANGED <<log, outbox>>

(* The identity column has no value left: the INSERT raises an error.       *)
SequenceExhausted(w) ==
  /\ pc[w] = "insert"
  /\ sequence = MaxSequence
  /\ Rollback(w)

(* Any statement may fail, and the process or its connection may die.       *)
Fail(w) ==
  /\ pc[w] # "idle"
  /\ Rollback(w)

(* Statements that run once nothing else holds them up.                     *)
Proceed(w) ==
  \/ GetMaxClockValue(w)
  \/ InsertOperation(w)
  \/ InsertOutboxEntry(w)
  \/ Commit(w)
  \/ SequenceExhausted(w)

Next ==
  \E w \in Writers :
     \/ BeginUpdate(w)
     \/ BeginApplyOps(w)
     \/ AcquireDocumentWriteLock(w)
     \/ Proceed(w)
     \/ Fail(w)

Spec == Init /\ [][Next]_vars

(* Postgres answers every statement, and grants a released row lock to a    *)
(* waiting transaction: no writer waits while the lock is free for ever.    *)
Fairness ==
  \A w \in Writers : WF_vars(Proceed(w)) /\ SF_vars(AcquireDocumentWriteLock(w))

FairSpec == Spec /\ Fairness

-----------------------------------------------------------------------------

TypeOK ==
  /\ log \in [Docs -> SUBSET Operation]
  /\ outbox \subseteq Nat
  /\ sequence \in Nat
  /\ rowLock \in [Docs -> Writers \cup {NoWriter}]
  /\ pc \in [Writers -> Statements]
  /\ target \in [Writers -> Docs]
  /\ clock \in [Writers -> Nat]
  /\ todo \in [Writers -> Nat]
  /\ rows \in [Writers -> SUBSET Operation]
  /\ outboxRows \in [Writers -> SUBSET Nat]

(* A document row is locked by exactly the one transaction that is past its *)
(* SELECT ... FOR UPDATE.                                                   *)
LockHeld ==
  /\ \A w \in Writers : pc[w] \in Locked => rowLock[target[w]] = w
  /\ \A d \in Docs, w \in Writers :
        rowLock[d] = w => pc[w] \in Locked /\ target[w] = d

(* No sequence number is drawn twice, by one document or by two.            *)
SequencesDistinct ==
  /\ \A d \in Docs : \A op \in log[d] : op.seq <= sequence
  /\ \A w \in Writers : \A op \in rows[w] : op.seq <= sequence
  /\ \A w \in Writers, d \in Docs : \A m \in rows[w], n \in log[d] : m.seq # n.seq
  /\ \A v, w \in Writers : v # w => \A m \in rows[v], n \in rows[w] : m.seq # n.seq

(* A writer past getMaxClockValue knows a clock as high as any its document *)
(* shows, and what it has inserted lies above everything visible.           *)
AboveCommitted ==
  \A w \in Writers :
    /\ pc[w] \in {"insert", "outbox", "commit"} =>
         /\ \A old \in log[target[w]] : old.clock <= clock[w]
         /\ \A new \in rows[w] : new.clock <= clock[w]
    /\ \A new \in rows[w], old \in log[target[w]] :
         old.seq < new.seq /\ old.clock < new.clock
    /\ \A m, n \in rows[w] : m.seq < n.seq <=> m.clock < n.clock
    /\ pc[w] \in {"idle", "lock", "max"} => rows[w] = {} /\ outboxRows[w] = {}

(* A transaction that is about to insert has something to insert, and one   *)
(* that has inserted holds the row.                                         *)
OpenTodo ==
  \A w \in Writers :
    /\ pc[w] \in {"lock", "max", "insert"} => todo[w] > 0
    /\ pc[w] = "outbox" => rows[w] # {}

(* Every inserted operation has its outbox row by the time of the commit.   *)
OutboxComplete ==
  \A w \in Writers : pc[w] = "commit" =>
    rows[w] # {} /\ outboxRows[w] = {op.seq : op \in rows[w]}

(* Sorting a document's operations by sequence number sorts them strictly   *)
(* by Lamport clock, whatever transactions of gateway and AI service run    *)
(* at the same time (operations.service.ts: "produce duplicate Lamport      *)
(* timestamps" is what the row lock prevents).                              *)
LamportOrder ==
  \A d \in Docs : \A a, b \in log[d] : a.seq < b.seq <=> a.clock < b.clock

(* The conjunction that is preserved by every step.                         *)
IInv ==
  /\ TypeOK
  /\ LockHeld
  /\ SequencesDistinct
  /\ AboveCommitted
  /\ OutboxComplete
  /\ OpenTodo
  /\ LamportOrder

DL == INSTANCE DocumentLog

(* Every transaction appears in the log whole, above what its document      *)
(* already shows, together with its outbox rows.                            *)
ImplementsDocumentLog == DL!Spec

(* A reader that has seen sequence number s of a document never misses an   *)
(* operation at or below s: rows only ever appear above what is visible.    *)
(* Joins and snapshot workers rely on it when they read "everything after". *)
NoLateCommit ==
  [][\A d \in Docs :
        /\ log[d] \subseteq log'[d]
        /\ \A old \in log[d], new \in log'[d] \ log[d] : old.seq < new.seq]_vars

(* A writer that opened its transaction gets out of it, also when others    *)
(* keep editing the document it waits for.                                  *)
EveryTransactionEnds ==
  \A w \in Writers : pc[w] # "idle" ~> pc[w] = "idle"

=============================================================================
