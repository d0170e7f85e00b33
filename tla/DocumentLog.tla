---------------------------- MODULE DocumentLog ----------------------------
(***************************************************************************)
(* What the rest of the backend is promised about the operation log: each  *)
(* edit transaction appears whole, above everything already visible in     *)
(* its document, with Lamport clocks that follow the sequence order, and   *)
(* with one outbox row per operation.  OperationLog, which models the      *)
(* Postgres transactions statement by statement, implements this module.   *)
(***************************************************************************)
EXTENDS Naturals

CONSTANT Docs

VARIABLES
  log,     \* log[d]: the committed rows of "operations" for document d
  outbox   \* sequence numbers of the operations with a committed outbox row

vars == <<log, outbox>>

Ops == [seq : Nat, clock : Nat]

Init ==
  /\ log = [d \in Docs |-> {}]
  /\ outbox = {}

(* One committed edit transaction: handleUpdate commits one operation,      *)
(* applyOps one operation per accepted AI edit.                             *)
Commit(d, batch) ==
  /\ batch # {}
  /\ batch \subseteq Ops
  /\ \A new \in batch, old \in log[d] :
        old.seq < new.seq /\ old.clock < new.clock
  /\ \A m, n \in batch : m.seq < n.seq <=> m.clock < n.clock
  /\ \A new \in batch, e \in Docs : \A old \in log[e] : new.seq # old.seq
  /\ log' = [log EXCEPT ![d] = @ \cup batch]
  /\ outbox' = outbox \cup {n.seq : n \in batch}

Next == \E d \in Docs : Commit(d, log'[d] \ log[d])

Spec == Init /\ [][Next]_vars

=============================================================================
