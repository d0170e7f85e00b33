---------------------------- MODULE ProposalLife ----------------------------
(***************************************************************************)
(* What the author of an AI proposal is promised: a proposal is open once, *)
(* and ends once, either applied to the document by one transaction or     *)
(* dropped for good.  A chat applies its edit without opening a proposal.  *)
(***************************************************************************)
EXTENDS Naturals

CONSTANT Proposals

VARIABLES
  status,   \* status[q]: "none", "open", "applied" or "dropped"
  applied   \* applied[q]: transactions that wrote q's operations

Init ==
  /\ status = [q \in Proposals |-> "none"]
  /\ applied = [q \in Proposals |-> 0]

Open(q) ==
  /\ status[q] = "none"
  /\ status' = [status EXCEPT ![q] = "open"]
  /\ UNCHANGED applied

Apply(q) ==
  /\ status[q] \in {"none", "open"}
  /\ status' = [status EXCEPT ![q] = "applied"]
  /\ applied' = [applied EXCEPT ![q] = @ + 1]

Drop(q) ==
  /\ status[q] = "open"
  /\ status' = [status EXCEPT ![q] = "dropped"]
  /\ UNCHANGED applied

Next == \E q \in Proposals : Open(q) \/ Apply(q) \/ Drop(q)

Spec == Init /\ [][Next]_<<status, applied>>

=============================================================================
