------------------------------ MODULE MCOutbox ------------------------------
(* Two processes and two operations, committed one by one or as one batch. *)
EXTENDS Outbox

=============================================================================
