------------------------------ MODULE MCSessions ------------------------------
(* Three tokens that live a second of two ticks, and two requests at a time. *)
EXTENDS Sessions, TLC

Symmetry == Permutations(Tokens) \cup Permutations(Requests)

=============================================================================
