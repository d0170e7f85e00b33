---------------------------- MODULE MCProposals ----------------------------
(* Two requests on two proposals of a deletion and an insertion each.       *)
EXTENDS Proposals, TLC

Symmetry == Permutations(Requests) \cup Permutations(Proposals)

=============================================================================
