---------------------------- MODULE MCSnapshots ----------------------------
(* Two workers on one document: a stalled job puts both on it at once.      *)
EXTENDS Snapshots, TLC

Symmetry == Permutations(Workers)

=============================================================================
