------------------------------ MODULE MCAccounts ------------------------------
(* One address, two requests at a time, two codes and three tokens.         *)
EXTENDS Accounts, TLC

Symmetry ==
  Permutations(Codes) \cup Permutations(ResetTokens) \cup Permutations(Requests)

=============================================================================
