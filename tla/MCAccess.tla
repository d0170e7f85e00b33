------------------------------ MODULE MCAccess ------------------------------
(* Three users, two requests at a time, one share link.  Left out are the   *)
(* endpoints listMembers, proposeChat and declineProposal, which getDocument *)
(* and chat stand for.                                                      *)
EXTENDS Access, TLC

MCServed == Kinds \ {"listMembers", "proposeChat", "declineProposal"}

Symmetry == Permutations(Users) \cup Permutations(Requests)

=============================================================================
