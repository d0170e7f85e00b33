----------------------------- MODULE MCGateway -----------------------------
(* Two sockets share one process, and their calls may fail; a third stays   *)
(* connected to another.                                                    *)
EXTENDS Gateway, TLC

CONSTANTS i1, i2, c1, c2, c3, u1

MCInstanceOf == (c1 :> i1) @@ (c2 :> i1) @@ (c3 :> i2)

(* Two connections of one user, and one of another, who edits.              *)
MCUserOf == [c \in {c1, c2, c3} |-> IF c = c3 THEN "author" ELSE "reader"]

Symmetry == Permutations({c1, c2})

=============================================================================
