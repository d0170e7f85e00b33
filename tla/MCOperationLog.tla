--------------------------- MODULE MCOperationLog ---------------------------
(* Two writers on two documents and one identity column of four values: two *)
(* edits of one document, a batch of two interleaved with another document, *)
(* rollbacks that leave gaps, and the exhausted column are all reached.     *)
EXTENDS OperationLog

MCReceivedClocks == {0, 2}

=============================================================================
