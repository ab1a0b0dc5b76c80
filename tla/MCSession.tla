------------------------------ MODULE MCSession ------------------------------
(* P3Session for TLC.  The keys other than the configured one are          *)
(* interchangeable: the model only compares them.                          *)
EXTENDS P3Session, TLC

KeySymmetry == Permutations(Key \ {InitKey})
=============================================================================
