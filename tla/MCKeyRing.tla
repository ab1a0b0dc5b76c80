------------------------------ MODULE MCKeyRing ------------------------------
(* Small instances of the key ring; CbufSz is 4 modulo 16 and 20 modulo 32, *)
(* as the 4084 bytes of the real buffer are.                                *)
EXTENDS KeyRing
=============================================================================
