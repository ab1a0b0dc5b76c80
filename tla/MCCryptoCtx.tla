---------------------------- MODULE MCCryptoCtx ----------------------------
(* Two CPUs and two sessions with one of the four kinds of contexts; three  *)
(* addresses, fewer than slots, so that freed memory is used again by       *)
(* either session and memory runs out when new sessions lose contexts.      *)
(* What happens after an overlap of p3_init_crypto and p3_rekey, about      *)
(* which the properties say nothing, is not followed.                       *)
EXTENDS CryptoCtx

NoOverlap == fault # "overlap"
=============================================================================
