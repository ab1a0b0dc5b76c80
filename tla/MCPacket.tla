------------------------------ MODULE MCPacket ------------------------------
(* The sizes on both sides of every limit of the size classes and of the   *)
(* block count, clock values for every block count and several orders, and *)
(* the bytes that move a border furthest down, furthest up and not at all. *)
EXTENDS P3Packet
=============================================================================
