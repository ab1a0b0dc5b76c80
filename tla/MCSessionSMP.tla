----------------------------- MODULE MCSessionSMP -----------------------------
(* Small gateways for TLC: which softirqs and processes run packet_handler. *)
EXTENDS P3SessionSMP, TLC

KeySymmetry == Permutations(Key \ {InitKey})

OneEach == { <<"pri", 1, "soft">>, <<"sec", 1, "soft">> }
TwoOnPrimary == OneEach \cup { <<"pri", 2, "soft">> }
TwoOnSecondary == OneEach \cup { <<"sec", 2, "soft">> }
ProcessOnPrimary == OneEach \cup { <<"pri", 1, "proc">> }
=============================================================================
