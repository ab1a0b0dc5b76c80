----------------------------- MODULE MCGateway -----------------------------
(* Two remote hosts; the second shares a network with the first, and has   *)
(* one network more than the route table holds.                            *)
EXTENDS P3Gateway

MCNetsOf == [a |-> <<"a", "n1">>, b |-> <<"n1", "b", "n2">>]
MCCovers == [a |-> {"a"}, b |-> {"b"}, n1 |-> {"x1"}, n2 |-> {"x2"}]
=============================================================================
