------------------------------ MODULE MCConfig ------------------------------
(* Two remote hosts, ids beyond either end of the arrays, two subnets.     *)
EXTENDS P3Config

Ln(k, id, key, n, v) == [kind |-> k, id |-> id, key |-> key, n |-> n, v |-> v]
Loc(key, n, v) == Ln("local", 0, key, n, v)
Rem(id, key, n, v) == Ln("remote", id, key, n, v)

MCLines ==
    {Ln(k, 0, "none", 0, 0) : k \in {"localstart", "localend"}}
    \cup {Loc("ip", 0, 4), Loc("time", 0, 2),
          Loc("subnet", 1, 1), Loc("subnet", 2, 1)}
    \cup {Rem(1, "ip", 0, 4), Rem(2, "ip", 0, 4), Rem(1, "ip", 0, 6), Rem(0, "ip", 0, 4),
          Rem(3, "ip", 0, 4), Rem(1, "address", 0, 1), Rem(2, "time", 0, 3),
          Rem(1, "subnet", 1, 1), Rem(2, "subnet", 1, 2), Rem(1, "subnet", 2, 1),
          Rem(1, "mask", 1, 1), Rem(1, "mask", 0, 1)}
=============================================================================
