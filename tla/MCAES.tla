-------------------------------- MODULE MCAES --------------------------------
(* Keys of the three lengths and one that is refused; no, one, two and a   *)
(* part of a block.                                                        *)
EXTENDS AES

Zero == [i \in 1..16 |-> 0]
Std == [i \in 1..16 |-> 17 * (i - 1)]
Mixed == [i \in 1..32 |-> (37 * i * i + 11 * i) % 256]
Mixed16 == SubSeq(Mixed, 1, 16)

MCInputs ==
    {[key |-> k, data |-> dt, iv |-> v, len |-> Len(dt)] :
        k \in {Count(16), Count(24), Count(32), Zero, SubSeq(Mixed, 1, 24)},
        dt \in {<<>>, Std, Mixed, SubSeq(Mixed, 1, 20)}, v \in {Zero, Mixed16}}
    \cup {[key |-> Count(20), data |-> Std, iv |-> Zero, len |-> 16]}
=============================================================================
