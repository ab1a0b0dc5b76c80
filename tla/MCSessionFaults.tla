--------------------------- MODULE MCSessionFaults ---------------------------
(* P3Session on a network that does everything to its packets.  A history  *)
(* variable tells the behaviours in which it has kept them in order so far  *)
(* from the others.                                                         *)
EXTENDS MCSession

VARIABLE inorder

Oldest(h) == { p \in net[h] : \A q \in net[h] : Age(h, q) <= Age(h, p) }

\* No packet is overtaken, and none is delivered twice, in this step.
KeepsOrder == \A h \in Host :
    /\ net[h] \ net'[h] \subseteq Oldest(h) \/ (sess' = sess /\ used' = used)
    /\ \A p \in net'[h] \ net[h] : ~p.copy

MCInit == Init /\ inorder = TRUE
MCNext == Next /\ inorder' = (inorder /\ KeepsOrder)
MCSpec == MCInit /\ [][MCNext]_<<vars, inorder>>

(* Whatever reaches the primary in order is decrypted with the key it was  *)
(* encrypted with, whichever messages were lost or could not be sent       *)
(* (packet_handler's choice of a key by sequence number).                  *)
PrimaryOpensInOrder == inorder => \A p \in Oldest("pri") : Opens("pri", p)
=============================================================================
