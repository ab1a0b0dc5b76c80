------------------------------ MODULE MCUIAnon ------------------------------
(* Requests with a listener that has the FIFOs open, and sessions while no *)
(* request is sent.                                                        *)
EXTENDS UIAnon

NoDefs == arem.anon = <<>> /\ arem.remotes = 0
NoData == link.to = 0 \/ link.left = MaxMsgs
OneListener == \A k \in 1..MaxKids : k > 1 => lis[k] = NoKid
NoSession == \A k \in 1..MaxKids : lis[k].peer = NoPeer
NoSubnet == cmd.sub = 0 /\ cmd.ver = 0

\* A third user interface finds a system application that has opened the
\* FIFO to a second one; it is of interest while nothing has gone wrong.
ThirdLife == ui.life > 2 => ev = {} /\ kids = {}

\* A listener that was told to end keeps the FIFOs open: of interest while
\* nothing has gone wrong, and while there is no second user interface.
ToldLater == (\E k \in kids : lis[k].told) => ev = {} \/ ui.life = 1

\* Bounds: what is combined with what.
Requests == NoDefs /\ NoSession /\ OneListener /\ NoSubnet /\ ThirdLife /\ ToldLater
Quiet == ui.id = 1 /\ ui.pc \in {"down", "idle"} /\ ui.life = 1 /\ d.pc \in {"loop", "sleep"}
Sessions == Quiet /\ NoDefs /\ (NoData \/ (OneListener /\ NoSubnet))
Definitions == Quiet /\ kids = {} /\ NoSubnet

OneAtATime == Requests \/ Sessions \/ Definitions
=============================================================================
