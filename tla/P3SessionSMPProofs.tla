-------------------------- MODULE P3SessionSMPProofs --------------------------
(***************************************************************************)
(* Proofs about P3SessionSMP, for any number of CPUs and processes on      *)
(* either gateway and whatever the environment does: only one rekeying     *)
(* goes on at a time, and therefore the control packets of the primary are *)
(* sealed with the number they carry.  With one softirq on each gateway    *)
(* the steps of packet_handler implement the single steps of P3Session.    *)
(***************************************************************************)
EXTENDS P3SessionSMP, P3SessionProofs, FiniteSetTheorems

Pcs == {"idle", "build", "setrekey", "take", "data", "control", "header", "packet",
        "number", "send", "clear", "giveup", "decrypt", "message", "announce", "hold",
        "switch", "rID0", "rID1"}
Locals == [pc : Pcs, job : {"none", "start", "replace", "rekey"}, pkt : Packet,
           new : BOOLEAN, out : Packet, iv : Seqs, sent : BOOLEAN,
           was : [sess : Sessions, used : Nat]]

\* What the variables hold.
SMPTypeOK ==
    /\ TypeOK
    /\ thr \in [Thread -> Locals]
    /\ slock \in [Host -> Thread \cup {NoThread}]

\* p3send_control is under way; start_rekeying has not returned.
Sending == {"control", "header", "packet", "number", "send"}
Starting == Sending \cup {"clear"}

(* Where packet_handler is, and what it has been called for.               *)
Flow(h, x) ==
    /\ x.pc \in {"build", "setrekey"} => h = "pri" /\ x.pkt.msg.type = "DATA"
    /\ x.pc \in {"idle", "build", "decrypt", "message"} => x.job = "none"
    /\ x.pc = "setrekey" => x.job = "start"
    /\ x.pc \in {"take", "data"} => x.job \in {"none", "start"}
    /\ x.pc = "data" => x.out.msg.type = "DATA"
    /\ x.pc \in Sending =>
         /\ x.job \in (IF h = "pri" THEN {"start", "rekey"} ELSE {"replace"})
         /\ x.job # "start" => x.out.msg.type = "REKEY"
    /\ x.pc \in {"message", "giveup"} => x.pkt.msg.type # "DATA"
    /\ x.pc = "giveup" => x.job \in {"none", "replace"}
    /\ x.pc = "clear" => x.job \in {"start", "rekey"}
    /\ x.pc = "announce" => x.job = (IF h = "pri" THEN "rekey" ELSE "replace")
    /\ x.pc = "hold" => x.job = "replace" /\ x.sent
    /\ x.pc \in {"switch", "rID0", "rID1"} => x.job = "rekey"
    /\ x.pc \in Sending \cup {"idle", "build", "setrekey", "decrypt", "message", "announce"}
         => ~x.sent
    /\ x.job = "start" => h = "pri" /\ x.pkt.msg.type = "DATA"
    /\ x.job = "replace" => h = "sec" /\ x.pkt.msg.type = "REPLACE_KEY"
    /\ x.job = "rekey" => x.pkt.msg.type = "REKEY"
    /\ h = "pri" => x.pkt.msg.type # "REPLACE_KEY"

(* The right to clear the primary's Rekey flag goes round: from the        *)
(* handler that set it to its REPLACE_KEY packet, to the handler of that   *)
(* packet, to the REKEY packet that answers, to the handler of the answer. *)
Holds(h, x) ==
    IF h = "pri"
    THEN (x.job = "start" /\ x.pc \in Starting) \/ x.pkt.msg.type = "REKEY"
    ELSE x.pkt.msg.type = "REPLACE_KEY" /\ ~x.sent
Carries(h, p) == p.msg.type = (IF h = "pri" THEN "REKEY" ELSE "REPLACE_KEY")

\* At most one has it, and only while the flag is set.
OneToken ==
    /\ \A t, u \in Thread :
         Holds(HostOf(t), thr[t]) /\ Holds(HostOf(u), thr[u]) => t = u
    /\ \A g, h \in Host : \A p \in net[g], q \in net[h] :
         Carries(g, p) /\ Carries(h, q) => g = h /\ p = q
    /\ \A t \in Thread, h \in Host : \A p \in net[h] :
         ~(Holds(HostOf(t), thr[t]) /\ Carries(h, p))
Flagged ==
    /\ \A t \in Thread : Holds(HostOf(t), thr[t]) => sess["pri"].rekey
    /\ \A h \in Host : \A p \in net[h] : Carries(h, p) => sess["pri"].rekey

\* The secondary's handlers run one after the other.
OneOnSecondary ==
    \A t, u \in Thread : HostOf(t) = "sec" /\ HostOf(u) = "sec" => t = u

\* Where nothing else takes a number while a control packet is being built.
Undisturbed(h) == h = "pri" \/ OneOnSecondary

\* A packet under construction is sealed with the current number.
Sealed(s, x) ==
    /\ x.pc = "header" => x.iv = s.sseq
    /\ x.pc = "packet" => x.out.seq = s.sseq
    /\ x.pc \in {"header", "packet", "number", "send"} => x.out.ck # NoKey
    /\ x.pc \in {"number", "send"} => x.out.dk # NoKey
Sealing ==
    \A t \in Thread : Undisturbed(HostOf(t)) => Sealed(sess[HostOf(t)], thr[t])
Current == \A h \in Host : NoKey \notin CtxKeys(sess[h].ctx1)
NetSealed ==
    \A h \in Host : Undisturbed(h) =>
       \A p \in net[Peer(h)] : p.msg.type # "DATA" => NoKey \notin {p.dk, p.ck}

Flows == \A t \in Thread : Flow(HostOf(t), thr[t])
FromSecondary == \A p \in net["pri"] : p.msg.type # "REPLACE_KEY"

\* The inductive invariant.
SMPInv == /\ SMPTypeOK /\ Flows /\ FromSecondary /\ OneToken /\ Flagged
          /\ Current /\ Sealing /\ NetSealed

-----------------------------------------------------------------------------
(* What a step of one thread keeps                                          *)

\* A thread runs on one of the two gateways.
LEMMA ThreadHost ==
    ASSUME NEW t \in Thread
    PROVE  HostOf(t) \in Host /\ Peer(HostOf(t)) \in Host
BY ThreadAssumption DEF HostOf, Host, Peer

\* Other threads are where they were.
LEMMA OneMoves ==
    ASSUME SMPInv, NEW t \in Thread, NEW x \in Locals, Flow(HostOf(t), x),
           thr' = [thr EXCEPT ![t] = x]
    PROVE  /\ thr' \in [Thread -> Locals] /\ thr'[t] = x
           /\ \A u \in Thread : u # t => thr'[u] = thr[u]
           /\ Flows'
<1>1. thr \in [Thread -> Locals]
  BY DEF SMPInv, SMPTypeOK
<1>2. /\ thr' \in [Thread -> Locals] /\ thr'[t] = x
      /\ \A u \in Thread : u # t => thr'[u] = thr[u]
  BY <1>1
<1>3. Flows'
  BY <1>2 DEF SMPInv, Flows
<1> QED  BY <1>2, <1>3

\* The token stays where it is, or is given up.
LEMMA TokenKept ==
    ASSUME SMPInv, NEW t \in Thread, NEW x,
           thr'[t] = x, \A u \in Thread : u # t => thr'[u] = thr[u],
           Holds(HostOf(t), x) => Holds(HostOf(t), thr[t]),
           \A h \in Host : \A p \in net'[h] : Carries(h, p) => p \in net[h],
           \/ sess'["pri"].rekey = sess["pri"].rekey
           \/ Holds(HostOf(t), thr[t]) /\ ~Holds(HostOf(t), x)
    PROVE  OneToken' /\ Flagged'
<1>1. \A u \in Thread : Holds(HostOf(u), thr'[u]) => Holds(HostOf(u), thr[u])
  OBVIOUS
<1>2. OneToken'
  BY <1>1 DEF SMPInv, OneToken
<1>3. CASE sess'["pri"].rekey = sess["pri"].rekey
  <2>1. Flagged'
    BY <1>1, <1>3 DEF SMPInv, Flagged
  <2> QED  BY <1>2, <2>1
<1>4. CASE Holds(HostOf(t), thr[t]) /\ ~Holds(HostOf(t), x)
  <2>1. \A u \in Thread : ~Holds(HostOf(u), thr'[u])
    BY <1>1, <1>4 DEF SMPInv, OneToken
  <2>2. \A h \in Host : \A p \in net'[h] : ~Carries(h, p)
    BY <1>4 DEF SMPInv, OneToken
  <2> QED  BY <1>2, <2>1, <2>2 DEF Flagged
<1> QED  BY <1>3, <1>4

\* A step that sends and receives nothing and takes no number.
LEMMA LocalStep ==
    ASSUME SMPInv, NEW t \in Thread, NEW x \in Locals,
           thr' = [thr EXCEPT ![t] = x], Flow(HostOf(t), x),
           Undisturbed(HostOf(t)) => Sealed(sess[HostOf(t)], x),
           Holds(HostOf(t), x) => Holds(HostOf(t), thr[t]),
           net' = net, used' \in [Host -> Nat], sess' \in [Host -> Sessions],
           slock' \in [Host -> Thread \cup {NoThread}],
           \A g \in Host : /\ sess'[g].sseq = sess[g].sseq
                           /\ NoKey \notin CtxKeys(sess'[g].ctx1),
           \/ sess'["pri"].rekey = sess["pri"].rekey
           \/ Holds(HostOf(t), thr[t]) /\ ~Holds(HostOf(t), x)
    PROVE  SMPInv'
<1>1. /\ thr' \in [Thread -> Locals] /\ thr'[t] = x
      /\ \A u \in Thread : u # t => thr'[u] = thr[u]
      /\ Flows'
  BY OneMoves
<1>2. SMPTypeOK'
  BY <1>1 DEF SMPInv, SMPTypeOK, TypeOK
<1>3. OneToken' /\ Flagged'
  BY <1>1, TokenKept
<1>4. FromSecondary' /\ NetSealed' /\ Current'
  BY DEF SMPInv, FromSecondary, NetSealed, Current, Undisturbed, OneOnSecondary
<1>5. Sealing'
  <2> SUFFICES ASSUME NEW u \in Thread, Undisturbed(HostOf(u))
               PROVE  Sealed(sess'[HostOf(u)], thr'[u])
    BY DEF Sealing, Undisturbed, OneOnSecondary
  <2>1. sess'[HostOf(u)].sseq = sess[HostOf(u)].sseq
    BY ThreadHost
  <2>2. Sealed(sess[HostOf(u)], thr'[u])
    BY <1>1 DEF SMPInv, Sealing
  <2> QED  BY <2>1, <2>2 DEF Sealed
<1> QED  BY <1>1, <1>2, <1>3, <1>4, <1>5 DEF SMPInv

\* The same, when the session is not changed either.
LEMMA ThreadOnly ==
    ASSUME SMPInv, NEW t \in Thread, NEW x \in Locals,
           thr' = [thr EXCEPT ![t] = x], Flow(HostOf(t), x),
           Undisturbed(HostOf(t)) => Sealed(sess[HostOf(t)], x),
           Holds(HostOf(t), x) => Holds(HostOf(t), thr[t]),
           UNCHANGED <<sess, net, used>>,
           slock' \in [Host -> Thread \cup {NoThread}]
    PROVE  SMPInv'
<1>1. sess \in [Host -> Sessions] /\ used \in [Host -> Nat] /\ Current
  BY DEF SMPInv, SMPTypeOK, TypeOK
<1> QED  BY <1>1, LocalStep DEF Current

-----------------------------------------------------------------------------
(* The handlers' local variables                                            *)

\* A handler that is not running holds no message.
LEMMA IdleType ==
    /\ NoPacket \in Packet /\ NoPacket.msg.type = "DATA"
    /\ Idle \in Locals /\ Idle.pc = "idle" /\ Idle.job = "none" /\ ~Idle.sent
    /\ Idle.pkt = NoPacket /\ Idle.out = NoPacket
    /\ \A h \in Host : Flow(h, Idle) /\ ~Holds(h, Idle)
    /\ \A r : Sealed(r, Idle)
<1>1. NoPacket \in Packet /\ NoPacket.msg.type = "DATA"
  BY SeqAssumption DEF NoPacket, Packet, Seqs, KeyOrNone, DataMsg, Message
<1>2. InitSession \in Sessions
  BY KeyAssumption, SeqAssumption DEF InitSession, Sessions, Seqs, KeyPair,
     Contexts, KeyOrNone, NoContexts, CtxOf
<1>3. /\ Idle \in Locals /\ Idle.pc = "idle" /\ Idle.job = "none" /\ ~Idle.sent
      /\ Idle.pkt = NoPacket /\ Idle.out = NoPacket
  BY <1>1, <1>2, SeqAssumption DEF Idle, Locals, Pcs, Seqs
<1>4. \A h \in Host : Flow(h, Idle) /\ ~Holds(h, Idle)
  BY <1>1, <1>3 DEF Flow, Holds, Sending, Starting
<1>5. \A r : Sealed(r, Idle)
  BY <1>3 DEF Sealed
<1> QED  BY <1>1, <1>3, <1>4, <1>5

\* Nor does one that begins with a packet to be sent.
LEMMA BeginType ==
    ASSUME SMPInv, NEW h \in Host, NEW pc \in Pcs
    PROVE  /\ Begin(h, pc) \in Locals /\ Begin(h, pc).pc = pc
           /\ Begin(h, pc).job = "none" /\ ~Begin(h, pc).sent
           /\ Begin(h, pc).pkt = NoPacket
<1>1. [sess |-> sess[h], used |-> used[h]] \in [sess : Sessions, used : Nat]
  BY DEF SMPInv, SMPTypeOK, TypeOK
<1> QED  BY <1>1, IdleType DEF Begin, Locals

\* What holds of a thread before its step.
LEMMA Before ==
    ASSUME SMPInv, NEW t \in Thread
    PROVE  /\ thr[t] \in Locals /\ thr \in [Thread -> Locals]
           /\ sess[HostOf(t)] \in Sessions /\ HostOf(t) \in Host
           /\ Flow(HostOf(t), thr[t])
           /\ Undisturbed(HostOf(t)) => Sealed(sess[HostOf(t)], thr[t])
           /\ NoKey \notin CtxKeys(sess[HostOf(t)].ctx1)
           /\ slock \in [Host -> Thread \cup {NoThread}]
BY ThreadHost DEF SMPInv, SMPTypeOK, TypeOK, Flows, Sealing, Current

\* p3lock gives the lock to the thread.
LEMMA LockType ==
    ASSUME SMPInv, NEW t \in Thread, p3lock(t)
    PROVE  slock' \in [Host -> Thread \cup {NoThread}]
BY ThreadHost DEF SMPInv, SMPTypeOK, p3lock

-----------------------------------------------------------------------------
(* Steps that concern the thread alone                                      *)

\* p3_lookup of a packet to be sent.
LEMMA LookupStep ==
    ASSUME SMPInv, NEW t \in Thread, Lookup(t)
    PROVE  SMPInv'
<1> DEFINE h == HostOf(t)
           x == Begin(h, IF h = "pri" /\ RekeyDue(sess[h]) THEN "build" ELSE "take")
<1>1. thr' = [thr EXCEPT ![t] = x] /\ UNCHANGED <<sess, net, used, slock>>
  BY DEF Lookup
<1>2. /\ x \in Locals /\ x.pc \in {"build", "take"} /\ (x.pc = "build" => h = "pri")
      /\ x.job = "none" /\ ~x.sent /\ x.pkt = NoPacket
  BY Before, BeginType DEF Pcs
<1> HIDE DEF x
<1>3. Flow(h, x) /\ ~Holds(h, x) /\ Sealed(sess[h], x)
  BY <1>2, IdleType DEF Flow, Holds, Sealed, Sending, Starting
<1> QED  BY <1>1, <1>2, <1>3, Before, ThreadOnly

\* A thread that goes to another point of its code.
LEMMA GotoType ==
    ASSUME SMPInv, NEW t \in Thread, NEW pc \in Pcs, Goto(t, pc)
    PROVE  \E x \in Locals :
             /\ thr' = [thr EXCEPT ![t] = x]
             /\ x.pc = pc /\ x.job = thr[t].job /\ x.pkt = thr[t].pkt
             /\ x.sent = thr[t].sent /\ x.out = thr[t].out /\ x.iv = thr[t].iv
<1> DEFINE x == [thr[t] EXCEPT !.pc = pc]
<1>1. thr' = [thr EXCEPT ![t] = x]
  BY DEF Goto
<1>2. /\ x \in Locals /\ x.pc = pc /\ x.job = thr[t].job /\ x.pkt = thr[t].pkt
      /\ x.sent = thr[t].sent /\ x.out = thr[t].out /\ x.iv = thr[t].iv
  BY Before DEF Locals
<1> QED  BY <1>1, <1>2

\* A handler that returns.
LEMMA ReturnStep ==
    ASSUME SMPInv, NEW t \in Thread, Return(t), UNCHANGED <<sess, net, used>>,
           slock' \in [Host -> Thread \cup {NoThread}]
    PROVE  SMPInv'
<1>1. thr' = [thr EXCEPT ![t] = Idle]
  BY DEF Return
<1> QED  BY <1>1, Before, IdleType, ThreadOnly

\* The first encryption of p3send_control.
LEMMA EncryptControlStep ==
    ASSUME SMPInv, NEW t \in Thread, EncryptControl(t)
    PROVE  SMPInv'
<1> DEFINE h == HostOf(t)
           s == sess[h]
           o == [thr[t].out EXCEPT !.ck = s.ctx1.ce]
           x == [thr[t] EXCEPT !.pc = "header", !.iv = s.sseq, !.out = o]
<1>1. /\ thr' = [thr EXCEPT ![t] = x] /\ UNCHANGED <<sess, net, used, slock>>
      /\ thr[t].pc = "control"
  BY Before DEF EncryptControl, At, Locals
<1>2. o \in Packet /\ o.msg = thr[t].out.msg /\ o.ck # NoKey
  BY Before DEF Locals, Packet, Sessions, Contexts, CtxKeys
<1> HIDE DEF o
<1>3. /\ x \in Locals /\ x.pc = "header" /\ x.job = thr[t].job /\ x.pkt = thr[t].pkt
      /\ x.sent = thr[t].sent /\ x.out = o /\ x.iv = s.sseq
  <2>1. thr[t] \in Locals /\ sess[h] \in Sessions
    BY Before
  <2> QED  BY <1>2, <2>1 DEF Locals, Pcs, Sessions
<1> HIDE DEF x
<1>4. Flow(h, x)
  BY <1>1, <1>2, <1>3, Before DEF Flow, Sending
<1>5. Holds(h, x) => Holds(h, thr[t])
  BY <1>1, <1>3 DEF Holds, Starting, Sending
<1>6. Sealed(s, x)
  BY <1>2, <1>3 DEF Sealed
<1> QED  BY <1>1, <1>3, <1>4, <1>5, <1>6, Before, ThreadOnly

\* The header of the control packet.
LEMMA BuildHeaderStep ==
    ASSUME SMPInv, NEW t \in Thread, BuildHeader(t)
    PROVE  SMPInv'
<1> DEFINE h == HostOf(t)
           s == sess[h]
           o == [thr[t].out EXCEPT !.seq = s.sseq,
                                   !.ck = IF s.sseq = thr[t].iv THEN @ ELSE NoKey]
           x == [thr[t] EXCEPT !.pc = "packet", !.out = o]
<1>1. /\ thr' = [thr EXCEPT ![t] = x] /\ UNCHANGED <<sess, net, used, slock>>
      /\ thr[t].pc = "header"
  <2> DEFINE y == [thr[t] EXCEPT !.pc = "packet", !.out.seq = s.sseq,
                                 !.out.ck = IF s.sseq = thr[t].iv THEN @ ELSE NoKey]
  <2>1. /\ thr' = [thr EXCEPT ![t] = y]
        /\ UNCHANGED <<sess, net, used, slock>> /\ thr[t].pc = "header"
    BY Before DEF BuildHeader, At
  <2>2. y = x
    <3>1. thr[t] \in Locals /\ thr[t].out \in Packet
      BY Before DEF Locals
    <3> HIDE DEF s
    <3> QED  BY <3>1 DEF Locals, Packet
  <2> HIDE DEF x, y
  <2> QED  BY <2>1, <2>2
<1>2. /\ o \in Packet /\ o.msg = thr[t].out.msg /\ o.seq = s.sseq
      /\ o.ck = IF s.sseq = thr[t].iv THEN thr[t].out.ck ELSE NoKey
  <2>1. thr[t].out \in Packet /\ s.sseq \in Seqs
    BY Before DEF Locals, Sessions
  <2> HIDE DEF s
  <2> QED  BY <2>1 DEF Packet, KeyOrNone
<1> HIDE DEF o
<1>3. /\ x \in Locals /\ x.pc = "packet" /\ x.job = thr[t].job /\ x.pkt = thr[t].pkt
      /\ x.sent = thr[t].sent /\ x.out = o
  <2>1. thr[t] \in Locals
    BY Before
  <2> QED  BY <1>2, <2>1 DEF Locals, Pcs
<1> HIDE DEF x
<1>4. Flow(h, x)
  BY <1>1, <1>2, <1>3, Before DEF Flow, Sending
<1>5. Holds(h, x) => Holds(h, thr[t])
  BY <1>1, <1>3 DEF Holds, Starting, Sending
<1>6. Undisturbed(h) => Sealed(s, x)
  BY <1>1, <1>2, <1>3, Before DEF Sealed
<1> QED  BY <1>1, <1>3, <1>4, <1>5, <1>6, Before, ThreadOnly

\* The encryption of the control packet.
LEMMA EncryptPacketStep ==
    ASSUME SMPInv, NEW t \in Thread, EncryptPacket(t)
    PROVE  SMPInv'
<1> DEFINE h == HostOf(t)
           s == sess[h]
           o == [thr[t].out EXCEPT !.dk = IF s.sseq = thr[t].out.seq THEN s.ctx1.de
                                          ELSE NoKey]
           x == [thr[t] EXCEPT !.pc = "number", !.out = o]
<1>1. /\ thr' = [thr EXCEPT ![t] = x] /\ UNCHANGED <<sess, net, used, slock>>
      /\ thr[t].pc = "packet"
  BY Before DEF EncryptPacket, At, Locals
<1>2. /\ o \in Packet /\ o.msg = thr[t].out.msg /\ o.ck = thr[t].out.ck
      /\ s.sseq = thr[t].out.seq => o.dk # NoKey
  <2>1. s.ctx1.de \in KeyOrNone /\ s.ctx1.de # NoKey
    BY Before DEF Sessions, Contexts, CtxKeys
  <2>2. thr[t].out \in Packet
    BY Before DEF Locals
  <2> HIDE DEF s
  <2> QED  BY <2>1, <2>2 DEF Packet, KeyOrNone
<1> HIDE DEF o
<1>3. /\ x \in Locals /\ x.pc = "number" /\ x.job = thr[t].job /\ x.pkt = thr[t].pkt
      /\ x.sent = thr[t].sent /\ x.out = o
  <2>1. thr[t] \in Locals
    BY Before
  <2> QED  BY <1>2, <2>1 DEF Locals, Pcs
<1> HIDE DEF x
<1>4. Flow(h, x)
  BY <1>1, <1>2, <1>3, Before DEF Flow, Sending
<1>5. Holds(h, x) => Holds(h, thr[t])
  BY <1>1, <1>3 DEF Holds, Starting, Sending
<1>6. Undisturbed(h) => Sealed(s, x)
  BY <1>1, <1>2, <1>3, Before DEF Sealed
<1> QED  BY <1>1, <1>3, <1>4, <1>5, <1>6, Before, ThreadOnly

\* p3send_control fails.
LEMMA SendFailsStep ==
    ASSUME SMPInv, NEW t \in Thread, SendFails(t)
    PROVE  SMPInv'
<1> DEFINE h == HostOf(t)
<1>1. /\ thr[t].pc \in {"control", "packet", "send"} /\ UNCHANGED <<sess, net, used, slock>>
      /\ Goto(t, IF thr[t].job = "replace" THEN "giveup" ELSE "clear")
  BY DEF SendFails, At
<1>2. PICK x \in Locals :
        /\ thr' = [thr EXCEPT ![t] = x] /\ x.job = thr[t].job /\ x.pkt = thr[t].pkt
        /\ x.pc = (IF thr[t].job = "replace" THEN "giveup" ELSE "clear")
        /\ x.sent = thr[t].sent
  BY <1>1, GotoType DEF Pcs
<1>3. Flow(h, x)
  BY <1>1, <1>2, Before DEF Flow, Sending, Host
<1>4. Holds(h, x) => Holds(h, thr[t])
  BY <1>1, <1>2 DEF Holds, Starting, Sending
<1>5. Sealed(sess[h], x)
  BY <1>2 DEF Sealed
<1> QED  BY <1>1, <1>2, <1>3, <1>4, <1>5, Before, ThreadOnly

\* A received packet is decrypted, and its message.
LEMMA DecryptStep ==
    ASSUME SMPInv, NEW t \in Thread, Decrypt(t) \/ DecryptGarbled(t)
    PROVE  SMPInv'
<1> DEFINE h == HostOf(t)
<1>1. /\ UNCHANGED <<sess, net, used, slock>>
      /\ \/ Return(t)
         \/ thr[t].pc = "decrypt" /\ thr[t].pkt.msg.type # "DATA" /\ Goto(t, "message")
         \/ thr[t].pc = "message" /\ Goto(t, "giveup")
  BY DEF Decrypt, DecryptGarbled, At
<1>2. CASE Return(t)
  BY <1>1, <1>2, Before, ReturnStep
<1>3. ASSUME NEW pc \in {"message", "giveup"}, Goto(t, pc),
             \/ thr[t].pc = "decrypt" /\ thr[t].pkt.msg.type # "DATA" /\ pc = "message"
             \/ thr[t].pc = "message" /\ pc = "giveup"
      PROVE  SMPInv'
  <2>1. PICK x \in Locals :
          /\ thr' = [thr EXCEPT ![t] = x] /\ x.job = thr[t].job /\ x.pkt = thr[t].pkt
          /\ x.pc = pc /\ x.sent = thr[t].sent
    BY <1>3, GotoType DEF Pcs
  <2>2. Flow(h, x)
    BY <1>3, <2>1, Before DEF Flow, Sending
  <2>3. Holds(h, x) => Holds(h, thr[t])
    BY <1>3, <2>1 DEF Holds, Starting, Sending
  <2>4. Sealed(sess[h], x)
    BY <2>1 DEF Sealed
  <2> QED  BY <1>1, <2>1, <2>2, <2>3, <2>4, Before, ThreadOnly
<1> QED  BY <1>1, <1>2, <1>3

\* REKEY is recognised.
LEMMA DecryptRekeyStep ==
    ASSUME SMPInv, NEW t \in Thread, DecryptRekey(t)
    PROVE  SMPInv'
<1> DEFINE h == HostOf(t)
           n == IF thr[t].pkt.msg.err THEN "clear"
                ELSE IF h = "pri" THEN "announce" ELSE "switch"
           x == [thr[t] EXCEPT !.job = "rekey", !.pc = n]
<1>1. /\ thr' = [thr EXCEPT ![t] = x] /\ UNCHANGED <<sess, net, used, slock>>
      /\ thr[t].pc = "message" /\ thr[t].pkt.msg.type = "REKEY"
  BY Before DEF DecryptRekey, At, Locals
<1>2. n \in {"clear", "announce", "switch"} /\ (n = "announce" => h = "pri")
  OBVIOUS
<1> HIDE DEF n
<1>3. /\ x \in Locals /\ x.pc = n /\ x.job = "rekey" /\ x.pkt = thr[t].pkt
      /\ x.sent = thr[t].sent
  <2>1. thr[t] \in Locals
    BY Before
  <2> QED  BY <1>2, <2>1 DEF Locals, Pcs
<1> HIDE DEF x
<1>4. Flow(h, x)
  BY <1>1, <1>2, <1>3, Before DEF Flow, Sending
<1>5. Holds(h, x) => Holds(h, thr[t])
  BY <1>1, <1>3 DEF Holds
<1>6. Sealed(sess[h], x)
  BY <1>2, <1>3 DEF Sealed
<1> QED  BY <1>1, <1>3, <1>4, <1>5, <1>6, Before, ThreadOnly

\* The answer is filled in.
LEMMA AnnounceStep ==
    ASSUME SMPInv, NEW t \in Thread, Announce(t)
    PROVE  SMPInv'
<1> DEFINE h == HostOf(t)
           m == RekeyMsg(SuccSeq(sess[h].sseq), RekeyError(t))
           o == [thr[t].out EXCEPT !.msg = m]
           x == [thr[t] EXCEPT !.pc = "control", !.out = o]
<1>1. /\ thr' = [thr EXCEPT ![t] = x] /\ UNCHANGED <<sess, net, used, slock>>
      /\ thr[t].pc = "announce"
  BY Before DEF Announce, At, Locals
<1>2. m \in Message /\ m.type = "REKEY"
  <2>1. SuccSeq(sess[h].sseq) \in Seqs
    BY Before, SuccSeqType DEF Sessions
  <2>2. RekeyError(t) \in BOOLEAN
    BY DEF RekeyError
  <2> QED  BY <2>1, <2>2, RekeyMsgType
<1> HIDE DEF m
<1>3. o \in Packet /\ o.msg = m
  BY <1>2, Before DEF Locals, Packet
<1> HIDE DEF o
<1>4. /\ x \in Locals /\ x.pc = "control" /\ x.job = thr[t].job /\ x.pkt = thr[t].pkt
      /\ x.sent = thr[t].sent /\ x.out = o
  <2>1. thr[t] \in Locals
    BY Before
  <2> QED  BY <1>3, <2>1 DEF Locals, Pcs
<1> HIDE DEF x
<1>5. Flow(h, x)
  BY <1>1, <1>2, <1>3, <1>4, Before DEF Flow, Sending
<1>6. Holds(h, x) => Holds(h, thr[t])
  BY <1>1, <1>4, Before DEF Holds, Flow, Host
<1>7. Sealed(sess[h], x)
  BY <1>4 DEF Sealed
<1> QED  BY <1>1, <1>4, <1>5, <1>6, <1>7, Before, ThreadOnly

-----------------------------------------------------------------------------
(* Steps that write the session                                             *)

\* The other host's session is as it was.
LEMMA SessionWritten ==
    ASSUME SMPInv, NEW h \in Host, NEW s \in Sessions, sess' = [sess EXCEPT ![h] = s],
           s.sseq = sess[h].sseq, NoKey \notin CtxKeys(s.ctx1)
    PROVE  /\ sess' \in [Host -> Sessions] /\ sess'[h] = s
           /\ \A g \in Host : /\ sess'[g].sseq = sess[g].sseq
                              /\ NoKey \notin CtxKeys(sess'[g].ctx1)
           /\ (h = "sec" \/ s.rekey = sess["pri"].rekey)
                => sess'["pri"].rekey = sess["pri"].rekey
<1>1. sess \in [Host -> Sessions] /\ Current
  BY DEF SMPInv, SMPTypeOK, TypeOK
<1> QED  BY <1>1 DEF Current, Host

\* The new keys are chosen; or the message cannot be built.
LEMMA BuildNewKeysStep ==
    ASSUME SMPInv, NEW t \in Thread, BuildNewKeys(t)
    PROVE  SMPInv'
<1> DEFINE h == HostOf(t)
           s == sess["pri"]
<1>1. thr[t].pc = "build" /\ UNCHANGED <<net, used, slock>> /\ h = "pri" /\ s \in Sessions
  BY Before DEF BuildNewKeys, At, Flow
<1>2. PICK fresh \in Key \ HeldKeys, didx \in UseIndex, cidx \in UseIndex :
        \E dk \in GetKey(s.newkey.d, fresh), ck \in GetKey(s.newkey.c, fresh) :
          /\ sess' = [sess EXCEPT !["pri"] = NewKeys(s, dk, ck, didx, cidx)]
          /\ \/ thr' = [thr EXCEPT ![t].pc = "setrekey", ![t].job = "start",
                           ![t].out.msg = NewKeyMsg(dk, ck, didx, cidx)]
             \/ "sendfail" \in Env /\ Goto(t, "take")
  BY Zenon DEF BuildNewKeys
<1>3. PICK dk \in GetKey(s.newkey.d, fresh), ck \in GetKey(s.newkey.c, fresh) :
        /\ sess' = [sess EXCEPT !["pri"] = NewKeys(s, dk, ck, didx, cidx)]
        /\ \/ thr' = [thr EXCEPT ![t].pc = "setrekey", ![t].job = "start",
                         ![t].out.msg = NewKeyMsg(dk, ck, didx, cidx)]
           \/ "sendfail" \in Env /\ Goto(t, "take")
  BY <1>2, Zenon
<1> DEFINE n == NewKeys(s, dk, ck, didx, cidx)
           m == NewKeyMsg(dk, ck, didx, cidx)
<1>4. dk \in Key /\ ck \in Key
  BY <1>1 DEF GetKey, Sessions, KeyPair
<1>5. m \in Message
  BY <1>4, ReplaceMsgType DEF NewKeyMsg, KeyOrNone
<1>6. /\ n \in Sessions /\ n.sseq = s.sseq /\ n.rekey = s.rekey /\ n.ctx1 = s.ctx1
  <2>1. n \in Sessions
    BY <1>1, <1>4, NewKeysType
  <2> QED  BY <1>1, <2>1 DEF NewKeys, Sessions
<1> HIDE DEF n, m
<1>7. /\ sess' \in [Host -> Sessions]
      /\ \A g \in Host : /\ sess'[g].sseq = sess[g].sseq
                         /\ NoKey \notin CtxKeys(sess'[g].ctx1)
      /\ sess'["pri"].rekey = sess["pri"].rekey
  <2>1. sess' = [sess EXCEPT ![h] = n]
    BY <1>1, <1>3 DEF n
  <2>2. NoKey \notin CtxKeys(s.ctx1) /\ h \in Host
    BY <1>1, Before
  <2> QED  BY <1>1, <1>6, <2>1, <2>2, SessionWritten
<1>8. used' \in [Host -> Nat]
  BY <1>1 DEF SMPInv, SMPTypeOK, TypeOK
<1>9. CASE Goto(t, "take")
  <2>1. PICK x \in Locals :
          /\ thr' = [thr EXCEPT ![t] = x] /\ x.job = thr[t].job /\ x.pkt = thr[t].pkt
          /\ x.pc = "take" /\ x.sent = thr[t].sent
    BY <1>9, GotoType DEF Pcs
  <2>2. Flow(h, x)
    BY <1>1, <2>1, Before DEF Flow, Sending
  <2>3. Holds(h, x) => Holds(h, thr[t])
    BY <1>1, <2>1 DEF Holds, Starting, Sending
  <2>4. Sealed(sess[h], x)
    BY <2>1 DEF Sealed
  <2> QED  BY <1>1, <1>7, <1>8, <2>1, <2>2, <2>3, <2>4, Before, LocalStep
<1>10. CASE thr' = [thr EXCEPT ![t].pc = "setrekey", ![t].job = "start", ![t].out.msg = m]
  <2> DEFINE o == [thr[t].out EXCEPT !.msg = m]
             x == [thr[t] EXCEPT !.pc = "setrekey", !.job = "start", !.out = o]
  <2>1. thr' = [thr EXCEPT ![t] = x]
    BY <1>10, Before DEF Locals
  <2>2. o \in Packet
    BY <1>5, Before DEF Locals, Packet
  <2> HIDE DEF o
  <2>3. x \in Locals /\ x.pc = "setrekey" /\ x.job = "start" /\ x.pkt = thr[t].pkt
        /\ x.sent = thr[t].sent
    <3>1. thr[t] \in Locals
      BY Before
    <3> QED  BY <2>2, <3>1 DEF Locals, Pcs
  <2> HIDE DEF x
  <2>4. Flow(h, x)
    BY <1>1, <2>3, Before DEF Flow, Sending
  <2>5. Holds(h, x) => Holds(h, thr[t])
    BY <1>1, <2>3 DEF Holds, Starting, Sending
  <2>6. Sealed(sess[h], x)
    BY <2>3 DEF Sealed
  <2> QED  BY <1>1, <1>7, <1>8, <2>1, <2>3, <2>4, <2>5, <2>6, Before, LocalStep
<1> QED  BY <1>3, <1>9, <1>10 DEF m

\* replace_key notes the new keys.
LEMMA DecryptReplaceStep ==
    ASSUME SMPInv, NEW t \in Thread, DecryptReplace(t)
    PROVE  SMPInv'
<1> DEFINE h == HostOf(t)
           m == thr[t].pkt.msg
           n == NewKeys(sess["sec"], m.d, m.c, m.d = NoKey, m.c = NoKey)
           x == [thr[t] EXCEPT !.pc = "announce", !.job = "replace"]
<1>1. /\ thr' = [thr EXCEPT ![t] = x] /\ UNCHANGED <<net, used, slock>>
      /\ thr[t].pc = "message" /\ m.type = "REPLACE_KEY"
      /\ sess' = [sess EXCEPT !["sec"] = n]
  BY Before DEF DecryptReplace, At, Locals
<1>2. h = "sec" /\ sess["sec"] \in Sessions /\ NoKey \notin CtxKeys(sess["sec"].ctx1)
  BY <1>1, Before DEF Flow, Host
<1>3. m \in Message
  BY Before DEF Locals, Packet
<1>4. /\ n \in Sessions /\ n.sseq = sess["sec"].sseq /\ n.ctx1 = sess["sec"].ctx1
  <2>1. n \in Sessions
    BY <1>2, <1>3, NewKeysType DEF Message, KeyOrNone
  <2> QED  BY <1>2, <2>1 DEF NewKeys, Sessions
<1> HIDE DEF n
<1>5. /\ sess' \in [Host -> Sessions]
      /\ \A g \in Host : /\ sess'[g].sseq = sess[g].sseq
                         /\ NoKey \notin CtxKeys(sess'[g].ctx1)
      /\ sess'["pri"].rekey = sess["pri"].rekey
  BY <1>1, <1>2, <1>4, SessionWritten DEF Host
<1>6. used' \in [Host -> Nat]
  BY <1>1 DEF SMPInv, SMPTypeOK, TypeOK
<1>7. /\ x \in Locals /\ x.pc = "announce" /\ x.job = "replace" /\ x.pkt = thr[t].pkt
      /\ x.sent = thr[t].sent
  <2>1. thr[t] \in Locals
    BY Before
  <2> QED  BY <2>1 DEF Locals, Pcs
<1> HIDE DEF x
<1>8. Flow(h, x)
  BY <1>1, <1>2, <1>7, Before DEF Flow, Sending
<1>9. Holds(h, x) => Holds(h, thr[t])
  BY <1>1, <1>2, <1>7 DEF Holds
<1>10. Sealed(sess[h], x)
  BY <1>7 DEF Sealed
<1> QED  BY <1>1, <1>5, <1>6, <1>7, <1>8, <1>9, <1>10, Before, LocalStep

\* A step of rekey_session after the answer has left.
LEMMA SwitchStepSMP ==
    ASSUME SMPInv, NEW t \in Thread, SwitchContexts(t) \/ SetRID0(t) \/ SetRID1(t)
    PROVE  SMPInv'
<1> DEFINE h == HostOf(t)
           s == sess[h]
<1>1. PICK n, pc :
        /\ sess' = [sess EXCEPT ![h] = n] /\ pc \in {"rID0", "rID1", "clear"}
        /\ Goto(t, pc) /\ net' = net /\ slock' = slock /\ used' \in [Host -> Nat]
        /\ thr[t].pc \in {"switch", "rID0", "rID1"}
        /\ n \in Sessions /\ n.sseq = s.sseq /\ n.rekey = s.rekey
        /\ NoKey \notin CtxKeys(n.ctx1)
  <2>1. CASE SwitchContexts(t)
    <3>1. PICK made \in Created : sess' = [sess EXCEPT ![h] = p3_rekey(s, made)]
      BY <2>1 DEF SwitchContexts
    <3> DEFINE new == [de |-> IF made >= 1 THEN s.newkey.d ELSE s.ctx1.de,
                       dd |-> IF made >= 2 THEN s.newkey.d ELSE s.ctx1.dd,
                       ce |-> IF made >= 3 THEN s.newkey.c ELSE s.ctx1.ce,
                       cd |-> IF made >= 4 THEN s.newkey.c ELSE s.ctx1.cd]
               n == [s EXCEPT !.ctx0 = s.ctx1, !.ctx1 = new]
    <3>2. p3_rekey(s, made) = n
      BY DEF p3_rekey
    <3>3. s \in Sessions /\ s.newkey \in KeyPair /\ s.ctx1 \in Contexts
      BY Before DEF Sessions
    <3>4. new \in Contexts /\ NoKey \notin CtxKeys(new)
      <4>1. NoKey \notin {s.newkey.d, s.newkey.c} /\ {s.newkey.d, s.newkey.c} \subseteq Key
        BY <3>3, KeyAssumption DEF KeyPair
      <4>2. NoKey \notin {s.ctx1.de, s.ctx1.dd, s.ctx1.ce, s.ctx1.cd}
        BY Before DEF CtxKeys
      <4> QED  BY <3>3, <4>1, <4>2 DEF Contexts, KeyOrNone, CtxKeys
    <3> HIDE DEF new
    <3>5. n \in Sessions /\ n.sseq = s.sseq /\ n.rekey = s.rekey /\ n.ctx1 = new
      BY <3>3, <3>4 DEF Sessions
    <3>6. Goto(t, "rID0") /\ net' = net /\ slock' = slock /\ thr[t].pc = "switch"
      BY <2>1 DEF SwitchContexts, At
    <3>7. used' \in [Host -> Nat]
      BY <2>1 DEF SwitchContexts, SMPInv, SMPTypeOK, TypeOK
    <3> QED  BY <3>1, <3>2, <3>4, <3>5, <3>6, <3>7
  <2>2. CASE SetRID0(t)
    <3> DEFINE n == [s EXCEPT !.rID0 = s.rID1]
    <3>1. sess' = [sess EXCEPT ![h] = n] /\ used' = used
          /\ Goto(t, "rID1") /\ net' = net /\ slock' = slock /\ thr[t].pc = "rID0"
      BY <2>2, Before DEF SetRID0, At
    <3>2. n \in Sessions /\ n.sseq = s.sseq /\ n.rekey = s.rekey /\ n.ctx1 = s.ctx1
      BY Before DEF Sessions
    <3>3. used \in [Host -> Nat]
      BY DEF SMPInv, SMPTypeOK, TypeOK
    <3> QED  BY <3>1, <3>2, <3>3, Before
  <2>3. CASE SetRID1(t)
    <3> DEFINE n == [s EXCEPT !.rID1 = thr[t].pkt.msg.num]
    <3>1. sess' = [sess EXCEPT ![h] = n] /\ used' = used
          /\ Goto(t, "clear") /\ net' = net /\ slock' = slock /\ thr[t].pc = "rID1"
      BY <2>3, Before DEF SetRID1, At
    <3>2. thr[t].pkt.msg.num \in Seqs
      BY Before DEF Locals, Packet, Message
    <3>3. n \in Sessions /\ n.sseq = s.sseq /\ n.rekey = s.rekey /\ n.ctx1 = s.ctx1
      BY <3>2, Before DEF Sessions
    <3>4. used \in [Host -> Nat]
      BY DEF SMPInv, SMPTypeOK, TypeOK
    <3> QED  BY <3>1, <3>3, <3>4, Before
  <2> QED  BY <2>1, <2>2, <2>3
<1>2. /\ sess' \in [Host -> Sessions]
      /\ \A g \in Host : /\ sess'[g].sseq = sess[g].sseq
                         /\ NoKey \notin CtxKeys(sess'[g].ctx1)
      /\ sess'["pri"].rekey = sess["pri"].rekey
  BY <1>1, Before, SessionWritten DEF Host
<1>3. PICK x \in Locals :
        /\ thr' = [thr EXCEPT ![t] = x] /\ x.job = thr[t].job /\ x.pkt = thr[t].pkt
        /\ x.pc = pc /\ x.sent = thr[t].sent
  BY <1>1, GotoType DEF Pcs
<1>4. Flow(h, x)
  BY <1>1, <1>3, Before DEF Flow, Sending
<1>5. Holds(h, x) => Holds(h, thr[t])
  BY <1>1, <1>3, Before DEF Holds, Flow
<1>6. Sealed(sess[h], x)
  BY <1>1, <1>3 DEF Sealed
<1> QED  BY <1>1, <1>2, <1>3, <1>4, <1>5, <1>6, Before, LocalStep

\* Writing the Rekey flag.
LEMMA SetRekeyType ==
    ASSUME SMPInv, NEW h \in Host, NEW flag \in BOOLEAN, SetRekey(h, flag)
    PROVE  /\ sess' \in [Host -> Sessions]
           /\ \A g \in Host : /\ sess'[g].sseq = sess[g].sseq
                              /\ NoKey \notin CtxKeys(sess'[g].ctx1)
           /\ h = "sec" => sess'["pri"].rekey = sess["pri"].rekey
           /\ sess'[h].rekey = flag
<1> DEFINE n == [sess[h] EXCEPT !.rekey = flag]
<1>1. sess[h] \in Sessions /\ NoKey \notin CtxKeys(sess[h].ctx1)
  BY DEF SMPInv, SMPTypeOK, TypeOK, Current
<1>2. sess' = [sess EXCEPT ![h] = n]
  BY DEF SetRekey
<1>3. /\ n \in Sessions /\ n.sseq = sess[h].sseq /\ n.ctx1 = sess[h].ctx1 /\ n.rekey = flag
  BY <1>1 DEF Sessions
<1> HIDE DEF n
<1> QED  BY <1>1, <1>2, <1>3, SessionWritten

\* The secondary holds back its data.
LEMMA HoldStep ==
    ASSUME SMPInv, NEW t \in Thread, Hold(t)
    PROVE  SMPInv'
<1> DEFINE h == HostOf(t)
<1>1. /\ thr[t].pc = "hold" /\ p3lock(t) /\ SetRekey("sec", TRUE) /\ net' = net
      /\ used' = used /\ (Return(t) \/ Goto(t, "giveup"))
  BY DEF Hold, At
<1>2. /\ sess' \in [Host -> Sessions]
      /\ \A g \in Host : /\ sess'[g].sseq = sess[g].sseq
                         /\ NoKey \notin CtxKeys(sess'[g].ctx1)
      /\ sess'["pri"].rekey = sess["pri"].rekey
  BY <1>1, SetRekeyType DEF Host
<1>3. used' \in [Host -> Nat]
  BY <1>1 DEF SMPInv, SMPTypeOK, TypeOK
<1>4. PICK x \in Locals :
        /\ thr' = [thr EXCEPT ![t] = x]
        /\ \/ x = Idle
           \/ /\ x.pc = "giveup" /\ x.job = thr[t].job /\ x.pkt = thr[t].pkt
              /\ x.sent = thr[t].sent
  BY <1>1, GotoType, IdleType DEF Return, Pcs
<1>5. Flow(h, x)
  BY <1>1, <1>4, Before, IdleType DEF Flow, Sending
<1>6. Holds(h, x) => Holds(h, thr[t])
  BY <1>1, <1>4, Before, IdleType DEF Holds, Starting, Sending
<1>7. Sealed(sess[h], x)
  BY <1>4, IdleType DEF Sealed
<1> QED  BY <1>1, <1>2, <1>3, <1>4, <1>5, <1>6, <1>7, Before, LockType, LocalStep

\* Who clears the primary's flag has the token, and gives it up.
LEMMA ClearStep ==
    ASSUME SMPInv, NEW t \in Thread, ClearRekey(t) \/ GiveUp(t)
    PROVE  SMPInv'
<1> DEFINE h == HostOf(t)
<1>1. /\ thr[t].pc \in {"clear", "giveup"} /\ SetRekey(h, FALSE) /\ net' = net /\ used' = used
      /\ \/ Return(t)
         \/ thr[t].pc = "clear" /\ thr[t].job = "start" /\ Goto(t, "take")
      /\ slock' = slock \/ p3lock(t)
  BY DEF ClearRekey, GiveUp, At
<1>2. /\ sess' \in [Host -> Sessions]
      /\ \A g \in Host : /\ sess'[g].sseq = sess[g].sseq
                         /\ NoKey \notin CtxKeys(sess'[g].ctx1)
      /\ h = "sec" => sess'["pri"].rekey = sess["pri"].rekey
  BY <1>1, Before, SetRekeyType
<1>3. used' \in [Host -> Nat]
  BY <1>1 DEF SMPInv, SMPTypeOK, TypeOK
<1>4. slock' \in [Host -> Thread \cup {NoThread}]
  BY <1>1, Before, LockType
<1>5. PICK x \in Locals :
        /\ thr' = [thr EXCEPT ![t] = x]
        /\ \/ x = Idle
           \/ /\ thr[t].pc = "clear" /\ thr[t].job = "start"
              /\ x.pc = "take" /\ x.job = thr[t].job /\ x.pkt = thr[t].pkt
              /\ x.sent = thr[t].sent
  BY <1>1, GotoType, IdleType DEF Return, Pcs
<1>6. Flow(h, x)
  BY <1>5, Before, IdleType DEF Flow, Sending
<1>7. Sealed(sess[h], x)
  BY <1>5, IdleType DEF Sealed
<1>8. CASE x = Idle
  <2>1. ~Holds(h, x)
    BY <1>8, Before, IdleType
  <2>2. h = "pri" => Holds(h, thr[t])
    BY <1>1, Before DEF Holds, Flow, Starting, Packet, Message, Locals
  <2>3. \/ sess'["pri"].rekey = sess["pri"].rekey
        \/ Holds(HostOf(t), thr[t]) /\ ~Holds(HostOf(t), x)
    BY <1>2, <2>1, <2>2, Before DEF Host
  <2> QED  BY <1>1, <1>2, <1>3, <1>4, <1>5, <1>6, <1>7, <2>1, <2>3, LocalStep
<1>9. CASE x # Idle
  <2>1. /\ x.pc = "take" /\ x.job = "start" /\ x.pkt = thr[t].pkt
        /\ thr[t].pc = "clear" /\ thr[t].job = "start" /\ h = "pri"
    BY <1>5, <1>9, Before DEF Flow
  <2>2. Holds(h, thr[t])
    BY <2>1 DEF Holds, Starting
  <2>3. ~Holds(h, x)
    BY <2>1, Before DEF Holds, Flow, Starting, Sending
  <2> QED  BY <1>1, <1>2, <1>3, <1>4, <1>5, <1>6, <1>7, <2>2, <2>3, LocalStep
<1> QED  BY <1>8, <1>9

\* "Only set the Rekey flag once": the thread that sets it gets the token,
\* which nobody had.
LEMMA SetRekeyFlagStep ==
    ASSUME SMPInv, NEW t \in Thread, SetRekeyFlag(t)
    PROVE  SMPInv'
<1> DEFINE h == HostOf(t)
<1>1. /\ thr[t].pc = "setrekey" /\ p3lock(t) /\ net' = net /\ used' = used
      /\ \/ Goto(t, "take") /\ sess' = sess
         \/ ~sess["pri"].rekey /\ Goto(t, "control") /\ SetRekey("pri", TRUE)
  BY DEF SetRekeyFlag, At
<1>2. slock' \in [Host -> Thread \cup {NoThread}]
  BY <1>1, LockType
<1>3. CASE Goto(t, "take") /\ sess' = sess
  <2>1. PICK x \in Locals :
          /\ thr' = [thr EXCEPT ![t] = x] /\ x.job = thr[t].job /\ x.pkt = thr[t].pkt
          /\ x.pc = "take" /\ x.sent = thr[t].sent
    BY <1>3, GotoType DEF Pcs
  <2>2. Flow(h, x)
    BY <1>1, <2>1, Before DEF Flow, Sending
  <2>3. Holds(h, x) => Holds(h, thr[t])
    BY <1>1, <2>1 DEF Holds, Starting, Sending
  <2>4. Sealed(sess[h], x)
    BY <2>1 DEF Sealed
  <2> QED  BY <1>1, <1>2, <1>3, <2>1, <2>2, <2>3, <2>4, ThreadOnly
<1>4. CASE ~sess["pri"].rekey /\ Goto(t, "control") /\ SetRekey("pri", TRUE)
  <2>1. PICK x \in Locals :
          /\ thr' = [thr EXCEPT ![t] = x] /\ x.job = thr[t].job /\ x.pkt = thr[t].pkt
          /\ x.pc = "control" /\ x.sent = thr[t].sent
    BY <1>4, GotoType DEF Pcs
  <2>2. Flow(h, x)
    BY <1>1, <2>1, Before DEF Flow, Sending
  <2>3. /\ thr' \in [Thread -> Locals] /\ thr'[t] = x
        /\ \A u \in Thread : u # t => thr'[u] = thr[u]
        /\ Flows'
    BY <2>1, <2>2, OneMoves
  <2>4. /\ sess' \in [Host -> Sessions]
        /\ \A g \in Host : /\ sess'[g].sseq = sess[g].sseq
                           /\ NoKey \notin CtxKeys(sess'[g].ctx1)
        /\ sess'["pri"].rekey
    BY <1>4, SetRekeyType DEF Host
  <2>5. SMPTypeOK'
    BY <1>1, <1>2, <2>3, <2>4 DEF SMPInv, SMPTypeOK, TypeOK
  <2>6. /\ \A u \in Thread : ~Holds(HostOf(u), thr[u])
        /\ \A g \in Host : \A p \in net[g] : ~Carries(g, p)
    BY <1>4 DEF SMPInv, Flagged
  <2>7. \A u \in Thread : Holds(HostOf(u), thr'[u]) => u = t
    BY <2>3, <2>6
  <2>8. OneToken' /\ Flagged'
    BY <1>1, <2>4, <2>6, <2>7 DEF OneToken, Flagged
  <2>9. FromSecondary' /\ NetSealed' /\ Current'
    BY <1>1, <2>4 DEF SMPInv, FromSecondary, NetSealed, Current, Undisturbed, OneOnSecondary
  <2>10. Sealing'
    <3> SUFFICES ASSUME NEW u \in Thread, Undisturbed(HostOf(u))
                 PROVE  Sealed(sess'[HostOf(u)], thr'[u])
      BY DEF Sealing, Undisturbed, OneOnSecondary
    <3>1. sess'[HostOf(u)].sseq = sess[HostOf(u)].sseq
      BY <2>4, ThreadHost
    <3>2. Sealed(sess[HostOf(u)], thr'[u])
      <4>1. CASE u = t  BY <2>1, <2>3, <4>1 DEF Sealed
      <4>2. CASE u # t  BY <2>3, <4>2 DEF SMPInv, Sealing
      <4> QED  BY <4>1, <4>2
    <3> QED  BY <3>1, <3>2 DEF Sealed
  <2> QED  BY <2>3, <2>5, <2>8, <2>9, <2>10 DEF SMPInv
<1> QED  BY <1>1, <1>3, <1>4

-----------------------------------------------------------------------------
(* Steps that take a number                                                 *)

\* A number is taken while no other thread of the host seals a packet.
LEMMA NumberTaken ==
    ASSUME SMPInv, NEW t \in Thread, NEW x \in Locals,
           thr' = [thr EXCEPT ![t] = x], Flow(HostOf(t), x),
           sess' = [sess EXCEPT ![HostOf(t)] = Advance(@)],
           used' = [used EXCEPT ![HostOf(t)] = @ + 1], net' = net,
           slock' \in [Host -> Thread \cup {NoThread}],
           Holds(HostOf(t), x) => Holds(HostOf(t), thr[t]),
           x.pc \in {"data", "send"},
           Undisturbed(HostOf(t)) => (x.pc = "send" => NoKey \notin {x.out.dk, x.out.ck}),
           \A u \in Thread : u # t /\ HostOf(u) = HostOf(t) /\ Undisturbed(HostOf(t))
                               => thr[u].pc \notin {"header", "packet"}
    PROVE  SMPInv'
<1> DEFINE h == HostOf(t)
           n == Advance(sess[h])
<1>1. /\ thr' \in [Thread -> Locals] /\ thr'[t] = x
      /\ \A u \in Thread : u # t => thr'[u] = thr[u]
      /\ Flows'
  BY OneMoves
<1>2. /\ n \in Sessions /\ n.rekey = sess[h].rekey /\ n.ctx1 = sess[h].ctx1
  BY Before, AdvanceType DEF Sessions
<1>3. sess' = [sess EXCEPT ![h] = n]
  OBVIOUS
<1> HIDE DEF n
<1>4. /\ sess' \in [Host -> Sessions]
      /\ \A g \in Host : /\ g # h => sess'[g] = sess[g]
                         /\ sess'[g].rekey = sess[g].rekey
                         /\ NoKey \notin CtxKeys(sess'[g].ctx1)
  <2>1. sess \in [Host -> Sessions] /\ Current
    BY DEF SMPInv, SMPTypeOK, TypeOK
  <2> QED  BY <1>2, <1>3, <2>1, Before DEF Current
<1>5. used' \in [Host -> Nat]
  BY Before DEF SMPInv, SMPTypeOK, TypeOK
<1>6. SMPTypeOK'
  BY <1>1, <1>4, <1>5 DEF SMPInv, SMPTypeOK, TypeOK
<1>7. OneToken' /\ Flagged'
  BY <1>1, <1>4, TokenKept DEF Host
<1>8. FromSecondary' /\ NetSealed' /\ Current'
  BY <1>4 DEF SMPInv, FromSecondary, NetSealed, Current, Undisturbed, OneOnSecondary
<1>9. Sealing'
  <2> SUFFICES ASSUME NEW u \in Thread, Undisturbed(HostOf(u))
               PROVE  Sealed(sess'[HostOf(u)], thr'[u])
    BY DEF Sealing, Undisturbed, OneOnSecondary
  <2>1. CASE u = t
    BY <1>1, <2>1 DEF Sealed
  <2>2. CASE u # t /\ HostOf(u) = h
    <3>1. Sealed(sess[h], thr[u]) /\ thr[u].pc \notin {"header", "packet"}
      BY <2>2 DEF SMPInv, Sealing
    <3> QED  BY <1>1, <2>2, <3>1 DEF Sealed
  <2>3. CASE u # t /\ HostOf(u) # h
    BY <1>1, <1>4, <2>3, ThreadHost DEF SMPInv, Sealing
  <2> QED  BY <2>1, <2>2, <2>3
<1> QED  BY <1>1, <1>6, <1>7, <1>8, <1>9 DEF SMPInv

\* A thread of the primary that sends a control message has the token.
LEMMA SenderHolds ==
    ASSUME SMPInv, NEW t \in Thread, HostOf(t) = "pri", thr[t].pc \in Sending
    PROVE  Holds("pri", thr[t])
BY Before DEF Flow, Holds, Starting

\* A data packet takes a number only while the session is not rekeyed, and
\* then no control packet of the primary is being sealed.
LEMMA TakeNumberStep ==
    ASSUME SMPInv, NEW t \in Thread, TakeNumber(t)
    PROVE  SMPInv'
<1> DEFINE h == HostOf(t)
           o == [NoPacket EXCEPT !.seq = sess[h].sseq]
           x == [thr[t] EXCEPT !.pc = "data", !.out = o]
<1>1. thr[t].pc = "take" /\ p3lock(t) /\ net' = net
  BY DEF TakeNumber, At
<1>2. CASE Return(t) /\ UNCHANGED <<sess, used>>
  BY <1>1, <1>2, LockType, ReturnStep
<1>3. CASE /\ ~sess[h].rekey /\ used' = [used EXCEPT ![h] = @ + 1]
           /\ thr' = [thr EXCEPT ![t].pc = "data", ![t].out = o]
           /\ sess' = [sess EXCEPT ![h] = Advance(@)]
  <2>1. thr' = [thr EXCEPT ![t] = x]
    BY <1>3, Before DEF Locals
  <2>2. o \in Packet /\ o.msg.type = "DATA"
    BY Before, IdleType DEF Packet, Sessions
  <2> HIDE DEF o
  <2>3. /\ x \in Locals /\ x.pc = "data" /\ x.job = thr[t].job /\ x.pkt = thr[t].pkt
        /\ x.sent = thr[t].sent /\ x.out = o
    <3>1. thr[t] \in Locals
      BY Before
    <3> QED  BY <2>2, <3>1 DEF Locals, Pcs
  <2> HIDE DEF x
  <2>4. Flow(h, x)
    BY <1>1, <2>2, <2>3, Before DEF Flow, Sending
  <2>5. Holds(h, x) => Holds(h, thr[t])
    BY <1>1, <2>3 DEF Holds, Starting, Sending
  <2>6. ASSUME NEW u \in Thread, u # t, HostOf(u) = h, Undisturbed(h)
        PROVE  thr[u].pc \notin {"header", "packet"}
    <3>1. CASE h = "pri"
      <4>1. ~Holds("pri", thr[u])
        BY <1>3, <2>6, <3>1 DEF SMPInv, Flagged
      <4> QED  BY <2>6, <3>1, <4>1, SenderHolds DEF Sending
    <3>2. CASE h # "pri"
      BY <2>6, <3>2, Before DEF Undisturbed, OneOnSecondary, Host
    <3> QED  BY <3>1, <3>2
  <2> QED  BY <1>1, <1>3, <2>1, <2>3, <2>4, <2>5, <2>6, LockType, NumberTaken
<1> QED  BY <1>2, <1>3 DEF TakeNumber

\* A control packet of the primary takes its number: no other is being sealed.
LEMMA NumberStep ==
    ASSUME SMPInv, NEW t \in Thread, Number(t)
    PROVE  SMPInv'
<1> DEFINE h == HostOf(t)
<1>1. /\ thr[t].pc = "number" /\ p3lock(t) /\ net' = net /\ Goto(t, "send")
      /\ sess' = [sess EXCEPT ![h] = Advance(@)] /\ used' = [used EXCEPT ![h] = @ + 1]
  BY DEF Number, At
<1>2. PICK x \in Locals :
        /\ thr' = [thr EXCEPT ![t] = x] /\ x.job = thr[t].job /\ x.pkt = thr[t].pkt
        /\ x.pc = "send" /\ x.sent = thr[t].sent /\ x.out = thr[t].out
  BY <1>1, GotoType DEF Pcs
<1>3. Flow(h, x)
  BY <1>1, <1>2, Before DEF Flow, Sending
<1>4. Holds(h, x) => Holds(h, thr[t])
  BY <1>1, <1>2 DEF Holds, Starting, Sending
<1>5. Undisturbed(h) => NoKey \notin {x.out.dk, x.out.ck}
  BY <1>1, <1>2, Before DEF Sealed
<1>6. ASSUME NEW u \in Thread, u # t, HostOf(u) = h, Undisturbed(h)
      PROVE  thr[u].pc \notin {"header", "packet"}
  <2>1. CASE h = "pri"
    <3>1. Holds("pri", thr[t])
      BY <1>1, <2>1, SenderHolds DEF Sending
    <3>2. ~Holds("pri", thr[u])
      BY <1>6, <2>1, <3>1 DEF SMPInv, OneToken
    <3> QED  BY <1>6, <2>1, <3>2, SenderHolds DEF Sending
  <2>2. CASE h # "pri"
    BY <1>6, <2>2, Before DEF Undisturbed, OneOnSecondary, Host
  <2> QED  BY <2>1, <2>2
<1> QED  BY <1>1, <1>2, <1>3, <1>4, <1>5, <1>6, LockType, NumberTaken

-----------------------------------------------------------------------------
(* Steps that send and receive                                              *)

\* A packet is added to those on their way to the peer.
LEMMA PacketAdded ==
    ASSUME SMPInv, NEW h \in Host, NEW p \in Packet,
           net' = [net EXCEPT ![Peer(h)] = @ \cup {p}],
           h = "sec" => p.msg.type # "REPLACE_KEY",
           Undisturbed(h) /\ p.msg.type # "DATA" => NoKey \notin {p.dk, p.ck}
    PROVE  /\ net' \in [Host -> SUBSET Packet] /\ net'[Peer(h)] = net[Peer(h)] \cup {p}
           /\ \A g \in Host : g # Peer(h) => net'[g] = net[g]
           /\ FromSecondary' /\ NetSealed'
<1>1. net \in [Host -> SUBSET Packet] /\ Peer(h) \in Host
  BY DEF SMPInv, SMPTypeOK, TypeOK, Peer, Host
<1>2. /\ net' \in [Host -> SUBSET Packet] /\ net'[Peer(h)] = net[Peer(h)] \cup {p}
      /\ \A g \in Host : g # Peer(h) => net'[g] = net[g]
  BY <1>1
<1>3. FromSecondary'
  BY <1>2 DEF SMPInv, FromSecondary, Peer, Host
<1>4. NetSealed'
  <2> SUFFICES ASSUME NEW g \in Host, Undisturbed(g), NEW q \in net'[Peer(g)],
                      q.msg.type # "DATA"
               PROVE  NoKey \notin {q.dk, q.ck}
    BY DEF NetSealed, Undisturbed, OneOnSecondary
  <2>1. CASE g = h
    BY <1>2, <2>1 DEF SMPInv, NetSealed
  <2>2. CASE g # h
    <3>1. Peer(g) # Peer(h) /\ Peer(g) \in Host  BY <2>2 DEF Peer, Host
    <3> QED  BY <1>2, <3>1 DEF SMPInv, NetSealed
  <2> QED  BY <2>1, <2>2
<1> QED  BY <1>2, <1>3, <1>4

\* What a step that leaves the sessions alone keeps besides.
LEMMA SessionsKept ==
    ASSUME SMPInv, NEW t \in Thread, NEW x \in Locals, sess' = sess,
           thr' = [thr EXCEPT ![t] = x], Flow(HostOf(t), x),
           Sealed(sess[HostOf(t)], x),
           slock' = slock, net' \in [Host -> SUBSET Packet], used' \in [Host -> Nat]
    PROVE  SMPTypeOK' /\ Flows' /\ Current' /\ Sealing'
<1>1. /\ thr' \in [Thread -> Locals] /\ thr'[t] = x
      /\ \A u \in Thread : u # t => thr'[u] = thr[u]
      /\ Flows'
  BY OneMoves
<1>2. SMPTypeOK'
  BY <1>1 DEF SMPInv, SMPTypeOK, TypeOK
<1>3. Current'
  BY DEF SMPInv, Current
<1>4. Sealing'
  BY <1>1 DEF SMPInv, Sealing, Undisturbed, OneOnSecondary
<1> QED  BY <1>1, <1>2, <1>3, <1>4

\* A data packet leaves.
LEMMA EncryptDataStep ==
    ASSUME SMPInv, NEW t \in Thread, EncryptData(t)
    PROVE  SMPInv'
<1> DEFINE h == HostOf(t)
           p == [thr[t].out EXCEPT !.dk = sess[h].ctx1.de]
<1>1. /\ net' = [net EXCEPT ![Peer(h)] = @ \cup {p}] /\ UNCHANGED <<sess, used, slock>>
      /\ thr' = [thr EXCEPT ![t] = Idle] /\ thr[t].pc = "data"
  BY DEF EncryptData, Return, At
<1>2. p \in Packet /\ p.msg.type = "DATA"
  <2>1. sess[h].ctx1.de \in KeyOrNone
    BY Before DEF Sessions, Contexts
  <2>2. thr[t].out \in Packet /\ thr[t].out.msg.type = "DATA"
    BY <1>1, Before DEF Flow, Locals
  <2> QED  BY <2>1, <2>2 DEF Packet
<1> HIDE DEF p
<1>3. /\ net' \in [Host -> SUBSET Packet] /\ net'[Peer(h)] = net[Peer(h)] \cup {p}
      /\ \A g \in Host : g # Peer(h) => net'[g] = net[g]
      /\ FromSecondary' /\ NetSealed'
  BY <1>1, <1>2, Before, PacketAdded
<1>4. used' \in [Host -> Nat]
  BY <1>1 DEF SMPInv, SMPTypeOK, TypeOK
<1>5. SMPTypeOK' /\ Flows' /\ Current' /\ Sealing'
  BY <1>1, <1>3, <1>4, Before, IdleType, SessionsKept
<1>6. OneToken' /\ Flagged'
  <2>1. thr'[t] = Idle /\ \A u \in Thread : u # t => thr'[u] = thr[u]
    BY <1>1, Before
  <2>2. \A g \in Host : \A q \in net'[g] : Carries(g, q) => q \in net[g]
    BY <1>2, <1>3 DEF Carries
  <2>3. ~Holds(h, Idle)
    BY Before, IdleType
  <2> QED  BY <1>1, <2>1, <2>2, <2>3, TokenKept
<1> QED  BY <1>3, <1>5, <1>6 DEF SMPInv

\* The token passes to the packet that leaves.
LEMMA TokenSent ==
    ASSUME SMPInv, NEW t \in Thread, NEW x, thr'[t] = x,
           \A u \in Thread : u # t => thr'[u] = thr[u],
           Holds(HostOf(t), thr[t]), ~Holds(HostOf(t), x), NEW p, NEW h \in Host,
           net'[h] = net[h] \cup {p}, \A g \in Host : g # h => net'[g] = net[g],
           sess' = sess
    PROVE  OneToken' /\ Flagged'
<1>1. \A u \in Thread : ~Holds(HostOf(u), thr'[u])
  BY DEF SMPInv, OneToken
<1>2. \A g \in Host : \A q \in net'[g] : Carries(g, q) => g = h /\ q = p
  BY DEF SMPInv, OneToken
<1>3. sess["pri"].rekey
  BY DEF SMPInv, Flagged
<1> QED  BY <1>1, <1>2, <1>3 DEF OneToken, Flagged

\* A control packet leaves.
LEMMA SendPacketStep ==
    ASSUME SMPInv, NEW t \in Thread, SendPacket(t)
    PROVE  SMPInv'
<1> DEFINE h == HostOf(t)
           p == thr[t].out
           n == AfterSending(t)
           x == [thr[t] EXCEPT !.pc = n, !.sent = TRUE]
<1>1. /\ net' = [net EXCEPT ![Peer(h)] = @ \cup {p}] /\ UNCHANGED <<sess, slock>>
      /\ thr' = [thr EXCEPT ![t] = x] /\ thr[t].pc = "send"
  BY Before DEF SendPacket, At, Locals
<1>2. /\ thr[t].job = "start" => n = "take" /\ h = "pri"
      /\ thr[t].job = "replace" => n = "hold" /\ h = "sec" /\ p.msg.type = "REKEY"
      /\ thr[t].job = "rekey" => n = "switch" /\ h = "pri" /\ p.msg.type = "REKEY"
      /\ thr[t].job \in {"start", "replace", "rekey"}
  BY <1>1, Before DEF Flow, Sending, AfterSending, Host
<1>3. used' \in [Host -> Nat]
  BY Before DEF SendPacket, SMPInv, SMPTypeOK, TypeOK
<1> HIDE DEF n
<1>4. /\ x \in Locals /\ x.pc = n /\ x.sent /\ x.job = thr[t].job /\ x.pkt = thr[t].pkt
  <2>1. thr[t] \in Locals
    BY Before
  <2> QED  BY <1>2, <2>1 DEF Locals, Pcs
<1>5. p \in Packet /\ (Undisturbed(h) => NoKey \notin {p.dk, p.ck})
  BY <1>1, Before DEF Locals, Sealed
<1> HIDE DEF x, p
<1>6. Flow(h, x)
  BY <1>1, <1>2, <1>4, Before DEF Flow, Sending
<1>7. Sealed(sess[h], x)
  BY <1>2, <1>4 DEF Sealed
<1>8. /\ net' \in [Host -> SUBSET Packet] /\ net'[Peer(h)] = net[Peer(h)] \cup {p}
      /\ \A g \in Host : g # Peer(h) => net'[g] = net[g]
      /\ FromSecondary' /\ NetSealed'
  BY <1>1, <1>2, <1>5, Before, PacketAdded
<1>9. SMPTypeOK' /\ Flows' /\ Current' /\ Sealing'
  BY <1>1, <1>3, <1>4, <1>6, <1>7, <1>8, SessionsKept
<1>10. thr'[t] = x /\ (\A u \in Thread : u # t => thr'[u] = thr[u]) /\ Peer(h) \in Host
  BY <1>1, Before, ThreadHost
<1>11. OneToken' /\ Flagged'
  <2>1. CASE thr[t].job = "rekey"
    <3>1. Holds(h, thr[t])
      BY <1>2, <2>1, Before DEF Holds, Flow
    <3>2. \A g \in Host : \A q \in net'[g] : Carries(g, q) => q \in net[g]
      BY <1>2, <1>8, <2>1 DEF Carries, Peer
    <3> QED  BY <1>1, <1>10, <3>1, <3>2, TokenKept
  <2>2. CASE thr[t].job # "rekey"
    <3>1. Holds(h, thr[t])
      BY <1>1, <1>2, <2>2, Before DEF Holds, Flow, Starting, Sending
    <3>2. ~Holds(h, x)
      BY <1>2, <1>4, <2>2, Before DEF Holds, Flow, Starting, Sending
    <3> QED  BY <1>1, <1>8, <1>10, <3>1, <3>2, TokenSent
  <2> QED  BY <2>1, <2>2
<1> QED  BY <1>8, <1>9, <1>11 DEF SMPInv

\* A packet arrives: the token passes to its handler.
LEMMA ChooseKeyStep ==
    ASSUME SMPInv, NEW t \in Thread, ChooseKey(t)
    PROVE  SMPInv'
<1> DEFINE h == HostOf(t)
<1>1. PICK p \in Arriving(h) :
        /\ net' = Taken(h, p)
        /\ thr' = [thr EXCEPT ![t] = [Begin(h, "decrypt") EXCEPT
                                        !.pkt = p, !.new = InNewRange(sess[h], p.seq)]]
  BY DEF ChooseKey
<1> DEFINE x == [Begin(h, "decrypt") EXCEPT !.pkt = p, !.new = InNewRange(sess[h], p.seq)]
<1>2. UNCHANGED <<sess, used, slock>> /\ p \in net[h] /\ p \in Packet
  BY Before, ArrivingInNet DEF ChooseKey, SMPInv, SMPTypeOK
<1>3. InNewRange(sess[h], p.seq) \in BOOLEAN
  BY DEF InNewRange
<1>4. /\ x \in Locals /\ x.pc = "decrypt" /\ x.job = "none" /\ x.pkt = p /\ ~x.sent
  <2> DEFINE b == Begin(h, "decrypt")
             r == InNewRange(sess[h], p.seq)
  <2>1. b \in Locals /\ b.pc = "decrypt" /\ b.job = "none" /\ ~b.sent
    BY Before, BeginType DEF Pcs
  <2>2. r \in BOOLEAN
    BY <1>3
  <2> HIDE DEF b, r
  <2>3. x = [b EXCEPT !.pkt = p, !.new = r]
    BY DEF b, r
  <2> HIDE DEF x
  <2> QED  BY <1>2, <2>1, <2>2, <2>3 DEF Locals
<1>5. thr' = [thr EXCEPT ![t] = x]
  BY <1>1
<1> HIDE DEF x
<1>6. h = "pri" => p.msg.type # "REPLACE_KEY"
  BY <1>2 DEF SMPInv, FromSecondary
<1>7. Flow(h, x)
  BY <1>4, <1>6 DEF Flow, Sending
<1>8. Sealed(sess[h], x)
  BY <1>4 DEF Sealed
<1>9. /\ net' \in [Host -> SUBSET Packet] /\ net'[h] = net[h] \ {p}
      /\ \A g \in Host : g # h => net'[g] = net[g]
  BY <1>1, Before DEF SMPInv, SMPTypeOK, TypeOK, Taken
<1>10. \A g \in Host : net'[g] \subseteq net[g]
  BY <1>9
<1>11. FromSecondary' /\ NetSealed'
  <2>1. \A g \in Host : Peer(g) \in Host  BY DEF Peer, Host
  <2> QED  BY <1>10, <2>1 DEF SMPInv, FromSecondary, NetSealed, Undisturbed, OneOnSecondary, Host
<1>12. used' \in [Host -> Nat]
  BY <1>2 DEF SMPInv, SMPTypeOK, TypeOK
<1>13. SMPTypeOK' /\ Flows' /\ Current' /\ Sealing'
  BY <1>2, <1>4, <1>5, <1>7, <1>8, <1>9, <1>12, SessionsKept
<1>14. thr'[t] = x /\ \A u \in Thread : u # t => thr'[u] = thr[u]
  BY <1>5, Before
<1>15. OneToken' /\ Flagged'
  <2>1. CASE Carries(h, p)
    <3>1. /\ \A u \in Thread : ~Holds(HostOf(u), thr[u])
          /\ \A g \in Host : \A q \in net[g] : Carries(g, q) => g = h /\ q = p
          /\ sess["pri"].rekey
      BY <1>2, <2>1, Before DEF SMPInv, OneToken, Flagged
    <3>2. \A g \in Host : \A q \in net'[g] : ~Carries(g, q)
      BY <1>9, <1>10, <3>1
    <3>3. \A u \in Thread : Holds(HostOf(u), thr'[u]) => u = t
      BY <1>14, <3>1
    <3> QED  BY <1>2, <3>1, <3>2, <3>3 DEF OneToken, Flagged
  <2>2. CASE ~Carries(h, p)
    <3>1. ~Holds(h, x)
      BY <1>4, <2>2 DEF Holds, Carries
    <3> QED  BY <1>2, <1>10, <1>14, <3>1, TokenKept
  <2> QED  BY <2>1, <2>2
<1> QED  BY <1>11, <1>13, <1>15 DEF SMPInv

\* A packet is lost, and with it perhaps the token.
LEMMA LoseStep ==
    ASSUME SMPInv, NEW h \in Host, Lose(h), UNCHANGED <<thr, slock>>
    PROVE  SMPInv'
<1>1. PICK p \in net[h] : net' = Taken(h, p)
  BY DEF Lose
<1>2. UNCHANGED <<sess, used>>
  BY DEF Lose
<1>3. net' \in [Host -> SUBSET Packet] /\ \A g \in Host : net'[g] \subseteq net[g]
  BY <1>1 DEF SMPInv, SMPTypeOK, TypeOK, Taken
<1>4. FromSecondary' /\ NetSealed'
  <2>1. \A g \in Host : Peer(g) \in Host  BY DEF Peer, Host
  <2> QED  BY <1>3, <2>1 DEF SMPInv, FromSecondary, NetSealed, Undisturbed, OneOnSecondary, Host
<1>5. SMPTypeOK'
  BY <1>2, <1>3 DEF SMPInv, SMPTypeOK, TypeOK
<1>6. Flows' /\ Current' /\ Sealing'
  BY <1>2 DEF SMPInv, Flows, Current, Sealing, Undisturbed, OneOnSecondary
<1>7. OneToken' /\ Flagged'
  BY <1>2, <1>3 DEF SMPInv, OneToken, Flagged
<1> QED  BY <1>4, <1>5, <1>6, <1>7 DEF SMPInv

-----------------------------------------------------------------------------
(* The theorems                                                             *)

\* Nothing is on its way, and nobody rekeys.
LEMMA SMPInitInv == SMPInit => SMPInv
<1> SUFFICES ASSUME SMPInit PROVE SMPInv
  OBVIOUS
<1>1. TypeOK
  BY TypeInit DEF SMPInit
<1>2. thr \in [Thread -> Locals] /\ \A t \in Thread : thr[t] = Idle
  BY IdleType DEF SMPInit
<1>3. SMPTypeOK
  BY <1>1, <1>2 DEF SMPInit, SMPTypeOK
<1>4. Flows /\ Sealing
  BY <1>2, IdleType, ThreadHost DEF Flows, Sealing
<1>5. \A h \in Host : net[h] = {}
  BY DEF SMPInit, Init
<1>6. FromSecondary /\ NetSealed
  BY <1>5 DEF FromSecondary, NetSealed, Peer, Host
<1>7. OneToken /\ Flagged
  BY <1>2, <1>5, IdleType, ThreadHost DEF OneToken, Flagged
<1>8. Current
  BY KeyAssumption DEF SMPInit, Init, Current, InitSession, CtxOf, CtxKeys
<1> QED  BY <1>3, <1>4, <1>6, <1>7, <1>8 DEF SMPInv

\* p3unlock.
LEMMA UnlockStep ==
    ASSUME SMPInv, NEW t \in Thread, p3unlock(t)
    PROVE  SMPInv'
<1>1. slock' \in [Host -> Thread \cup {NoThread}] /\ UNCHANGED <<sess, net, used, thr>>
  BY Before DEF p3unlock
<1> QED  BY <1>1 DEF SMPInv, SMPTypeOK, TypeOK, Flows, FromSecondary, OneToken, Flagged,
                     Current, Sealing, NetSealed, Undisturbed, OneOnSecondary

\* Every step of every thread keeps the invariant.
LEMMA SMPNextInv == SMPInv /\ [SMPNext]_smpVars => SMPInv'
<1> SUFFICES ASSUME SMPInv, [SMPNext]_smpVars PROVE SMPInv'
  OBVIOUS
<1>1. CASE UNCHANGED smpVars
  BY <1>1 DEF smpVars, SMPInv, SMPTypeOK, TypeOK, Flows, FromSecondary, OneToken, Flagged,
              Current, Sealing, NetSealed, Undisturbed, OneOnSecondary
<1>2. ASSUME NEW t \in Thread, Continue(t) PROVE SMPInv'
  <2>1. CASE \/ BuildNewKeys(t) \/ SetRekeyFlag(t) \/ TakeNumber(t) \/ EncryptData(t)
             \/ EncryptControl(t) \/ BuildHeader(t) \/ EncryptPacket(t) \/ Number(t)
    BY <2>1, BuildNewKeysStep, SetRekeyFlagStep, TakeNumberStep, EncryptDataStep,
       EncryptControlStep, BuildHeaderStep, EncryptPacketStep, NumberStep
  <2>2. CASE \/ SendPacket(t) \/ SendFails(t) \/ ClearRekey(t) \/ GiveUp(t)
             \/ Decrypt(t) \/ DecryptGarbled(t) \/ DecryptReplace(t) \/ DecryptRekey(t)
    BY <2>2, SendPacketStep, SendFailsStep, ClearStep, DecryptStep, DecryptReplaceStep,
       DecryptRekeyStep
  <2>3. CASE \/ Announce(t) \/ Hold(t) \/ SwitchContexts(t) \/ SetRID0(t) \/ SetRID1(t)
             \/ p3unlock(t)
    BY <2>3, AnnounceStep, HoldStep, SwitchStepSMP, UnlockStep
  <2> QED  BY <1>2, <2>1, <2>2, <2>3 DEF Continue
<1>3. ASSUME NEW t \in Thread, Lookup(t) \/ ChooseKey(t) PROVE SMPInv'
  BY <1>3, LookupStep, ChooseKeyStep
<1>4. ASSUME NEW h \in Host, Lose(h) /\ UNCHANGED <<thr, slock>> PROVE SMPInv'
  BY <1>4, LoseStep
<1> QED  BY <1>1, <1>2, <1>3, <1>4 DEF SMPNext

\* The invariant holds however many CPUs run packet_handler.
THEOREM SMPInvariant == SMPSpec => []SMPInv
BY SMPInitInv, SMPNextInv, PTL DEF SMPSpec

\* "Only set the Rekey flag once" suffices: for any number of CPUs and
\* processes, losses, failures and reordered packets, at most one thread of
\* the primary is in start_rekeying past the flag.
THEOREM OneStartThm == SMPSpec => []OneStart
<1>1. SMPInv => OneStart
  <2> SUFFICES ASSUME SMPInv, NEW t \in Thread, NEW u \in Thread,
                      thr[t].job = "start", thr[t].pc \in Sending,
                      thr[u].job = "start", thr[u].pc \in Sending
               PROVE  t = u
    BY DEF OneStart, Sending
  <2>1. HostOf(t) = "pri" /\ HostOf(u) = "pri"
    BY Before DEF Flow
  <2> QED  BY <2>1, SenderHolds DEF SMPInv, OneToken
<1> QED  BY <1>1, SMPInvariant, PTL

\* Every control packet of the primary, on any number of CPUs, is sealed with
\* the number it carries.
THEOREM PrimarySealed ==
    SMPSpec => [](\A p \in net["sec"] : p.msg.type # "DATA" => NoKey \notin {p.dk, p.ck})
<1>1. SMPInv => \A p \in net["sec"] : p.msg.type # "DATA" => NoKey \notin {p.dk, p.ck}
  BY DEF SMPInv, NetSealed, Undisturbed, Peer, Host
<1> QED  BY <1>1, SMPInvariant, PTL

\* So is every control packet of either gateway, if the handlers of the
\* secondary do not overlap: replace_key sets the Rekey flag only after its
\* answer has left, and does not keep other CPUs from taking a number.
THEOREM EncryptedWithIDThm ==
    ASSUME OneOnSecondary
    PROVE  SMPSpec => []EncryptedWithID
<1>1. SMPInv => EncryptedWithID
  <2> SUFFICES ASSUME SMPInv, NEW h \in Host, NEW p \in net[h], p.msg.type # "DATA"
               PROVE  NoKey \notin {p.dk, p.ck}
    BY DEF EncryptedWithID
  <2>1. Peer(h) \in Host /\ Peer(Peer(h)) = h
    BY DEF Peer, Host
  <2> QED  BY <2>1 DEF SMPInv, NetSealed, Undisturbed
<1> QED  BY <1>1, SMPInvariant, PTL

-----------------------------------------------------------------------------
(* With one handler at a time on each gateway, the steps of packet_handler  *)
(* amount to the single steps of P3Session.                                 *)

\* One softirq runs packet_handler on each gateway.
OneEachHost ==
    \A h \in Host : \E t \in Thread :
        HostOf(t) = h /\ \A u \in Thread : HostOf(u) = h => u = t

\* The sequence numbers do not wrap around.
BelowWrap == \A h \in Host : sess[h].sseq + 1 < SeqMod

\* A handler, its variables being x, that has begun and has had no effect yet;
\* and the packet it took from the network.
Open(x) == x.pc # "idle" /\ ~x.sent
Hand(x) == IF Open(x) THEN {x.pkt} \ {NoPacket} ELSE {}

\* The error flag of the secondary's answer: RekeyError.
Refuses(x) == x.job = "replace" /\ NoKey \in {x.pkt.msg.d, x.pkt.msg.c}

\* What is left to be done when the packet has gone: Finished.
Completed(x, s) ==
    CASE x.job = "replace" -> [s EXCEPT !.rekey = ~Refuses(x)]
      [] x.job = "rekey" /\ x.pc = "switch" -> SwitchKeys(s, x.pkt.msg.num, 4)
      [] x.job = "rekey" /\ x.pc = "rID0" ->
            [s EXCEPT !.rID0 = s.rID1, !.rID1 = x.pkt.msg.num, !.rekey = FALSE]
      [] x.job = "rekey" /\ x.pc = "rID1" ->
            [s EXCEPT !.rID1 = x.pkt.msg.num, !.rekey = FALSE]
      [] x.job = "rekey" /\ x.pc = "clear" -> [s EXCEPT !.rekey = FALSE]
      [] OTHER -> s

\* The session of a host, and its counter, as P3Session sees them.
SeenSession(x, s) == IF Open(x) THEN x.was.sess ELSE Completed(x, s)
SeenUsed(x, n) == IF Open(x) THEN x.was.used ELSE n

\* b is the session s after build_newkey_message, and m the message, for keys
\* that are not in L.
Picked(s, b, m, L) ==
    \E fresh \in Key \ L, didx, cidx \in UseIndex :
    \E dk \in GetKey(s.newkey.d, fresh), ck \in GetKey(s.newkey.c, fresh) :
        b = NewKeys(s, dk, ck, didx, cidx) /\ m = NewKeyMsg(dk, ck, didx, cidx)

\* The session b a control message m is sent from.
Base(h, x, b, m, L) ==
    LET s == x.was.sess
        p == x.pkt
    IN  \/ /\ x.job = "start" /\ h = "pri" /\ RekeyDue(s) /\ p = NoPacket
           /\ \E c : Picked(s, c, m, L) /\ b = [c EXCEPT !.rekey = TRUE]
        \/ /\ x.job = "replace" /\ h = "sec" /\ CtlOpens(s, p)
           /\ b = NewKeys(s, p.msg.d, p.msg.c, p.msg.d = NoKey, p.msg.c = NoKey)
           /\ m = RekeyMsg(SuccSeq(s.sseq), Refuses(x))
        \/ /\ x.job = "rekey" /\ h = "pri" /\ CtlOpens(s, p) /\ ~p.msg.err
           /\ b = s
           /\ m = RekeyMsg(SuccSeq(s.sseq), FALSE)

\* How far the control packet has been built.
Built(x, b, m) ==
    /\ x.out.msg = m /\ ~x.out.copy
    /\ x.pc = "header" => x.iv = b.sseq
    /\ x.pc \in {"packet", "number", "send"} => x.out.seq = b.sseq
    /\ x.pc \in {"header", "packet", "number", "send"} => x.out.ck = b.ctx1.ce
    /\ x.pc \in {"number", "send"} => x.out.dk = b.ctx1.de

Numbers(n, res) == IF res = "unsent" THEN n ELSE n + 1
Failing == SendResult \ {"sent"}

\* The data packet can be sent from the session a.
Ready(h, x, a, n, L) ==
    LET s == x.was.sess
    IN  /\ x.pkt = NoPacket
        /\ \/ a = s /\ n = x.was.used /\ ~(h = "pri" /\ RekeyDue(s))
           \/ /\ h = "pri" /\ RekeyDue(s)
              /\ \E b, m : \E res \in Failing :
                   /\ Picked(s, b, m, L)
                   /\ a = [AfterSend(b, res) EXCEPT !.rekey = FALSE]
                   /\ n = Numbers(x.was.used, res)

\* The handler has not changed the session.
Same(x, s, n) == s = x.was.sess /\ n = x.was.used

\* Its control message could not be sent.
Failed(h, x, s, n, L) ==
    \E b, m : \E res \in Failing :
        /\ Base(h, x, b, m, L)
        /\ s = AfterSend(b, res) /\ n = Numbers(x.was.used, res)

\* The secondary's handler is changing keys.
Switching(x, s, n) ==
    LET b == p3_rekey(x.was.sess, 4)
    IN  /\ CtlOpens(x.was.sess, x.pkt) /\ x.job = "rekey"
        /\ x.pc = "switch" => Same(x, s, n)
        /\ x.pc # "switch" => n = 0
        /\ x.pc = "rID0" => s = b
        /\ x.pc = "rID1" => s = [b EXCEPT !.rID0 = b.rID1]
        /\ x.pc = "clear" =>
             s = [b EXCEPT !.rID0 = b.rID1, !.rID1 = x.pkt.msg.num]

\* What a handler has done so far, before it has an effect that shows; L are
\* the keys that may not be picked.
Doing(h, x, s, n, L) ==
    /\ x.pc = "build" =>
         Same(x, s, n) /\ h = "pri" /\ RekeyDue(s) /\ x.pkt = NoPacket
    /\ x.pc = "setrekey" =>
         /\ h = "pri" /\ RekeyDue(x.was.sess) /\ x.pkt = NoPacket
         /\ Picked(x.was.sess, s, x.out.msg, L) /\ n = x.was.used /\ ~x.out.copy
    /\ x.pc = "take" => Ready(h, x, s, n, L)
    /\ x.pc = "data" =>
         \E a, k : /\ Ready(h, x, a, k, L) /\ ~a.rekey
                   /\ s = Advance(a) /\ n = k + 1
                   /\ x.out = [NoPacket EXCEPT !.seq = a.sseq]
    /\ x.pc \in {"decrypt", "message"} =>
         /\ Same(x, s, n) /\ x.pkt # NoPacket /\ x.new = InNewRange(s, x.pkt.seq)
         /\ x.pc = "message" => DataOpens(s, x.pkt)
    /\ x.pc = "announce" =>
         \E m : Base(h, x, s, m, L) /\ n = x.was.used
    /\ x.pc \in Sending =>
         \E b, m : LET res == IF x.pc = "send" THEN "sent" ELSE "unsent"
                   IN  /\ Base(h, x, b, m, L) /\ Built(x, b, m)
                       /\ s = AfterSend(b, res) /\ n = Numbers(x.was.used, res)
    /\ x.pc = "giveup" =>
         \/ /\ x.job = "none" /\ Same(x, s, n)
            /\ DataOpens(s, x.pkt) /\ ~CtlOpens(s, x.pkt)
         \/ Failed(h, x, s, n, L)
    /\ x.pc = "clear" /\ h = "pri" =>
         \/ x.job = "rekey" /\ Same(x, s, n) /\ CtlOpens(s, x.pkt) /\ x.pkt.msg.err
         \/ Failed(h, x, s, n, L)
    /\ x.pc \in {"switch", "rID0", "rID1", "clear"} /\ h = "sec" => Switching(x, s, n)
    /\ x.pc \in {"switch", "rID0", "rID1"} => h = "sec"
    /\ x.pc \in {"build", "decrypt", "message", "announce"} => ~x.out.copy

\* What it is doing afterwards.
Leaving(x, s, n) ==
    /\ x.pc \in {"take", "hold", "giveup", "switch", "rID0", "rID1", "clear"}
    /\ x.pc = "take" => s.rekey /\ x.job = "start"
    /\ x.pc \in {"hold", "giveup"} => x.job = "replace"
    /\ x.pc = "giveup" => Refuses(x)
    /\ x.pc \in {"switch", "rID0", "rID1", "clear"} => x.job = "rekey" /\ n = 0

\* A handler has done to the session what P3Session has not done yet.
Working(h, x, s, n, L) ==
    /\ Open(x) => Doing(h, x, s, n, L) /\ x.was.sess.sseq <= s.sseq
    /\ x.sent => Leaving(x, s, n)

\* A packet p for h, whose sender has the sequence number n.
Fits(h, p, n) ==
    /\ 1 <= p.seq /\ p.seq < n /\ ~p.copy
    /\ h = "sec" /\ p.msg.type = "REKEY" => ~p.msg.err

\* Packet p, which has been taken out of the packets ns, was the oldest.
WasOldest(p, ns) ==
    /\ p \notin ns
    /\ "reorder" \notin Env => \A q \in ns : p.seq <= q.seq

\* The bounds tested before a packet is sent, w being what the handler saw.
RoomFor(h, w) ==
    /\ Cardinality(AtomicNet[Peer(h)]) < MaxNet
    /\ w.used < MaxPerKey
    /\ w.sess.sseq < MaxSeq

RefOK(h) ==
    LET x == thr[HandlerOf(h)]
    IN  /\ Working(h, x, sess[h], used[h], Atomic!LiveKeys)
        /\ \A p \in AtomicNet[h] : Fits(h, p, AtomicSess[Peer(h)].sseq)
        /\ \A p \in Hand(x) : WasOldest(p, net[h])
        /\ Open(x) /\ x.pkt = NoPacket => RoomFor(h, x.was)
        /\ IsFiniteSet(net[h])
        /\ 1 <= AtomicSess[h].sseq

\* The inductive invariant of the refinement.
RefInv == \A h \in Host : RefOK(h)

-----------------------------------------------------------------------------
(* The mapped state                                                         *)

\* The two gateways, and the handler of each.
LEMMA Handlers ==
    ASSUME OneEachHost
    PROVE  /\ \A h \in Host : /\ HandlerOf(h) \in Thread /\ HostOf(HandlerOf(h)) = h
                              /\ Peer(h) \in Host /\ Peer(h) # h /\ Peer(Peer(h)) = h
           /\ \A t \in Thread : HandlerOf(HostOf(t)) = t /\ HostOf(t) \in Host
           /\ \A g, h \in Host : g = h \/ g = Peer(h)
<1>1. \A h \in Host : HandlerOf(h) \in Thread /\ HostOf(HandlerOf(h)) = h
  BY DEF OneEachHost, HandlerOf
<1>2. \A t \in Thread : HandlerOf(HostOf(t)) = t /\ HostOf(t) \in Host
  BY <1>1, ThreadHost DEF OneEachHost
<1> QED  BY <1>1, <1>2 DEF Host, Peer

\* Each host's part of the mapping depends on its own handler and session.
LEMMA Mapped ==
    /\ AtomicSess = [h \in Host |-> SeenSession(thr[HandlerOf(h)], sess[h])]
    /\ AtomicUsed = [h \in Host |-> SeenUsed(thr[HandlerOf(h)], used[h])]
    /\ AtomicNet = [h \in Host |-> net[h] \cup Hand(thr[HandlerOf(h)])]
<1>1. \A h \in Host : Finished(h) = Completed(thr[HandlerOf(h)], sess[h])
  BY DEF Finished, Completed, RekeyError, Refuses
<1> QED  BY <1>1 DEF AtomicSess, AtomicUsed, AtomicNet, Pending, SeenSession, SeenUsed,
            Hand, Open

\* The same of the state after a step.
LEMMA MappedNext ==
    /\ AtomicSess' = [h \in Host |-> SeenSession(thr'[HandlerOf(h)], sess'[h])]
    /\ AtomicUsed' = [h \in Host |-> SeenUsed(thr'[HandlerOf(h)], used'[h])]
    /\ AtomicNet' = [h \in Host |-> net'[h] \cup Hand(thr'[HandlerOf(h)])]
<1>1. \A h \in Host : Finished(h)' = Completed(thr'[HandlerOf(h)], sess'[h])
  BY DEF Finished, Completed, RekeyError, Refuses
<1> QED  BY <1>1 DEF AtomicSess, AtomicUsed, AtomicNet, Pending, SeenSession, SeenUsed,
            Hand, Open

\* The keys P3Session sees.
LEMMA LiveIs ==
    /\ \A k : k \in Atomic!LiveKeys <=> \E h \in Host :
          \/ k \in SessionKeys(AtomicSess[h])
          \/ \E p \in AtomicNet[h] : k \in PacketKeys(p)
    /\ \A k : k \in Atomic!LiveKeys' <=> \E h \in Host :
          \/ k \in SessionKeys(AtomicSess'[h])
          \/ \E p \in AtomicNet'[h] : k \in PacketKeys(p)
BY DEF Atomic!LiveKeys, Atomic!Host, Host, Atomic!CtxKeys, CtxKeys, SessionKeys,
       PacketKeys

\* Thread t goes on to the variables x; its host's session becomes s.
Step(t, x, s, n) ==
    /\ thr' = [thr EXCEPT ![t] = x]
    /\ sess' = [sess EXCEPT ![HostOf(t)] = s]
    /\ used' = [used EXCEPT ![HostOf(t)] = n]

\* The other gateway's part of the mapping is as it was.
LEMMA StepMapped ==
    ASSUME OneEachHost, SMPInv, NEW t \in Thread, NEW x, NEW s, NEW n, Step(t, x, s, n)
    PROVE  LET h == HostOf(t)
               g == Peer(h)
           IN  /\ thr'[t] = x /\ sess'[h] = s /\ used'[h] = n
               /\ thr'[HandlerOf(h)] = x
               /\ thr'[HandlerOf(g)] = thr[HandlerOf(g)]
               /\ sess'[g] = sess[g] /\ used'[g] = used[g]
               /\ AtomicSess' = [AtomicSess EXCEPT ![h] = SeenSession(x, s)]
               /\ AtomicUsed' = [AtomicUsed EXCEPT ![h] = SeenUsed(x, n)]
               /\ AtomicNet'[h] = net'[h] \cup Hand(x)
               /\ AtomicNet'[g] = net'[g] \cup Hand(thr[HandlerOf(g)])
<1> DEFINE h == HostOf(t)
           g == Peer(h)
<1>1. /\ h \in Host /\ g \in Host /\ g # h /\ HandlerOf(h) = t
      /\ HandlerOf(g) \in Thread /\ HandlerOf(g) # t
      /\ \A k \in Host : k = h \/ k = g
  <2>1. h \in Host /\ HandlerOf(h) = t
    BY Handlers
  <2>2. g \in Host /\ g # h
    BY <2>1, Handlers
  <2>3. HandlerOf(g) \in Thread /\ HostOf(HandlerOf(g)) = g
    BY <2>2, Handlers
  <2> QED  BY <2>1, <2>2, <2>3 DEF Host
<1>2. /\ thr \in [Thread -> Locals] /\ sess \in [Host -> Sessions]
      /\ used \in [Host -> Nat]
  BY DEF SMPInv, SMPTypeOK, TypeOK
<1> HIDE DEF h, g
<1>3. /\ thr'[t] = x /\ sess'[h] = s /\ used'[h] = n
      /\ thr'[HandlerOf(g)] = thr[HandlerOf(g)]
      /\ sess'[g] = sess[g] /\ used'[g] = used[g]
  BY <1>1, <1>2 DEF Step, h
<1>4. /\ AtomicNet'[h] = net'[h] \cup Hand(x)
      /\ AtomicNet'[g] = net'[g] \cup Hand(thr[HandlerOf(g)])
  BY <1>1, <1>3, MappedNext
<1>5. AtomicSess' = [AtomicSess EXCEPT ![h] = SeenSession(x, s)]
  <2>1. AtomicSess'[h] = SeenSession(x, s) /\ AtomicSess'[g] = AtomicSess[g]
    BY <1>1, <1>3, MappedNext, Mapped
  <2> QED  BY <1>1, <2>1, MappedNext, Mapped
<1>6. AtomicUsed' = [AtomicUsed EXCEPT ![h] = SeenUsed(x, n)]
  <2>1. AtomicUsed'[h] = SeenUsed(x, n) /\ AtomicUsed'[g] = AtomicUsed[g]
    BY <1>1, <1>3, MappedNext, Mapped
  <2> QED  BY <1>1, <2>1, MappedNext, Mapped
<1> QED  BY <1>1, <1>3, <1>4, <1>5, <1>6 DEF h, g

\* Fewer keys are barred; the secondary picks none.
LEMMA FewerBarred ==
    ASSUME NEW h, NEW x, NEW s, NEW n, NEW L, NEW M,
           \A k \in Key : k \in M => k \in L \/ h = "sec", Working(h, x, s, n, L)
    PROVE  Working(h, x, s, n, M)
<1>1. CASE h = "sec"
  <2>1. \A b, m : Base(h, x, b, m, L) <=> Base(h, x, b, m, M)
    BY <1>1 DEF Base
  <2>2. \A a, k : Ready(h, x, a, k, L) <=> Ready(h, x, a, k, M)
    BY <1>1 DEF Ready
  <2>3. Failed(h, x, s, n, L) <=> Failed(h, x, s, n, M)
    BY <2>1 DEF Failed
  <2> QED  BY <1>1, <2>1, <2>2, <2>3 DEF Working, Doing
<1>2. CASE \A k \in Key : k \in M => k \in L
  <2>1. \A r, b, m : Picked(r, b, m, L) => Picked(r, b, m, M)
    <3> TAKE r, b, m
    <3> HAVE Picked(r, b, m, L)
    <3> QED  BY <1>2 DEF Picked
  <2>2. \A b, m : Base(h, x, b, m, L) => Base(h, x, b, m, M)
    BY <2>1 DEF Base
  <2>3. \A a, k : Ready(h, x, a, k, L) => Ready(h, x, a, k, M)
    BY <2>1 DEF Ready
  <2>4. Failed(h, x, s, n, L) => Failed(h, x, s, n, M)
    BY <2>2 DEF Failed
  <2> QED  BY <2>1, <2>2, <2>3, <2>4 DEF Working, Doing
<1> QED  BY <1>1, <1>2

-----------------------------------------------------------------------------
(* Steps of packet_handler that P3Session does not see                      *)

Seen == <<AtomicSess, AtomicNet, AtomicUsed>>

\* A step after which the session, the packets and the keys look the same.
LEMMA Silent ==
    ASSUME OneEachHost, SMPInv, RefInv, NEW t \in Thread, NEW x, NEW s, NEW n,
           Step(t, x, s, n), net' = net,
           SeenSession(x, s) = SeenSession(thr[t], sess[HostOf(t)]),
           SeenUsed(x, n) = SeenUsed(thr[t], used[HostOf(t)]),
           Hand(x) = Hand(thr[t]),
           Working(HostOf(t), x, s, n, Atomic!LiveKeys),
           Open(x) /\ x.pkt = NoPacket => RoomFor(HostOf(t), x.was)
    PROVE  RefInv' /\ UNCHANGED Seen
<1> DEFINE h == HostOf(t)
           g == Peer(h)
<1>1. /\ h \in Host /\ g \in Host /\ g # h /\ HandlerOf(h) = t /\ Peer(g) = h
      /\ \A k \in Host : k = h \/ k = g
  <2>1. h \in Host /\ HandlerOf(h) = t
    BY Handlers
  <2> QED  BY <2>1, Handlers DEF Host
<1>2. /\ thr'[HandlerOf(h)] = x /\ sess'[h] = s /\ used'[h] = n
      /\ thr'[HandlerOf(g)] = thr[HandlerOf(g)]
      /\ sess'[g] = sess[g] /\ used'[g] = used[g]
      /\ AtomicSess' = [AtomicSess EXCEPT ![h] = SeenSession(x, s)]
      /\ AtomicUsed' = [AtomicUsed EXCEPT ![h] = SeenUsed(x, n)]
      /\ AtomicNet'[h] = net'[h] \cup Hand(x)
      /\ AtomicNet'[g] = net'[g] \cup Hand(thr[HandlerOf(g)])
  BY StepMapped
<1> HIDE DEF h, g
<1>3. AtomicSess' = AtomicSess /\ AtomicUsed' = AtomicUsed
  <2>1. AtomicSess[h] = SeenSession(x, s) /\ AtomicUsed[h] = SeenUsed(x, n)
    BY <1>1, Mapped DEF h
  <2> QED  BY <1>2, <2>1, Mapped
<1>4. AtomicNet' = AtomicNet
  <2>1. AtomicNet'[h] = AtomicNet[h] /\ AtomicNet'[g] = AtomicNet[g]
    BY <1>1, <1>2, Mapped
  <2> QED  BY <1>1, <2>1, Mapped, MappedNext
<1>5. Atomic!LiveKeys' = Atomic!LiveKeys
  BY <1>3, <1>4 DEF Atomic!LiveKeys
<1>6. RefOK(h)'
  <2>1. RefOK(h)
    BY <1>1 DEF RefInv
  <2>2. Open(x) /\ x.pkt = NoPacket => RoomFor(h, x.was)'
    BY <1>4 DEF RoomFor, h
  <2> QED  BY <1>1, <1>2, <1>3, <1>4, <1>5, <2>1, <2>2 DEF RefOK, h
<1>7. RefOK(g)'
  <2>1. RefOK(g)
    BY <1>1 DEF RefInv
  <2>2. \A w : RoomFor(g, w) => RoomFor(g, w)'
    BY <1>4 DEF RoomFor
  <2> QED  BY <1>1, <1>2, <1>3, <1>4, <1>5, <2>1, <2>2 DEF RefOK
<1> QED  BY <1>1, <1>3, <1>4, <1>6, <1>7 DEF RefInv, Seen

\* A step of a handler that has had no effect before and has none now.
LEMMA GoesOn ==
    ASSUME OneEachHost, SMPInv, RefInv, NEW t \in Thread, NEW x, NEW s, NEW n,
           Step(t, x, s, n), net' = net, Open(thr[t]), Open(x),
           x.was = thr[t].was, x.pkt = thr[t].pkt, thr[t].was.sess.sseq <= s.sseq,
           Doing(HostOf(t), x, s, n, Atomic!LiveKeys)
    PROVE  RefInv' /\ UNCHANGED Seen
<1>1. RefOK(HostOf(t)) /\ HandlerOf(HostOf(t)) = t
  BY Handlers DEF RefInv
<1>2. Open(x) /\ x.pkt = NoPacket => RoomFor(HostOf(t), x.was)
  BY <1>1 DEF RefOK
<1>3. Working(HostOf(t), x, s, n, Atomic!LiveKeys)
  BY DEF Working, Open
<1>4. /\ SeenSession(x, s) = SeenSession(thr[t], sess[HostOf(t)])
      /\ SeenUsed(x, n) = SeenUsed(thr[t], used[HostOf(t)])
      /\ Hand(x) = Hand(thr[t])
  BY DEF SeenSession, SeenUsed, Hand
<1> QED  BY <1>2, <1>3, <1>4, Silent

\* What holds of a thread before its step.
LEMMA RefBefore ==
    ASSUME OneEachHost, SMPInv, RefInv, NEW t \in Thread
    PROVE  LET h == HostOf(t)
           IN  /\ thr[t] \in Locals /\ thr \in [Thread -> Locals]
               /\ sess[h] \in Sessions /\ sess \in [Host -> Sessions]
               /\ used[h] \in Nat /\ used \in [Host -> Nat]
               /\ h \in Host /\ Flow(h, thr[t])
               /\ Working(h, thr[t], sess[h], used[h], Atomic!LiveKeys)
               /\ Open(thr[t]) /\ thr[t].pkt = NoPacket => RoomFor(h, thr[t].was)
<1>1. RefOK(HostOf(t)) /\ HandlerOf(HostOf(t)) = t
  BY Handlers DEF RefInv
<1>2. /\ sess \in [Host -> Sessions] /\ used \in [Host -> Nat]
  BY DEF SMPInv, SMPTypeOK, TypeOK
<1> QED  BY <1>1, <1>2, Before DEF RefOK

-----------------------------------------------------------------------------
(* Sending a data packet                                                    *)

\* The packets in the peer's hands have been counted.
LEMMA RoomSeen ==
    ASSUME OneEachHost, SMPInv, RefInv, NEW h \in Host, RoomInHands(h)
    PROVE  RoomFor(h, [sess |-> sess[h], used |-> used[h]])
<1> DEFINE g == Peer(h)
           u == HandlerOf(g)
           H == {t \in Thread : HostOf(t) = Peer(h) /\ thr[t].pkt # NoPacket}
<1>1. /\ Cardinality(net[g]) + Cardinality(H) < MaxNet
      /\ used[h] < MaxPerKey /\ sess[h].sseq < MaxSeq
  BY DEF RoomInHands, Room
<1>2. /\ g \in Host /\ u \in Thread /\ \A t \in Thread : HostOf(t) = g <=> t = u
  BY Handlers
<1>3. IsFiniteSet(net[g]) /\ Cardinality(net[g]) \in Nat
  BY <1>2, FS_CardinalityType DEF RefInv, RefOK
<1>4. AtomicNet[g] = net[g] \cup Hand(thr[u])
  BY <1>2, Mapped
<1>5. CASE Hand(thr[u]) = {}
  <2>1. H = {} \/ H = {u}
    BY <1>2
  <2> HIDE DEF H
  <2>2. Cardinality(H) = 0 \/ Cardinality(H) = 1
    BY <2>1, FS_EmptySet, FS_Singleton, Zenon
  <2>3. Cardinality(AtomicNet[g]) < MaxNet
    <3>1. AtomicNet[g] = net[g]
      BY <1>4, <1>5
    <3> QED  BY <1>1, <1>3, <2>2, <3>1, BoundAssumption
  <2> QED  BY <1>1, <2>3 DEF RoomFor
<1>6. CASE Hand(thr[u]) # {}
  <2>1. Hand(thr[u]) = {thr[u].pkt} /\ thr[u].pkt # NoPacket
    BY <1>6 DEF Hand
  <2>2. H = {u}
    BY <1>2, <2>1
  <2>3. Cardinality(H) = 1
    BY <2>2, FS_Singleton
  <2> HIDE DEF H, g
  <2>4. /\ IsFiniteSet(AtomicNet[g])
        /\ \/ Cardinality(AtomicNet[g]) = Cardinality(net[g])
           \/ Cardinality(AtomicNet[g]) = Cardinality(net[g]) + 1
    <3> DEFINE N == net[g]
               p == thr[u].pkt
    <3>1. IsFiniteSet(N) /\ AtomicNet[g] = N \cup {p}
      BY <1>3, <1>4, <2>1
    <3> HIDE DEF N, p
    <3>2. /\ IsFiniteSet(N \cup {p})
          /\ \/ Cardinality(N \cup {p}) = Cardinality(N)
             \/ Cardinality(N \cup {p}) = Cardinality(N) + 1
      BY <3>1, FS_AddElement
    <3> QED  BY <3>1, <3>2 DEF N
  <2>5. Cardinality(AtomicNet[g]) \in Nat
    BY <2>4, FS_CardinalityType
  <2>6. Cardinality(AtomicNet[g]) < MaxNet
    BY <1>1, <1>3, <2>3, <2>4, <2>5, BoundAssumption
  <2> QED  BY <1>1, <2>6 DEF RoomFor, g
<1> QED  BY <1>5, <1>6

\* p3_lookup of a packet to be sent.
LEMMA LookupRefines ==
    ASSUME OneEachHost, SMPInv, RefInv, NEW t \in Thread, Lookup(t)
    PROVE  RefInv' /\ UNCHANGED Seen
<1> DEFINE h == HostOf(t)
           x == Begin(h, IF h = "pri" /\ RekeyDue(sess[h]) THEN "build" ELSE "take")
<1>1. /\ thr' = [thr EXCEPT ![t] = x] /\ UNCHANGED <<sess, net, used, slock>>
      /\ RoomInHands(h) /\ thr[t].pc = "idle"
  BY DEF Lookup, At
<1>2. /\ sess[h] \in Sessions /\ sess \in [Host -> Sessions] /\ used \in [Host -> Nat]
      /\ h \in Host /\ thr[t].job = "none" /\ ~Open(thr[t])
  BY <1>1, RefBefore DEF Flow, Open
<1>3. /\ x.was = [sess |-> sess[h], used |-> used[h]] /\ x.job = "none" /\ ~x.sent
      /\ x.pkt = NoPacket
      /\ x.pc = IF h = "pri" /\ RekeyDue(sess[h]) THEN "build" ELSE "take"
      /\ x.out = NoPacket
  BY IdleType DEF Begin, Locals, Idle
<1> HIDE DEF x
<1>4. Open(x) /\ RoomFor(h, x.was)
  BY <1>1, <1>2, <1>3, RoomSeen DEF Open
<1>5. Step(t, x, sess[h], used[h])
  BY <1>1, <1>2 DEF Step
<1>6. /\ SeenSession(x, sess[h]) = SeenSession(thr[t], sess[h])
      /\ SeenUsed(x, used[h]) = SeenUsed(thr[t], used[h])
      /\ Hand(x) = Hand(thr[t])
  BY <1>2, <1>3, <1>4 DEF SeenSession, SeenUsed, Hand, Completed
<1>7. Working(h, x, sess[h], used[h], Atomic!LiveKeys)
  <2>1. x.was.sess = sess[h] /\ x.was.used = used[h] /\ sess[h].sseq <= sess[h].sseq
    BY <1>2, <1>3, SessionNat
  <2>2. ~x.out.copy
    BY <1>3 DEF NoPacket
  <2> QED  BY <1>2, <1>3, <1>4, <2>1, <2>2 DEF Working, Doing, Same, Ready, Sending
<1> QED  BY <1>1, <1>4, <1>5, <1>6, <1>7, Silent

\* What is left to be done takes no number and finds no key.
LEMMA CompletedFields ==
    ASSUME NEW x, NEW s \in Sessions
    PROVE  /\ Completed(x, s).sseq = s.sseq
           /\ SessionKeys(Completed(x, s)) \subseteq SessionKeys(s)
<1> DEFINE c == Completed(x, s)
           k == [de |-> s.newkey.d, dd |-> s.newkey.d, ce |-> s.newkey.c, cd |-> s.newkey.c]
<1>1. SwitchKeys(s, x.pkt.msg.num, 4)
        = [s EXCEPT !.ctx0 = s.ctx1, !.ctx1 = k, !.rID0 = s.rID1,
                    !.rID1 = x.pkt.msg.num, !.rekey = FALSE]
  BY DEF SwitchKeys, p3_rekey, Sessions
<1>2. /\ c.sseq = s.sseq /\ c.newkey = s.newkey
      /\ \/ c.ctx0 = s.ctx0 /\ c.ctx1 = s.ctx1
         \/ c.ctx0 = s.ctx1 /\ c.ctx1 = k
  <2> HIDE DEF k
  <2>1. CASE x.job = "rekey" /\ x.pc = "switch"
    <3>1. c = SwitchKeys(s, x.pkt.msg.num, 4)
      BY <2>1 DEF Completed
    <3> HIDE DEF c
    <3> QED  BY <1>1, <3>1 DEF Sessions
  <2>2. CASE ~(x.job = "rekey" /\ x.pc = "switch")
    BY <2>2 DEF Completed, Sessions
  <2> QED  BY <2>1, <2>2
<1>3. k.de \in {s.newkey.d} /\ k.dd \in {s.newkey.d} /\ k.ce \in {s.newkey.c} /\ k.cd \in {s.newkey.c}
  OBVIOUS
<1> HIDE DEF c, k
<1>4. SessionKeys(c) \subseteq SessionKeys(s)
  BY <1>2, <1>3 DEF SessionKeys, CtxKeys
<1> QED  BY <1>2, <1>4 DEF c

\* A key that is not held is not one that P3Session sees.
LEMMA HeldSeen ==
    ASSUME OneEachHost, SMPInv
    PROVE  Atomic!LiveKeys \subseteq HeldKeys
<1> SUFFICES ASSUME NEW k \in Atomic!LiveKeys PROVE k \in HeldKeys
  OBVIOUS
<1>1. PICK h \in Host : \/ k \in SessionKeys(AtomicSess[h])
                        \/ \E p \in AtomicNet[h] : k \in PacketKeys(p)
  BY LiveIs
<1> DEFINE t == HandlerOf(h)
<1>2. t \in Thread /\ sess[h] \in Sessions
  BY Handlers DEF SMPInv, SMPTypeOK, TypeOK
<1>3. \A j : j \in SessionKeys(sess[h]) \/ (\E p \in net[h] : j \in PacketKeys(p))
          => j \in LiveKeys
  BY DEF LiveKeys, SessionKeys, PacketKeys
<1>4. LiveKeys \subseteq HeldKeys
  BY DEF HeldKeys
<1>5. \A j : j \in PacketKeys(thr[t].pkt) => j \in HeldKeys
  BY <1>2 DEF HeldKeys
<1>6. \A j : thr[t].pc # "idle" /\ j \in SessionKeys(thr[t].was.sess) => j \in HeldKeys
  BY <1>2 DEF HeldKeys
<1> HIDE DEF t
<1>7. CASE k \in SessionKeys(AtomicSess[h])
  <2>1. AtomicSess[h] = SeenSession(thr[t], sess[h])
    BY Mapped DEF t
  <2>2. CASE Open(thr[t])
    BY <1>6, <1>7, <2>1, <2>2 DEF SeenSession, Open
  <2>3. CASE ~Open(thr[t])
    BY <1>2, <1>3, <1>4, <1>7, <2>1, <2>3, CompletedFields DEF SeenSession
  <2> QED  BY <2>2, <2>3
<1>8. CASE \E p \in AtomicNet[h] : k \in PacketKeys(p)
  <2>1. AtomicNet[h] = net[h] \cup Hand(thr[t])
    BY Mapped DEF t
  <2>2. \A p \in Hand(thr[t]) : p = thr[t].pkt
    BY DEF Hand
  <2> QED  BY <1>3, <1>4, <1>5, <1>8, <2>1, <2>2
<1> QED  BY <1>1, <1>7, <1>8

\* The fields of a session with new keys.
LEMMA NewKeysFields ==
    ASSUME NEW s \in Sessions, NEW dk, NEW ck, NEW didx, NEW cidx
    PROVE  LET b == NewKeys(s, dk, ck, didx, cidx)
           IN  /\ b.sseq = s.sseq /\ b.rekey = s.rekey /\ b.ctx1 = s.ctx1
               /\ b.ctx0 = s.ctx0 /\ b.rID0 = s.rID0 /\ b.rID1 = s.rID1
BY DEF NewKeys, Sessions

\* Keys that have been picked.
LEMMA PickedFields ==
    ASSUME NEW s \in Sessions, NEW b, NEW m, NEW L, Picked(s, b, m, L)
    PROVE  /\ b \in Sessions /\ b.sseq = s.sseq /\ b.rekey = s.rekey /\ b.ctx1 = s.ctx1
           /\ m.type = "REPLACE_KEY"
<1>1. PICK fresh \in Key \ L, didx \in UseIndex, cidx \in UseIndex :
        \E dk \in GetKey(s.newkey.d, fresh), ck \in GetKey(s.newkey.c, fresh) :
          b = NewKeys(s, dk, ck, didx, cidx) /\ m = NewKeyMsg(dk, ck, didx, cidx)
  BY Zenon DEF Picked
<1>2. PICK dk \in GetKey(s.newkey.d, fresh), ck \in GetKey(s.newkey.c, fresh) :
          b = NewKeys(s, dk, ck, didx, cidx) /\ m = NewKeyMsg(dk, ck, didx, cidx)
  BY <1>1, Zenon
<1>3. dk \in Key /\ ck \in Key
  BY DEF GetKey, Sessions, KeyPair
<1>4. b \in Sessions
  BY <1>2, <1>3, NewKeysType
<1>5. m.type = "REPLACE_KEY"
  BY <1>2 DEF NewKeyMsg, ReplaceMsg
<1> QED  BY <1>2, <1>4, <1>5, NewKeysFields

\* build_newkey_message picks keys that P3Session may pick when the message
\* leaves; if it fails, the packet goes out under the old key.
LEMMA BuildNewKeysRefines ==
    ASSUME OneEachHost, SMPInv, RefInv, NEW t \in Thread, BuildNewKeys(t)
    PROVE  RefInv' /\ UNCHANGED Seen
<1> DEFINE h == HostOf(t)
           s == sess["pri"]
           L == Atomic!LiveKeys
<1>1. thr[t].pc = "build" /\ UNCHANGED <<net, used, slock>>
  BY DEF BuildNewKeys, At
<1>2. /\ thr[t] \in Locals /\ h = "pri" /\ s \in Sessions /\ thr[t].job = "none"
      /\ Open(thr[t]) /\ Working(h, thr[t], sess[h], used[h], L)
      /\ used \in [Host -> Nat] /\ sess \in [Host -> Sessions] /\ "pri" \in Host
  BY <1>1, RefBefore DEF Flow, Open, Host
<1>3. /\ s = thr[t].was.sess /\ used["pri"] = thr[t].was.used /\ RekeyDue(s)
      /\ thr[t].pkt = NoPacket /\ ~thr[t].out.copy
  BY <1>1, <1>2 DEF Working, Doing, Same
<1>4. PICK fresh \in Key \ HeldKeys, didx \in UseIndex, cidx \in UseIndex :
        \E dk \in GetKey(s.newkey.d, fresh), ck \in GetKey(s.newkey.c, fresh) :
          /\ sess' = [sess EXCEPT !["pri"] = NewKeys(s, dk, ck, didx, cidx)]
          /\ \/ thr' = [thr EXCEPT ![t].pc = "setrekey", ![t].job = "start",
                           ![t].out.msg = NewKeyMsg(dk, ck, didx, cidx)]
             \/ "sendfail" \in Env /\ Goto(t, "take")
  BY Zenon DEF BuildNewKeys
<1>5. PICK dk \in GetKey(s.newkey.d, fresh), ck \in GetKey(s.newkey.c, fresh) :
        /\ sess' = [sess EXCEPT !["pri"] = NewKeys(s, dk, ck, didx, cidx)]
        /\ \/ thr' = [thr EXCEPT ![t].pc = "setrekey", ![t].job = "start",
                         ![t].out.msg = NewKeyMsg(dk, ck, didx, cidx)]
           \/ "sendfail" \in Env /\ Goto(t, "take")
  BY <1>4, Zenon
<1> DEFINE b == NewKeys(s, dk, ck, didx, cidx)
           m == NewKeyMsg(dk, ck, didx, cidx)
<1>6. Picked(s, b, m, L)
  <2>1. fresh \in Key \ L
    BY HeldSeen
  <2> QED  BY <2>1, Zenon DEF Picked
<1> HIDE DEF b, m
<1>7. b \in Sessions /\ b.sseq = s.sseq /\ b.rekey = s.rekey
  BY <1>2, <1>6, PickedFields
<1>8. s.sseq <= b.sseq
  BY <1>2, <1>7, SessionNat
<1>9. ASSUME NEW x, thr' = [thr EXCEPT ![t] = x], Open(x), x.was = thr[t].was,
             x.pkt = thr[t].pkt, Doing(h, x, b, used[h], L)
      PROVE  RefInv' /\ UNCHANGED Seen
  <2>1. Step(t, x, b, used[h])
    BY <1>1, <1>2, <1>5, <1>9 DEF Step, b
  <2> QED  BY <1>1, <1>2, <1>3, <1>8, <1>9, <2>1, GoesOn
<1>10. CASE thr' = [thr EXCEPT ![t].pc = "setrekey", ![t].job = "start", ![t].out.msg = m]
  <2> DEFINE x == [thr[t] EXCEPT !.pc = "setrekey", !.job = "start", !.out.msg = m]
  <2>1. thr' = [thr EXCEPT ![t] = x]
    BY <1>10
  <2>2. /\ x.pc = "setrekey" /\ x.job = "start" /\ x.was = thr[t].was /\ x.pkt = thr[t].pkt
        /\ x.sent = thr[t].sent /\ x.out.msg = m /\ x.out.copy = thr[t].out.copy
    BY <1>2 DEF Locals, Packet
  <2> HIDE DEF x
  <2>3. Open(x)
    BY <1>2, <2>2 DEF Open
  <2>4. Doing(h, x, b, used[h], L)
    BY <1>2, <1>3, <1>6, <2>2 DEF Doing, Sending
  <2> QED  BY <1>9, <2>1, <2>2, <2>3, <2>4
<1>11. CASE "sendfail" \in Env /\ Goto(t, "take")
  <2> DEFINE x == [thr[t] EXCEPT !.pc = "take"]
  <2>1. thr' = [thr EXCEPT ![t] = x]
    BY <1>11 DEF Goto
  <2>2. /\ x.pc = "take" /\ x.was = thr[t].was /\ x.pkt = thr[t].pkt
        /\ x.sent = thr[t].sent
    BY <1>2 DEF Locals
  <2> HIDE DEF x
  <2>3. Open(x)
    BY <1>2, <2>2 DEF Open
  <2>4. Ready(h, x, b, used[h], L)
    <3>1. "unsent" \in Failing
      BY <1>11 DEF Failing, SendResult
    <3>2. b = [AfterSend(b, "unsent") EXCEPT !.rekey = FALSE]
      BY <1>3, <1>7 DEF AfterSend, Sessions, RekeyDue
    <3>3. used[h] = Numbers(x.was.used, "unsent")
      BY <1>2, <1>3, <2>2 DEF Numbers
    <3> QED  BY <1>2, <1>3, <1>6, <2>2, <3>1, <3>2, <3>3 DEF Ready
  <2>5. Doing(h, x, b, used[h], L)
    BY <2>2, <2>4 DEF Doing, Sending
  <2> QED  BY <1>9, <2>1, <2>2, <2>3, <2>5
<1> QED  BY <1>5, <1>10, <1>11 DEF m

\* The session a control message is sent from.
LEMMA BaseFields ==
    ASSUME NEW h \in Host, NEW x \in Locals, NEW b, NEW m, NEW L, Base(h, x, b, m, L)
    PROVE  LET s == x.was.sess
           IN  /\ s \in Sessions /\ b \in Sessions
               /\ b.sseq = s.sseq /\ b.ctx1 = s.ctx1
               /\ x.job = "start" => b.rekey
               /\ x.job # "start" => m.type = "REKEY" /\ b.rekey = s.rekey
<1> DEFINE s == x.was.sess
<1>1. s \in Sessions /\ x.pkt \in Packet
  BY DEF Locals
<1> HIDE DEF s
<1>2. CASE /\ x.job = "start"
           /\ \E c : Picked(s, c, m, L) /\ b = [c EXCEPT !.rekey = TRUE]
  <2>1. PICK c : Picked(s, c, m, L) /\ b = [c EXCEPT !.rekey = TRUE]
    BY <1>2
  <2>2. c \in Sessions /\ c.sseq = s.sseq /\ c.ctx1 = s.ctx1
    BY <1>1, <2>1, PickedFields
  <2>3. b \in Sessions /\ b.sseq = c.sseq /\ b.ctx1 = c.ctx1 /\ b.rekey
    BY <2>1, <2>2 DEF Sessions
  <2> QED  BY <1>1, <1>2, <2>2, <2>3 DEF s
<1>3. CASE /\ x.job # "start" /\ m.type = "REKEY"
           /\ \E p \in Packet :
                b = NewKeys(s, p.msg.d, p.msg.c, p.msg.d = NoKey, p.msg.c = NoKey)
  <2>1. PICK p \in Packet :
          b = NewKeys(s, p.msg.d, p.msg.c, p.msg.d = NoKey, p.msg.c = NoKey)
    BY <1>3
  <2>2. b \in Sessions
    <3>1. p.msg.d \in KeyOrNone /\ p.msg.c \in KeyOrNone
      BY DEF Packet, Message
    <3>2. s.newkey \in KeyPair
      BY <1>1 DEF Sessions
    <3> DEFINE k == [d |-> IF p.msg.d = NoKey THEN s.newkey.d ELSE p.msg.d,
                     c |-> IF p.msg.c = NoKey THEN s.newkey.c ELSE p.msg.c]
    <3>3. k \in KeyPair
      BY <3>1, <3>2 DEF KeyPair, KeyOrNone
    <3>4. b = [s EXCEPT !.newkey = k]
      BY <2>1 DEF NewKeys
    <3> HIDE DEF k
    <3> QED  BY <1>1, <3>3, <3>4 DEF Sessions
  <2> QED  BY <1>1, <1>3, <2>1, <2>2, NewKeysFields DEF s
<1>4. CASE x.job # "start" /\ m.type = "REKEY" /\ b = s
  BY <1>1, <1>4 DEF s
<1> QED  BY <1>1, <1>2, <1>3, <1>4 DEF Base, RekeyMsg, s

\* "Only set the Rekey flag once": it is not set yet.
LEMMA SetRekeyFlagRefines ==
    ASSUME OneEachHost, SMPInv, RefInv, NEW t \in Thread, SetRekeyFlag(t)
    PROVE  RefInv' /\ UNCHANGED Seen
<1> DEFINE h == HostOf(t)
           s == sess["pri"]
           b == [s EXCEPT !.rekey = TRUE]
           L == Atomic!LiveKeys
           w == thr[t].was
           x == [thr[t] EXCEPT !.pc = "control"]
<1>1. thr[t].pc = "setrekey" /\ UNCHANGED <<net, used>>
  BY DEF SetRekeyFlag, At
<1>2. /\ thr[t] \in Locals /\ h = "pri" /\ s \in Sessions /\ thr[t].job = "start"
      /\ Open(thr[t]) /\ Working(h, thr[t], sess[h], used[h], L)
      /\ used \in [Host -> Nat] /\ sess \in [Host -> Sessions] /\ "pri" \in Host
      /\ w.sess \in Sessions
  BY <1>1, RefBefore DEF Flow, Open, Host, Locals
<1>3. /\ RekeyDue(w.sess) /\ thr[t].pkt = NoPacket /\ ~thr[t].out.copy
      /\ Picked(w.sess, s, thr[t].out.msg, L) /\ used["pri"] = w.used
  BY <1>1, <1>2 DEF Working, Doing
<1>4. s.sseq = w.sess.sseq /\ ~s.rekey
  BY <1>2, <1>3, PickedFields DEF RekeyDue
<1>5. sess' = [sess EXCEPT !["pri"] = b] /\ thr' = [thr EXCEPT ![t] = x]
  BY <1>4 DEF SetRekeyFlag, SetRekey, Goto
<1>6. b.sseq = s.sseq /\ w.sess.sseq <= b.sseq /\ b = AfterSend(b, "unsent")
  BY <1>2, <1>4, SessionNat DEF Sessions, AfterSend
<1>7. /\ x.pc = "control" /\ x.job = "start" /\ x.was = w /\ x.pkt = thr[t].pkt
      /\ x.sent = thr[t].sent /\ x.out = thr[t].out
  BY <1>2 DEF Locals
<1> HIDE DEF x, w, L
<1>8. Base(h, x, b, x.out.msg, L)
  <2>1. \E c : Picked(w.sess, c, x.out.msg, L) /\ b = [c EXCEPT !.rekey = TRUE]
    BY <1>3, <1>7
  <2> HIDE DEF b
  <2> QED  BY <1>2, <1>3, <1>7, <2>1 DEF Base
<1> HIDE DEF b
<1>9. Doing(h, x, b, used[h], L)
  <2>1. Built(x, b, x.out.msg)
    BY <1>3, <1>7 DEF Built
  <2>2. used[h] = Numbers(x.was.used, "unsent")
    BY <1>2, <1>3, <1>7 DEF Numbers
  <2> QED  BY <1>6, <1>7, <1>8, <2>1, <2>2 DEF Doing, Sending
<1>10. Step(t, x, b, used[h])
  BY <1>1, <1>2, <1>5 DEF Step
<1>11. Open(x)
  BY <1>2, <1>7 DEF Open
<1> QED  BY <1>1, <1>2, <1>6, <1>7, <1>9, <1>10, <1>11, GoesOn DEF w, L

\* The number after the present one.
LEMMA NextNumber ==
    ASSUME SMPInv, BelowWrap, NEW h \in Host
    PROVE  /\ Advance(sess[h]) \in Sessions
           /\ Advance(sess[h]).sseq = sess[h].sseq + 1 /\ sess[h].sseq \in Nat
           /\ SuccSeq(sess[h].sseq) = sess[h].sseq + 1
<1>1. sess[h] \in Sessions
  BY DEF SMPInv, SMPTypeOK, TypeOK
<1>2. sess[h].sseq \in Nat /\ sess[h].sseq + 1 < SeqMod
  BY <1>1, SessionNat DEF BelowWrap
<1>3. SuccSeq(sess[h].sseq) = sess[h].sseq + 1
  BY <1>2, SeqAssumption DEF SuccSeq
<1>4. Advance(sess[h]) \in Sessions
  BY <1>1, AdvanceType
<1>5. Advance(sess[h]).sseq = SuccSeq(sess[h].sseq)
  BY <1>1 DEF Advance, Sessions
<1> QED  BY <1>2, <1>3, <1>4, <1>5

\* A handler that has returned holds nothing.
LEMMA IdleSeen ==
    /\ ~Open(Idle) /\ ~Idle.sent /\ Hand(Idle) = {}
    /\ \A h, s, n, L : /\ SeenSession(Idle, s) = s /\ SeenUsed(Idle, n) = n
                       /\ Working(h, Idle, s, n, L)
<1>1. ~Open(Idle) /\ ~Idle.sent /\ Idle.job = "none"
  BY IdleType DEF Open
<1> QED  BY <1>1 DEF Hand, SeenSession, SeenUsed, Completed, Working

\* The session a data packet is sent from.
LEMMA ReadyFields ==
    ASSUME NEW h, NEW x \in Locals, NEW a, NEW n, NEW L, Ready(h, x, a, n, L)
    PROVE  /\ a \in Sessions /\ a.ctx1 = x.was.sess.ctx1
           /\ a.rekey => a = x.was.sess /\ n = x.was.used
<1> DEFINE s == x.was.sess
<1>1. s \in Sessions
  BY DEF Locals
<1>2. ASSUME NEW b, NEW m, NEW res \in Failing, Picked(s, b, m, L)
      PROVE  LET c == [AfterSend(b, res) EXCEPT !.rekey = FALSE]
             IN  c \in Sessions /\ c.ctx1 = s.ctx1 /\ ~c.rekey
  <2>1. b \in Sessions /\ b.ctx1 = s.ctx1
    BY <1>1, <1>2, PickedFields
  <2>2. AfterSend(b, res) \in Sessions /\ AfterSend(b, res).ctx1 = b.ctx1
    BY <2>1, AfterSendType DEF AfterSend, Advance, Sessions
  <2> QED  BY <2>1, <2>2 DEF Sessions
<1> QED  BY <1>1, <1>2 DEF Ready

\* The packet gets its number; or is dropped, and nothing has happened.
LEMMA TakeNumberRefines ==
    ASSUME OneEachHost, SMPInv, RefInv, BelowWrap, NEW t \in Thread, TakeNumber(t)
    PROVE  RefInv' /\ UNCHANGED Seen
<1> DEFINE h == HostOf(t)
           s == sess[h]
           L == Atomic!LiveKeys
           w == thr[t].was
<1>1. thr[t].pc = "take" /\ net' = net
  BY DEF TakeNumber, At
<1>2. /\ thr[t] \in Locals /\ s \in Sessions /\ h \in Host
      /\ Working(h, thr[t], s, used[h], L)
      /\ used \in [Host -> Nat] /\ sess \in [Host -> Sessions] /\ w.sess \in Sessions
  BY <1>1, RefBefore DEF Locals
<1>3. Open(thr[t]) => Ready(h, thr[t], s, used[h], L) /\ w.sess.sseq <= s.sseq
  BY <1>1, <1>2 DEF Working, Doing
<1>4. ~Open(thr[t]) => thr[t].sent /\ s.rekey /\ thr[t].job = "start"
  BY <1>1, <1>2 DEF Open, Working, Leaving
<1>5. CASE s.rekey /\ Return(t) /\ UNCHANGED <<sess, used>>
  <2>1. Step(t, Idle, s, used[h])
    BY <1>2, <1>5 DEF Step, Return
  <2>2. Hand(thr[t]) = {}
    BY <1>3 DEF Hand, Ready
  <2>3. SeenSession(thr[t], s) = s /\ SeenUsed(thr[t], used[h]) = used[h]
    <3>1. CASE Open(thr[t])
      <4>1. s = w.sess /\ used[h] = w.used
        BY <1>2, <1>3, <1>5, <3>1, ReadyFields
      <4> QED  BY <3>1, <4>1 DEF SeenSession, SeenUsed
    <3>2. CASE ~Open(thr[t])
      BY <1>4, <3>2 DEF SeenSession, SeenUsed, Completed
    <3> QED  BY <3>1, <3>2
  <2> HIDE DEF h, s
  <2> QED  BY <1>1, <2>1, <2>2, <2>3, IdleSeen, Silent DEF h, s
<1>6. CASE /\ ~s.rekey
           /\ used' = [used EXCEPT ![h] = @ + 1]
           /\ thr' = [thr EXCEPT ![t].pc = "data",
                         ![t].out = [NoPacket EXCEPT !.seq = s.sseq]]
           /\ sess' = [sess EXCEPT ![h] = Advance(@)]
  <2> DEFINE o == [NoPacket EXCEPT !.seq = s.sseq]
             x == [thr[t] EXCEPT !.pc = "data", !.out = o]
  <2>1. Step(t, x, Advance(s), used[h] + 1)
    BY <1>2, <1>6 DEF Step
  <2>2. /\ x.pc = "data" /\ x.was = w /\ x.pkt = thr[t].pkt /\ x.out = o
        /\ x.sent = thr[t].sent
    BY <1>2 DEF Locals
  <2> HIDE DEF x
  <2>3. Open(thr[t]) /\ Open(x)
    BY <1>4, <1>6, <2>2 DEF Open
  <2>4. Ready(h, x, s, used[h], L)
    BY <1>3, <2>2, <2>3 DEF Ready
  <2>5. Doing(h, x, Advance(s), used[h] + 1, L)
    BY <1>6, <2>2, <2>4 DEF Doing, Sending
  <2>6. w.sess.sseq <= Advance(s).sseq
    <3>1. Advance(s).sseq = s.sseq + 1 /\ s.sseq \in Nat /\ w.sess.sseq \in Nat
      BY <1>2, NextNumber, SessionNat
    <3> QED  BY <1>3, <2>3, <3>1
  <2> QED  BY <1>1, <2>1, <2>2, <2>3, <2>5, <2>6, GoesOn
<1> QED  BY <1>5, <1>6 DEF TakeNumber

-----------------------------------------------------------------------------
(* Sending a control packet                                                 *)

\* The state of a handler that is in p3send_control.
LEMMA SendingState ==
    ASSUME OneEachHost, SMPInv, RefInv, NEW t \in Thread, thr[t].pc \in Sending
    PROVE  LET h == HostOf(t)
               x == thr[t]
               res == IF x.pc = "send" THEN "sent" ELSE "unsent"
           IN  /\ x \in Locals /\ Open(x) /\ x.was.sess.sseq <= sess[h].sseq
               /\ \E b, m : /\ Base(h, x, b, m, Atomic!LiveKeys) /\ Built(x, b, m)
                            /\ sess[h] = AfterSend(b, res)
                            /\ used[h] = Numbers(x.was.used, res)
<1> DEFINE h == HostOf(t)
           x == thr[t]
<1>1. x \in Locals /\ Working(h, x, sess[h], used[h], Atomic!LiveKeys) /\ Flow(h, x)
  BY RefBefore
<1>2. Open(x)
  BY <1>1 DEF Open, Flow, Sending
<1> QED  BY <1>1, <1>2 DEF Working, Doing

\* The next part of the packet is built.
LEMMA BuildingRefines ==
    ASSUME OneEachHost, SMPInv, RefInv, NEW t \in Thread, NEW x,
           thr[t].pc \in Sending \ {"send"}, x.pc \in Sending \ {"send"},
           thr' = [thr EXCEPT ![t] = x], UNCHANGED <<sess, net, used>>,
           x.job = thr[t].job, x.pkt = thr[t].pkt, x.was = thr[t].was, x.sent = thr[t].sent,
           \A m : Built(thr[t], sess[HostOf(t)], m) => Built(x, sess[HostOf(t)], m)
    PROVE  RefInv' /\ UNCHANGED Seen
<1> DEFINE h == HostOf(t)
           s == sess[h]
           L == Atomic!LiveKeys
<1>1. /\ Open(thr[t]) /\ thr[t].was.sess.sseq <= s.sseq
      /\ \E b, m : /\ Base(h, thr[t], b, m, L) /\ Built(thr[t], b, m)
                   /\ s = AfterSend(b, "unsent")
                   /\ used[h] = Numbers(thr[t].was.used, "unsent")
  BY SendingState
<1>2. PICK m : /\ Base(h, thr[t], s, m, L) /\ Built(thr[t], s, m)
               /\ used[h] = Numbers(thr[t].was.used, "unsent")
  BY <1>1 DEF AfterSend
<1>3. Base(h, x, s, m, L) /\ Built(x, s, m)
  BY <1>2 DEF Base, Refuses
<1>4. Doing(h, x, s, used[h], L)
  <2>1. s = AfterSend(s, "unsent") /\ used[h] = Numbers(x.was.used, "unsent")
    BY <1>2 DEF AfterSend
  <2>2. x.pc \in Sending /\ x.pc # "send"
    OBVIOUS
  <2> HIDE DEF s, h, L
  <2> QED  BY <1>3, <2>1, <2>2 DEF Doing, Sending
<1>5. Step(t, x, s, used[h])
  BY RefBefore DEF Step
<1>6. Open(x)
  BY <1>1 DEF Open, Sending
<1> QED  BY <1>1, <1>4, <1>5, <1>6, GoesOn

\* The message is encrypted, the header is built, the packet is encrypted.
LEMMA EncryptControlRefines ==
    ASSUME OneEachHost, SMPInv, RefInv, NEW t \in Thread, EncryptControl(t)
    PROVE  RefInv' /\ UNCHANGED Seen
<1> DEFINE s == sess[HostOf(t)]
           x == [thr[t] EXCEPT !.pc = "header", !.iv = s.sseq, !.out.ck = s.ctx1.ce]
<1>1. thr[t].pc = "control" /\ UNCHANGED <<sess, net, used>> /\ thr' = [thr EXCEPT ![t] = x]
  BY RefBefore DEF EncryptControl, At
<1>2. thr[t] \in Locals
  BY RefBefore
<1> HIDE DEF s
<1>3. /\ x.pc = "header" /\ x.iv = s.sseq /\ x.job = thr[t].job /\ x.pkt = thr[t].pkt
      /\ x.was = thr[t].was /\ x.sent = thr[t].sent
      /\ x.out = [thr[t].out EXCEPT !.ck = s.ctx1.ce]
  BY <1>2 DEF Locals
<1>4. x.out.msg = thr[t].out.msg /\ x.out.copy = thr[t].out.copy /\ x.out.ck = s.ctx1.ce
  BY <1>2, <1>3 DEF Locals, Packet
<1> HIDE DEF x
<1>5. \A m : Built(thr[t], s, m) => Built(x, s, m)
  BY <1>3, <1>4 DEF Built
<1> QED  BY <1>1, <1>3, <1>5, BuildingRefines DEF Sending, s

\* ... the header gets the same number ...
LEMMA BuildHeaderRefines ==
    ASSUME OneEachHost, SMPInv, RefInv, NEW t \in Thread, BuildHeader(t)
    PROVE  RefInv' /\ UNCHANGED Seen
<1> DEFINE s == sess[HostOf(t)]
           x == [thr[t] EXCEPT !.pc = "packet", !.out.seq = s.sseq,
                   !.out.ck = IF s.sseq = thr[t].iv THEN @ ELSE NoKey]
<1>1. thr[t].pc = "header" /\ UNCHANGED <<sess, net, used>> /\ thr' = [thr EXCEPT ![t] = x]
  BY RefBefore DEF BuildHeader, At
<1>2. thr[t] \in Locals
  BY RefBefore
<1> HIDE DEF s
<1>3. /\ x.pc = "packet" /\ x.job = thr[t].job /\ x.pkt = thr[t].pkt
      /\ x.was = thr[t].was /\ x.sent = thr[t].sent
      /\ x.out = [thr[t].out EXCEPT !.seq = s.sseq,
                    !.ck = IF s.sseq = thr[t].iv THEN @ ELSE NoKey]
  BY <1>2 DEF Locals
<1>4. /\ x.out.msg = thr[t].out.msg /\ x.out.copy = thr[t].out.copy /\ x.out.seq = s.sseq
      /\ s.sseq = thr[t].iv => x.out.ck = thr[t].out.ck
  BY <1>2, <1>3 DEF Locals, Packet
<1> HIDE DEF x
<1>5. \A m : Built(thr[t], s, m) => Built(x, s, m)
  BY <1>1, <1>3, <1>4 DEF Built
<1> QED  BY <1>1, <1>3, <1>5, BuildingRefines DEF Sending, s

\* ... and so does the packet that is encrypted.
LEMMA EncryptPacketRefines ==
    ASSUME OneEachHost, SMPInv, RefInv, NEW t \in Thread, EncryptPacket(t)
    PROVE  RefInv' /\ UNCHANGED Seen
<1> DEFINE s == sess[HostOf(t)]
           k == IF s.sseq = thr[t].out.seq THEN s.ctx1.de ELSE NoKey
           x == [thr[t] EXCEPT !.pc = "number", !.out.dk = k]
<1>1. thr[t].pc = "packet" /\ UNCHANGED <<sess, net, used>> /\ thr' = [thr EXCEPT ![t] = x]
  BY RefBefore DEF EncryptPacket, At
<1>2. thr[t] \in Locals
  BY RefBefore
<1>3. s.sseq = thr[t].out.seq => k = s.ctx1.de
  OBVIOUS
<1> HIDE DEF s, k
<1>4. /\ x.pc = "number" /\ x.job = thr[t].job /\ x.pkt = thr[t].pkt
      /\ x.was = thr[t].was /\ x.sent = thr[t].sent
      /\ x.out = [thr[t].out EXCEPT !.dk = k]
  BY <1>2 DEF Locals
<1>5. /\ x.out.msg = thr[t].out.msg /\ x.out.copy = thr[t].out.copy
      /\ x.out.seq = thr[t].out.seq /\ x.out.ck = thr[t].out.ck /\ x.out.dk = k
  BY <1>2, <1>4 DEF Locals, Packet
<1> HIDE DEF x
<1>6. \A m : Built(thr[t], s, m) => Built(x, s, m)
  BY <1>1, <1>3, <1>4, <1>5 DEF Built
<1> QED  BY <1>1, <1>4, <1>6, BuildingRefines DEF Sending, s

\* The number is taken.
LEMMA NumberRefines ==
    ASSUME OneEachHost, SMPInv, RefInv, BelowWrap, NEW t \in Thread, Number(t)
    PROVE  RefInv' /\ UNCHANGED Seen
<1> DEFINE h == HostOf(t)
           s == sess[h]
           L == Atomic!LiveKeys
           x == [thr[t] EXCEPT !.pc = "send"]
<1>1. thr[t].pc = "number" /\ net' = net /\ Step(t, x, Advance(s), used[h] + 1)
  BY RefBefore DEF Number, At, Step, Goto
<1>2. /\ thr[t] \in Locals /\ Open(thr[t]) /\ thr[t].was.sess.sseq <= s.sseq
      /\ \E b, m : /\ Base(h, thr[t], b, m, L) /\ Built(thr[t], b, m)
                   /\ s = AfterSend(b, "unsent")
                   /\ used[h] = Numbers(thr[t].was.used, "unsent")
  BY <1>1, SendingState DEF Sending
<1>3. PICK m : /\ Base(h, thr[t], s, m, L) /\ Built(thr[t], s, m)
               /\ used[h] = Numbers(thr[t].was.used, "unsent")
  BY <1>2 DEF AfterSend
<1>4. /\ x.pc = "send" /\ x.job = thr[t].job /\ x.pkt = thr[t].pkt
      /\ x.was = thr[t].was /\ x.sent = thr[t].sent /\ x.out = thr[t].out
  BY <1>2 DEF Locals
<1> HIDE DEF x, s, h, L
<1>5. Base(h, x, s, m, L) /\ Built(x, s, m) /\ Open(x)
  BY <1>1, <1>2, <1>3, <1>4 DEF Base, Built, Refuses, Open
<1>6. Doing(h, x, Advance(s), used[h] + 1, L)
  <2>1. Advance(s) = AfterSend(s, "sent") /\ used[h] + 1 = Numbers(x.was.used, "sent")
    BY <1>3, <1>4 DEF AfterSend, Numbers
  <2> QED  BY <1>4, <1>5, <2>1 DEF Doing, Sending
<1>7. thr[t].was.sess.sseq <= Advance(s).sseq
  <2>1. h \in Host /\ thr[t].was.sess.sseq \in Nat
    BY <1>2, RefBefore, SessionNat DEF Locals, h
  <2>2. Advance(s).sseq = s.sseq + 1 /\ s.sseq \in Nat
    BY <2>1, NextNumber DEF s
  <2> QED  BY <1>2, <2>1, <2>2
<1> QED  BY <1>1, <1>2, <1>4, <1>5, <1>6, <1>7, GoesOn DEF h, L

\* p3send_control fails.
LEMMA SendFailsRefines ==
    ASSUME OneEachHost, SMPInv, RefInv, NEW t \in Thread, SendFails(t)
    PROVE  RefInv' /\ UNCHANGED Seen
<1> DEFINE h == HostOf(t)
           s == sess[h]
           L == Atomic!LiveKeys
           x == [thr[t] EXCEPT !.pc = IF thr[t].job = "replace" THEN "giveup" ELSE "clear"]
           res == IF thr[t].pc = "send" THEN "sent" ELSE "unsent"
           fail == IF thr[t].pc = "send" THEN "advanced" ELSE "unsent"
<1>1. /\ thr[t].pc \in {"control", "packet", "send"} /\ UNCHANGED <<sess, net, used>>
      /\ thr' = [thr EXCEPT ![t] = x] /\ "sendfail" \in Env
  BY RefBefore DEF SendFails, At, Goto
<1>2. /\ thr[t] \in Locals /\ Open(thr[t]) /\ thr[t].was.sess.sseq <= s.sseq
      /\ \E b, m : /\ Base(h, thr[t], b, m, L)
                   /\ s = AfterSend(b, res)
                   /\ used[h] = Numbers(thr[t].was.used, res)
  BY <1>1, SendingState DEF Sending
<1>3. PICK b, m : /\ Base(h, thr[t], b, m, L) /\ s = AfterSend(b, fail)
                  /\ used[h] = Numbers(thr[t].was.used, fail)
  BY <1>2 DEF AfterSend, Numbers
<1>4. fail \in Failing
  BY <1>1 DEF Failing, SendResult
<1>5. Step(t, x, s, used[h])
  BY <1>1, RefBefore DEF Step
<1>6. /\ x.pc = IF thr[t].job = "replace" THEN "giveup" ELSE "clear"
      /\ x.job = thr[t].job /\ x.pkt = thr[t].pkt
      /\ x.was = thr[t].was /\ x.sent = thr[t].sent /\ x.out = thr[t].out
  BY <1>2 DEF Locals
<1> HIDE DEF x, s, h, L, fail
<1>7. Base(h, x, b, m, L) /\ Open(x)
  BY <1>2, <1>3, <1>6 DEF Base, Refuses, Open
<1>8. Failed(h, x, s, used[h], L)
  BY <1>3, <1>4, <1>6, <1>7 DEF Failed
<1>9. Doing(h, x, s, used[h], L)
  <2>1. h = "sec" => x.pc = "giveup"
    BY <1>6, <1>7 DEF Base
  <2> QED  BY <1>6, <1>8, <2>1 DEF Doing, Sending
<1> QED  BY <1>1, <1>2, <1>5, <1>6, <1>7, <1>9, GoesOn DEF h, L

-----------------------------------------------------------------------------
(* Receiving a packet                                                       *)

\* Once a packet is received the contexts are those P3Session chooses.
LEMMA ChosenIs ==
    ASSUME OneEachHost, SMPInv, RefInv, NEW t \in Thread,
           thr[t].pc \in {"decrypt", "message"}
    PROVE  LET h == HostOf(t)
               x == thr[t]
           IN  /\ Chosen(t) = Slot(sess[h], x.pkt.seq) /\ Same(x, sess[h], used[h])
               /\ x.pkt # NoPacket /\ ~x.out.copy /\ Open(x) /\ x \in Locals
               /\ x.job = "none" /\ x.was.sess.sseq <= sess[h].sseq
               /\ x.new = InNewRange(sess[h], x.pkt.seq)
               /\ x.pc = "message" => DataOpens(sess[h], x.pkt)
<1> DEFINE h == HostOf(t)
           x == thr[t]
<1>1. /\ x \in Locals /\ Working(h, x, sess[h], used[h], Atomic!LiveKeys) /\ Flow(h, x)
  BY RefBefore
<1>2. Open(x) /\ x.job = "none"
  BY <1>1 DEF Open, Flow
<1>3. /\ Same(x, sess[h], used[h]) /\ x.pkt # NoPacket /\ ~x.out.copy
      /\ x.new = InNewRange(sess[h], x.pkt.seq)
      /\ x.pc = "message" => DataOpens(sess[h], x.pkt)
      /\ x.was.sess.sseq <= sess[h].sseq
  BY <1>1, <1>2 DEF Working, Doing
<1>4. Chosen(t) = Slot(sess[h], x.pkt.seq)
  BY <1>3 DEF Chosen, Slot
<1> QED  BY <1>1, <1>2, <1>3, <1>4

\* A handler that goes on with the packet, its job perhaps being known now.
LEMMA ReceiverGoesOn ==
    ASSUME OneEachHost, SMPInv, RefInv, NEW t \in Thread, NEW pc, NEW job,
           thr' = [thr EXCEPT ![t].pc = pc, ![t].job = job],
           UNCHANGED <<sess, net, used>>, thr[t].pc = "message" \/ pc = "message",
           thr[t].pc \in {"decrypt", "message"}, pc # "idle",
           \A x : /\ x.pc = pc /\ x.job = job /\ x.pkt = thr[t].pkt /\ x.was = thr[t].was
                  /\ x.new = thr[t].new /\ x.out = thr[t].out
                  => Doing(HostOf(t), x, sess[HostOf(t)], used[HostOf(t)], Atomic!LiveKeys)
    PROVE  RefInv' /\ UNCHANGED Seen
<1> DEFINE h == HostOf(t)
           s == sess[h]
           x == [thr[t] EXCEPT !.pc = pc, !.job = job]
<1>1. /\ thr[t] \in Locals /\ Open(thr[t]) /\ thr[t].was.sess.sseq <= s.sseq
  BY ChosenIs
<1>2. Step(t, x, s, used[h])
  BY RefBefore DEF Step
<1>3. /\ x.pc = pc /\ x.job = job /\ x.pkt = thr[t].pkt /\ x.was = thr[t].was
      /\ x.new = thr[t].new /\ x.out = thr[t].out /\ x.sent = thr[t].sent
  BY <1>1 DEF Locals
<1> HIDE DEF x
<1>4. Doing(h, x, s, used[h], Atomic!LiveKeys)
  BY <1>3
<1>5. Open(x)
  BY <1>1, <1>3 DEF Open
<1> QED  BY <1>1, <1>2, <1>3, <1>4, <1>5, GoesOn

\* A control packet is opened; its message is not.
LEMMA DecryptRefines ==
    ASSUME OneEachHost, SMPInv, RefInv, NEW t \in Thread,
           UNCHANGED <<sess, net, used>>,
           \/ /\ thr[t].pc = "decrypt" /\ Chosen(t).dd = thr[t].pkt.dk
              /\ Goto(t, "message")
           \/ /\ thr[t].pc = "message" /\ Chosen(t).cd # thr[t].pkt.ck
              /\ Goto(t, "giveup")
    PROVE  RefInv' /\ UNCHANGED Seen
<1> DEFINE h == HostOf(t)
           s == sess[h]
           L == Atomic!LiveKeys
<1>1. /\ Chosen(t) = Slot(s, thr[t].pkt.seq) /\ Same(thr[t], s, used[h])
      /\ thr[t].pkt # NoPacket /\ ~thr[t].out.copy /\ thr[t].job = "none"
      /\ thr[t].new = InNewRange(s, thr[t].pkt.seq)
      /\ thr[t].pc = "message" => DataOpens(s, thr[t].pkt)
  BY ChosenIs
<1>2. \A pc : Goto(t, pc) => thr' = [thr EXCEPT ![t].pc = pc, ![t].job = "none"]
  <2> SUFFICES ASSUME NEW pc, Goto(t, pc)
               PROVE  thr' = [thr EXCEPT ![t].pc = pc, ![t].job = "none"]
    OBVIOUS
  <2>1. thr[t] \in Locals /\ thr \in [Thread -> Locals]
    BY RefBefore
  <2>2. [thr[t] EXCEPT !.pc = pc] = [thr[t] EXCEPT !.pc = pc, !.job = "none"]
    BY <1>1, <2>1 DEF Locals
  <2> QED  BY <2>2 DEF Goto
<1> HIDE DEF h, s, L
<1>3. CASE /\ thr[t].pc = "decrypt" /\ Chosen(t).dd = thr[t].pkt.dk
           /\ Goto(t, "message")
  <2>1. DataOpens(s, thr[t].pkt)
    BY <1>1, <1>3 DEF DataOpens
  <2>2. ASSUME NEW x, x.pc = "message", x.job = "none", x.pkt = thr[t].pkt,
               x.was = thr[t].was, x.new = thr[t].new, x.out = thr[t].out
        PROVE  Doing(h, x, s, used[h], L)
    <3>1. Same(x, s, used[h])
      BY <1>1, <2>2 DEF Same
    <3> QED  BY <1>1, <2>1, <2>2, <3>1 DEF Doing, Sending
  <2>3. thr' = [thr EXCEPT ![t].pc = "message", ![t].job = "none"]
    BY <1>2, <1>3
  <2>4. \A x : /\ x.pc = "message" /\ x.job = "none" /\ x.pkt = thr[t].pkt
               /\ x.was = thr[t].was /\ x.new = thr[t].new /\ x.out = thr[t].out
               => Doing(HostOf(t), x, sess[HostOf(t)], used[HostOf(t)], Atomic!LiveKeys)
    BY <2>2 DEF h, s, L
  <2>5. thr[t].pc \in {"decrypt", "message"}
    BY <1>3
  <2> QED  BY <1>3, <2>3, <2>4, <2>5, ReceiverGoesOn
<1>4. CASE /\ thr[t].pc = "message" /\ Chosen(t).cd # thr[t].pkt.ck
           /\ Goto(t, "giveup")
  <2>1. DataOpens(s, thr[t].pkt) /\ ~CtlOpens(s, thr[t].pkt)
    BY <1>1, <1>4 DEF CtlOpens
  <2>2. ASSUME NEW x, x.pc = "giveup", x.job = "none", x.pkt = thr[t].pkt,
               x.was = thr[t].was, x.new = thr[t].new, x.out = thr[t].out
        PROVE  Doing(h, x, s, used[h], L)
    <3>1. Same(x, s, used[h])
      BY <1>1, <2>2 DEF Same
    <3> QED  BY <2>1, <2>2, <3>1 DEF Doing, Sending
  <2>3. thr' = [thr EXCEPT ![t].pc = "giveup", ![t].job = "none"]
    BY <1>2, <1>4
  <2>4. \A x : /\ x.pc = "giveup" /\ x.job = "none" /\ x.pkt = thr[t].pkt
               /\ x.was = thr[t].was /\ x.new = thr[t].new /\ x.out = thr[t].out
               => Doing(HostOf(t), x, sess[HostOf(t)], used[HostOf(t)], Atomic!LiveKeys)
    BY <2>2 DEF h, s, L
  <2>5. thr[t].pc \in {"decrypt", "message"}
    BY <1>4
  <2> QED  BY <1>4, <2>3, <2>4, <2>5, ReceiverGoesOn
<1> QED  BY <1>3, <1>4

\* The packet in the handler's hands is one P3Session sees.
LEMMA InHand ==
    ASSUME OneEachHost, SMPInv, RefInv, NEW t \in Thread, Open(thr[t]),
           thr[t].pkt # NoPacket
    PROVE  LET h == HostOf(t)
               p == thr[t].pkt
           IN  /\ p \in AtomicNet[h] /\ Hand(thr[t]) = {p}
               /\ Fits(h, p, AtomicSess[Peer(h)].sseq) /\ WasOldest(p, net[h])
<1> DEFINE h == HostOf(t)
<1>1. h \in Host /\ HandlerOf(h) = t
  BY Handlers
<1>2. Hand(thr[t]) = {thr[t].pkt}
  BY DEF Hand
<1>3. thr[t].pkt \in AtomicNet[h]
  BY <1>1, <1>2, Mapped
<1> QED  BY <1>1, <1>2, <1>3 DEF RefInv, RefOK

\* REPLACE_KEY is recognised, and the new keys are noted.
LEMMA DecryptReplaceRefines ==
    ASSUME OneEachHost, SMPInv, RefInv, NEW t \in Thread, DecryptReplace(t)
    PROVE  RefInv' /\ UNCHANGED Seen
<1> DEFINE h == HostOf(t)
           s == sess[h]
           L == Atomic!LiveKeys
           m == thr[t].pkt.msg
           b == NewKeys(s, m.d, m.c, m.d = NoKey, m.c = NoKey)
           x == [thr[t] EXCEPT !.pc = "announce", !.job = "replace"]
<1>1. /\ thr[t].pc = "message" /\ UNCHANGED <<net, used>> /\ m.type = "REPLACE_KEY"
      /\ Chosen(t).cd = thr[t].pkt.ck
      /\ sess' = [sess EXCEPT !["sec"] = NewKeys(@, m.d, m.c, m.d = NoKey, m.c = NoKey)]
      /\ thr' = [thr EXCEPT ![t] = x]
  BY RefBefore DEF DecryptReplace, At
<1>2. h = "sec" /\ s \in Sessions
  BY <1>1, RefBefore DEF Flow, Host
<1>3. /\ Chosen(t) = Slot(s, thr[t].pkt.seq) /\ Same(thr[t], s, used[h])
      /\ ~thr[t].out.copy /\ Open(thr[t]) /\ thr[t] \in Locals
      /\ thr[t].was.sess.sseq <= s.sseq /\ DataOpens(s, thr[t].pkt)
  BY <1>1, ChosenIs
<1>4. Step(t, x, b, used[h])
  BY <1>1, <1>2, RefBefore DEF Step
<1>5. /\ x.pc = "announce" /\ x.job = "replace" /\ x.pkt = thr[t].pkt
      /\ x.was = thr[t].was /\ x.out = thr[t].out /\ x.sent = thr[t].sent
  BY <1>3 DEF Locals
<1> HIDE DEF x
<1>6. CtlOpens(s, x.pkt) /\ s = x.was.sess /\ used[h] = x.was.used
  BY <1>1, <1>3, <1>5 DEF CtlOpens, Same
<1>7. b.sseq = s.sseq
  BY <1>2, NewKeysFields
<1>8. Doing(h, x, b, used[h], L)
  <2>1. Base(h, x, b, RekeyMsg(SuccSeq(s.sseq), Refuses(x)), L)
    BY <1>2, <1>5, <1>6 DEF Base
  <2> HIDE DEF b, s, h, L
  <2> QED  BY <1>3, <1>5, <1>6, <2>1 DEF Doing, Sending
<1>9. Open(x)
  BY <1>3, <1>5 DEF Open
<1> QED  BY <1>1, <1>3, <1>4, <1>5, <1>7, <1>8, <1>9, GoesOn

\* REKEY is recognised.
LEMMA DecryptRekeyRefines ==
    ASSUME OneEachHost, SMPInv, RefInv, NEW t \in Thread, DecryptRekey(t)
    PROVE  RefInv' /\ UNCHANGED Seen
<1> DEFINE h == HostOf(t)
           s == sess[h]
           L == Atomic!LiveKeys
           p == thr[t].pkt
           pc == IF p.msg.err THEN "clear" ELSE IF h = "pri" THEN "announce" ELSE "switch"
<1>1. /\ thr[t].pc = "message" /\ UNCHANGED <<sess, net, used>> /\ p.msg.type = "REKEY"
      /\ Chosen(t).cd = p.ck /\ thr' = [thr EXCEPT ![t].job = "rekey", ![t].pc = pc]
  BY DEF DecryptRekey, At
<1>2. /\ Chosen(t) = Slot(s, p.seq) /\ Same(thr[t], s, used[h])
      /\ ~thr[t].out.copy /\ Open(thr[t]) /\ DataOpens(s, p) /\ p # NoPacket
  BY <1>1, ChosenIs
<1>3. CtlOpens(s, p)
  BY <1>1, <1>2 DEF CtlOpens
<1>4. h \in Host /\ (h = "sec" => ~p.msg.err)
  BY <1>1, <1>2, InHand, RefBefore DEF Fits
<1>5. thr' = [thr EXCEPT ![t].pc = pc, ![t].job = "rekey"]
  <2>1. thr[t] \in Locals
    BY RefBefore
  <2>2. [thr[t] EXCEPT !.job = "rekey", !.pc = pc] = [thr[t] EXCEPT !.pc = pc, !.job = "rekey"]
    BY <2>1 DEF Locals
  <2> HIDE DEF pc
  <2> QED  BY <1>1, <2>2
<1>6. /\ pc \in {"clear", "announce", "switch"}
      /\ pc = "clear" => p.msg.err /\ h = "pri"
      /\ pc = "announce" => ~p.msg.err /\ h = "pri"
      /\ pc = "switch" => h = "sec"
  BY <1>4 DEF Host
<1> HIDE DEF h, s, L, p, pc
<1>7. ASSUME NEW x, x.pc = pc, x.job = "rekey", x.pkt = thr[t].pkt,
             x.was = thr[t].was, x.new = thr[t].new, x.out = thr[t].out
      PROVE  Doing(h, x, s, used[h], L)
  <2>1. Same(x, s, used[h]) /\ s = x.was.sess /\ used[h] = x.was.used /\ x.pkt = p
    BY <1>2, <1>7 DEF Same, p
  <2>2. pc = "announce" => Base(h, x, s, RekeyMsg(SuccSeq(s.sseq), FALSE), L)
    BY <1>3, <1>6, <1>7, <2>1 DEF Base
  <2>3. pc = "switch" => Switching(x, s, used[h])
    BY <1>3, <1>7, <2>1 DEF Switching
  <2> QED  BY <1>2, <1>3, <1>6, <1>7, <2>1, <2>2, <2>3 DEF Doing, Sending
<1>8. \A x : /\ x.pc = pc /\ x.job = "rekey" /\ x.pkt = thr[t].pkt
             /\ x.was = thr[t].was /\ x.new = thr[t].new /\ x.out = thr[t].out
             => Doing(HostOf(t), x, sess[HostOf(t)], used[HostOf(t)], Atomic!LiveKeys)
  BY <1>7 DEF h, s, L
<1>9. pc # "idle"
  BY <1>6
<1> QED  BY <1>1, <1>5, <1>8, <1>9, ReceiverGoesOn

\* The answer is filled in.
LEMMA AnnounceRefines ==
    ASSUME OneEachHost, SMPInv, RefInv, NEW t \in Thread, Announce(t)
    PROVE  RefInv' /\ UNCHANGED Seen
<1> DEFINE h == HostOf(t)
           s == sess[h]
           L == Atomic!LiveKeys
           m == RekeyMsg(SuccSeq(s.sseq), RekeyError(t))
           x == [thr[t] EXCEPT !.pc = "control", !.out.msg = m]
<1>1. /\ thr[t].pc = "announce" /\ UNCHANGED <<sess, net, used>>
      /\ thr' = [thr EXCEPT ![t] = x]
  BY RefBefore DEF Announce, At
<1>2. /\ thr[t] \in Locals /\ Working(h, thr[t], s, used[h], L) /\ Flow(h, thr[t])
      /\ h \in Host
  BY RefBefore
<1>3. Open(thr[t]) /\ thr[t].job = (IF h = "pri" THEN "rekey" ELSE "replace")
  BY <1>1, <1>2 DEF Open, Flow
<1>4. /\ ~thr[t].out.copy /\ thr[t].was.sess.sseq <= s.sseq
      /\ \E k : Base(h, thr[t], s, k, L) /\ used[h] = thr[t].was.used
  BY <1>1, <1>2, <1>3 DEF Working, Doing
<1>5. PICK k : Base(h, thr[t], s, k, L) /\ used[h] = thr[t].was.used
  BY <1>4
<1>6. s.sseq = thr[t].was.sess.sseq
  BY <1>2, <1>5, BaseFields
<1>7. Base(h, thr[t], s, m, L)
  BY <1>3, <1>5, <1>6 DEF Base, RekeyError, Refuses
<1> HIDE DEF m
<1>8. /\ x.pc = "control" /\ x.job = thr[t].job /\ x.pkt = thr[t].pkt
      /\ x.was = thr[t].was /\ x.sent = thr[t].sent
      /\ x.out.msg = m /\ x.out.copy = thr[t].out.copy
  BY <1>2 DEF Locals, Packet
<1>9. Step(t, x, s, used[h])
  BY <1>1, RefBefore DEF Step
<1> HIDE DEF x, s, h, L
<1>10. Base(h, x, s, m, L) /\ Built(x, s, m) /\ Open(x)
  BY <1>3, <1>4, <1>7, <1>8 DEF Base, Refuses, Built, Open
<1>11. Doing(h, x, s, used[h], L)
  <2>1. s = AfterSend(s, "unsent") /\ used[h] = Numbers(x.was.used, "unsent")
    BY <1>5, <1>8 DEF AfterSend, Numbers
  <2> QED  BY <1>8, <1>10, <2>1 DEF Doing, Sending
<1> QED  BY <1>1, <1>3, <1>4, <1>8, <1>9, <1>10, <1>11, GoesOn DEF h, L

-----------------------------------------------------------------------------
(* The end of a handler whose packet has left, and of the secondary's       *)

\* The end of replace_key.
LEMMA HoldRefines ==
    ASSUME OneEachHost, SMPInv, RefInv, NEW t \in Thread, Hold(t)
    PROVE  RefInv' /\ UNCHANGED Seen
<1> DEFINE h == HostOf(t)
           s == sess[h]
           r == [s EXCEPT !.rekey = TRUE]
<1>1. /\ thr[t].pc = "hold" /\ UNCHANGED <<net, used>>
      /\ sess' = [sess EXCEPT !["sec"] = [sess["sec"] EXCEPT !.rekey = TRUE]]
      /\ IF RekeyError(t) THEN Goto(t, "giveup") ELSE Return(t)
  BY RefBefore DEF Hold, At, SetRekey
<1>2. /\ thr[t] \in Locals /\ s \in Sessions /\ Working(h, thr[t], s, used[h], Atomic!LiveKeys)
      /\ thr[t].sent /\ thr[t].job = "replace" /\ h = "sec"
      /\ used \in [Host -> Nat] /\ thr \in [Thread -> Locals]
  BY <1>1, RefBefore DEF Flow
<1>3. RekeyError(t) <=> Refuses(thr[t])
  BY DEF RekeyError, Refuses
<1>4. /\ SeenSession(thr[t], s) = [s EXCEPT !.rekey = ~Refuses(thr[t])]
      /\ SeenUsed(thr[t], used[h]) = used[h] /\ Hand(thr[t]) = {}
  BY <1>2 DEF SeenSession, SeenUsed, Hand, Open, Completed
<1>5. CASE RekeyError(t)
  <2> DEFINE x == [thr[t] EXCEPT !.pc = "giveup"]
  <2>1. Step(t, x, r, used[h])
    BY <1>1, <1>2, <1>5 DEF Step, Goto
  <2>2. x.pc = "giveup" /\ x.job = "replace" /\ x.sent /\ x.pkt = thr[t].pkt
    BY <1>2 DEF Locals
  <2> HIDE DEF x
  <2>3. ~Open(x) /\ Refuses(x) /\ Refuses(thr[t])
    BY <1>3, <1>5, <2>2 DEF Open, Refuses
  <2>4. /\ SeenSession(x, r) = [r EXCEPT !.rekey = ~Refuses(x)]
        /\ SeenUsed(x, used[h]) = used[h] /\ Hand(x) = {}
    BY <2>2, <2>3 DEF SeenSession, SeenUsed, Hand, Completed
  <2>5. SeenSession(x, r) = SeenSession(thr[t], s)
    <3>1. [r EXCEPT !.rekey = FALSE] = [s EXCEPT !.rekey = FALSE]
      BY <1>2 DEF Sessions
    <3> HIDE DEF r, s
    <3> QED  BY <1>4, <2>3, <2>4, <3>1
  <2>6. Working(h, x, r, used[h], Atomic!LiveKeys)
    BY <2>2, <2>3 DEF Working, Leaving
  <2> QED  BY <1>1, <1>4, <2>1, <2>3, <2>4, <2>5, <2>6, Silent
<1>6. CASE ~RekeyError(t)
  <2>1. Step(t, Idle, r, used[h])
    BY <1>1, <1>2, <1>6 DEF Step, Return
  <2>2. SeenSession(thr[t], s) = r
    BY <1>3, <1>4, <1>6
  <2> QED  BY <1>1, <1>4, <2>1, <2>2, IdleSeen, Silent
<1> QED  BY <1>5, <1>6

\* packet_handler clears the flag of a session whose answer was an error.
LEMMA GiveUpSent ==
    ASSUME OneEachHost, SMPInv, RefInv, NEW t \in Thread, GiveUp(t), thr[t].sent
    PROVE  RefInv' /\ UNCHANGED Seen
<1> DEFINE h == HostOf(t)
           s == sess[h]
           r == [s EXCEPT !.rekey = FALSE]
<1>1. /\ thr[t].pc = "giveup" /\ net' = net /\ Step(t, Idle, r, used[h])
  BY RefBefore DEF GiveUp, At, SetRekey, Step, Return
<1>2. thr[t].job = "replace" /\ Refuses(thr[t])
  BY <1>1, RefBefore DEF Working, Leaving
<1>3. /\ SeenSession(thr[t], s) = r
      /\ SeenUsed(thr[t], used[h]) = used[h] /\ Hand(thr[t]) = {}
  BY <1>2 DEF SeenSession, SeenUsed, Hand, Open, Completed
<1> QED  BY <1>1, <1>3, IdleSeen, Silent

\* The Rekey flag is cleared at the end of rekey_session.
LEMMA ClearSent ==
    ASSUME OneEachHost, SMPInv, RefInv, NEW t \in Thread, ClearRekey(t), thr[t].sent
    PROVE  RefInv' /\ UNCHANGED Seen
<1> DEFINE h == HostOf(t)
           s == sess[h]
           r == [s EXCEPT !.rekey = FALSE]
<1>1. /\ thr[t].pc = "clear" /\ net' = net
  BY DEF ClearRekey, At
<1>2. thr[t].job = "rekey"
  BY <1>1, RefBefore DEF Working, Leaving
<1>3. Step(t, Idle, r, used[h])
  BY <1>2, RefBefore DEF ClearRekey, SetRekey, Step, Return
<1>4. /\ SeenSession(thr[t], s) = r
      /\ SeenUsed(thr[t], used[h]) = used[h] /\ Hand(thr[t]) = {}
  BY <1>1, <1>2 DEF SeenSession, SeenUsed, Hand, Open, Completed
<1> QED  BY <1>1, <1>3, <1>4, IdleSeen, Silent

\* start_rekeying clears it on an error, and the data packet can be sent.
LEMMA ClearStart ==
    ASSUME OneEachHost, SMPInv, RefInv, NEW t \in Thread, ClearRekey(t),
           thr[t].job = "start"
    PROVE  RefInv' /\ UNCHANGED Seen
<1> DEFINE h == HostOf(t)
           s == sess[h]
           r == [s EXCEPT !.rekey = FALSE]
           L == Atomic!LiveKeys
           x == [thr[t] EXCEPT !.pc = "take"]
<1>1. /\ thr[t].pc = "clear" /\ net' = net /\ Step(t, x, r, used[h])
  BY RefBefore DEF ClearRekey, At, SetRekey, Step, Goto
<1>2. /\ thr[t] \in Locals /\ h = "pri" /\ s \in Sessions
      /\ Working(h, thr[t], s, used[h], L)
  BY RefBefore DEF Flow
<1>3. Open(thr[t])
  BY <1>1, <1>2 DEF Open, Working, Leaving
<1>4. Failed(h, thr[t], s, used[h], L) /\ thr[t].was.sess.sseq <= s.sseq
  BY <1>1, <1>2, <1>3 DEF Working, Doing
<1>5. /\ x.pc = "take" /\ x.pkt = thr[t].pkt /\ x.was = thr[t].was /\ x.sent = thr[t].sent
  BY <1>2 DEF Locals
<1>6. r.sseq = s.sseq
  BY <1>2 DEF Sessions
<1> HIDE DEF x, L
<1>7. PICK b, m : \E res \in Failing :
         /\ Base(h, thr[t], b, m, L)
         /\ s = AfterSend(b, res) /\ used[h] = Numbers(thr[t].was.used, res)
  BY <1>4 DEF Failed
<1>8. PICK res \in Failing :
         /\ Base(h, thr[t], b, m, L)
         /\ s = AfterSend(b, res) /\ used[h] = Numbers(thr[t].was.used, res)
  BY <1>7
<1>9. /\ RekeyDue(thr[t].was.sess) /\ thr[t].pkt = NoPacket
      /\ \E c : Picked(thr[t].was.sess, c, m, L) /\ b = [c EXCEPT !.rekey = TRUE]
  BY <1>8 DEF Base
<1>10. PICK c : Picked(thr[t].was.sess, c, m, L) /\ b = [c EXCEPT !.rekey = TRUE]
  BY <1>9
<1>11. r = [AfterSend(c, res) EXCEPT !.rekey = FALSE]
  <2>1. c \in Sessions
    BY <1>2, <1>10, PickedFields DEF Locals
  <2> QED  BY <1>8, <1>10, <2>1 DEF AfterSend, Advance, Sessions
<1> HIDE DEF r, s
<1>12. Ready(h, x, r, used[h], L)
  BY <1>2, <1>5, <1>8, <1>9, <1>10, <1>11 DEF Ready
<1>13. Doing(h, x, r, used[h], L)
  BY <1>5, <1>12 DEF Doing, Sending
<1>14. Open(x)
  BY <1>3, <1>5 DEF Open
<1> QED  BY <1>1, <1>3, <1>4, <1>5, <1>6, <1>13, <1>14, GoesOn DEF L

\* The steps of changing keys: the primary's packet has left, the secondary
\* has done nothing that shows.
LEMMA SwitchRefines ==
    ASSUME OneEachHost, SMPInv, RefInv, "nomem" \notin Env, NEW t \in Thread,
           SwitchContexts(t) \/ SetRID0(t) \/ SetRID1(t)
    PROVE  RefInv' /\ UNCHANGED Seen
<1> DEFINE h == HostOf(t)
           s == sess[h]
           L == Atomic!LiveKeys
           num == thr[t].pkt.msg.num
           next == IF thr[t].pc = "switch" THEN "rID0"
                   ELSE IF thr[t].pc = "rID0" THEN "rID1" ELSE "clear"
           x == [thr[t] EXCEPT !.pc = next]
           r == IF thr[t].pc = "switch" THEN p3_rekey(s, 4)
                ELSE IF thr[t].pc = "rID0" THEN [s EXCEPT !.rID0 = s.rID1]
                ELSE [s EXCEPT !.rID1 = num]
           k == IF thr[t].pc = "switch" THEN 0 ELSE used[h]
<1>1. thr[t].pc \in {"switch", "rID0", "rID1"} /\ net' = net
  BY DEF SwitchContexts, SetRID0, SetRID1, At
<1>2. /\ thr[t] \in Locals /\ s \in Sessions /\ Working(h, thr[t], s, used[h], L)
      /\ used \in [Host -> Nat] /\ thr \in [Thread -> Locals] /\ sess \in [Host -> Sessions]
      /\ Flow(h, thr[t]) /\ h \in Host /\ thr[t].job = "rekey"
  BY <1>1, RefBefore DEF Flow
<1>3. Step(t, x, r, k)
  <2>1. CASE SwitchContexts(t)
    BY <1>2, <2>1 DEF SwitchContexts, At, Step, Goto, Created
  <2>2. CASE SetRID0(t)
    BY <1>2, <2>2 DEF SetRID0, At, Step, Goto
  <2>3. CASE SetRID1(t)
    BY <1>2, <2>3 DEF SetRID1, At, Step, Goto
  <2> QED  BY <2>1, <2>2, <2>3
<1>4. /\ x.pc = next /\ x.job = "rekey" /\ x.pkt = thr[t].pkt /\ x.was = thr[t].was
      /\ x.sent = thr[t].sent /\ next \in {"rID0", "rID1", "clear"}
  BY <1>2 DEF Locals
<1>5. r.sseq = s.sseq
  BY <1>2 DEF p3_rekey, Sessions
<1> HIDE DEF x
<1>6. CASE Open(thr[t])
  <2>1. h = "sec" /\ Switching(thr[t], s, used[h]) /\ thr[t].was.sess.sseq <= s.sseq
    BY <1>1, <1>2, <1>6 DEF Working, Doing
  <2>2. Switching(x, r, k)
    BY <1>1, <1>4, <2>1 DEF Switching, Same
  <2>3. Doing(h, x, r, k, L)
    <3> HIDE DEF r, k, next
    <3> QED  BY <1>4, <2>1, <2>2 DEF Doing, Sending
  <2>4. Open(x)
    BY <1>4, <1>6 DEF Open
  <2> HIDE DEF r, k, next
  <2> QED  BY <1>1, <1>3, <1>4, <1>5, <1>6, <2>1, <2>3, <2>4, GoesOn
<1>7. CASE ~Open(thr[t])
  <2>1. thr[t].sent /\ used[h] = 0 /\ k = 0
    BY <1>1, <1>2, <1>7 DEF Working, Leaving, Open
  <2>2. ~Open(x) /\ Hand(x) = {} /\ Hand(thr[t]) = {}
    BY <1>4, <1>7, <2>1 DEF Open, Hand
  <2>3. Completed(x, r) = Completed(thr[t], s)
    <3> DEFINE c == [s EXCEPT !.rID0 = s.rID1, !.rID1 = num, !.rekey = FALSE]
    <3>1. CASE thr[t].pc = "switch"
      <4>1. SwitchKeys(s, num, 4) = [r EXCEPT !.rID0 = r.rID1, !.rID1 = num, !.rekey = FALSE]
        BY <1>2, <3>1 DEF SwitchKeys, p3_rekey, Sessions
      <4> HIDE DEF r, s, num
      <4>2. Completed(thr[t], s) = SwitchKeys(s, num, 4)
        BY <1>2, <3>1 DEF Completed, num
      <4>3. Completed(x, r) = [r EXCEPT !.rID0 = r.rID1, !.rID1 = num, !.rekey = FALSE]
        BY <1>4, <3>1 DEF Completed, num
      <4> QED  BY <4>1, <4>2, <4>3
    <3>2. CASE thr[t].pc = "rID0"
      <4>1. [r EXCEPT !.rID1 = num, !.rekey = FALSE] = c
        BY <1>2, <3>2 DEF Sessions
      <4> HIDE DEF r, s, num
      <4>2. Completed(thr[t], s) = c
        BY <1>2, <3>2 DEF Completed, num
      <4>3. Completed(x, r) = [r EXCEPT !.rID1 = num, !.rekey = FALSE]
        BY <1>4, <3>2 DEF Completed, num
      <4> QED  BY <4>1, <4>2, <4>3
    <3>3. CASE thr[t].pc = "rID1"
      <4>1. [r EXCEPT !.rekey = FALSE] = [s EXCEPT !.rID1 = num, !.rekey = FALSE]
        BY <1>2, <3>3 DEF Sessions
      <4> HIDE DEF r, s, num
      <4>2. Completed(thr[t], s) = [s EXCEPT !.rID1 = num, !.rekey = FALSE]
        BY <1>2, <3>3 DEF Completed, num
      <4>3. Completed(x, r) = [r EXCEPT !.rekey = FALSE]
        BY <1>4, <3>3 DEF Completed, num
      <4> QED  BY <4>1, <4>2, <4>3
    <3> QED  BY <1>1, <3>1, <3>2, <3>3
  <2> HIDE DEF r, k, s, next
  <2>4. /\ SeenSession(x, r) = SeenSession(thr[t], s)
        /\ SeenUsed(x, k) = SeenUsed(thr[t], used[h])
    BY <1>7, <2>1, <2>2, <2>3 DEF SeenSession, SeenUsed
  <2>5. Working(h, x, r, k, L)
    BY <1>4, <2>1, <2>2 DEF Working, Leaving
  <2> QED  BY <1>1, <1>3, <2>2, <2>4, <2>5, Silent DEF s
<1> QED  BY <1>6, <1>7

-----------------------------------------------------------------------------
(* Steps of packet_handler that P3Session sees                              *)

\* The numbers in the mapped state.
LEMMA SeenTypes ==
    ASSUME OneEachHost, SMPInv, NEW h \in Host
    PROVE  /\ AtomicSess[h].sseq \in Nat /\ AtomicSess[h].sseq < SeqMod
           /\ AtomicNet[h] \subseteq Packet
           /\ \A p \in AtomicNet[h] : p.seq \in Nat
<1> DEFINE t == HandlerOf(h)
<1>1. t \in Thread /\ thr[t] \in Locals /\ sess[h] \in Sessions /\ net[h] \subseteq Packet
  BY Handlers DEF SMPInv, SMPTypeOK, TypeOK
<1>2. thr[t].pkt \in Packet /\ thr[t].was.sess \in Sessions
  BY <1>1 DEF Locals
<1>3. AtomicNet[h] \subseteq Packet
  BY <1>1, <1>2, Mapped DEF Hand
<1>4. AtomicSess[h].sseq \in Seqs
  <2>1. thr[t].was.sess.sseq \in Seqs /\ sess[h].sseq \in Seqs
    BY <1>1, <1>2 DEF Sessions
  <2> QED  BY <1>1, <2>1, Mapped, CompletedFields DEF SeenSession
<1> QED  BY <1>3, <1>4, SeqNat, PacketNat

(* A handler's step takes effect: it becomes x, the session s, and packets   *)
(* new leave with numbers that have not been used.  The secondary brings no  *)
(* new key into use.                                                        *)
Effect(t, x, s, n, new) ==
    LET h == HostOf(t)
        b == SeenSession(x, s)
    IN  /\ Open(thr[t]) /\ ~Open(x) /\ (x.sent => Leaving(x, s, n))
        /\ net' = [net EXCEPT ![Peer(h)] = @ \cup new] /\ IsFiniteSet(new)
        /\ b.sseq \in Nat /\ AtomicSess[h].sseq <= b.sseq
        /\ \A p \in new : /\ p.seq \in Nat /\ AtomicSess[h].sseq <= p.seq
                          /\ Fits(Peer(h), p, b.sseq)
        /\ h = "sec" => \A k \in Key : \/ k \in SessionKeys(b)
                                       \/ \E p \in new : k \in PacketKeys(p)
                                       => k \in Atomic!LiveKeys

\* Then its packet is taken, and new is sent.
LEMMA Commits ==
    ASSUME OneEachHost, SMPInv, RefInv, NEW t \in Thread, NEW x, NEW s, NEW n, NEW new,
           Step(t, x, s, n), Effect(t, x, s, n, new)
    PROVE  /\ RefInv'
           /\ AtomicSess' = [AtomicSess EXCEPT ![HostOf(t)] = SeenSession(x, s)]
           /\ AtomicUsed' = [AtomicUsed EXCEPT ![HostOf(t)] = SeenUsed(x, n)]
           /\ AtomicNet' = [AtomicNet EXCEPT ![HostOf(t)] = @ \ Hand(thr[t]),
                                             ![Peer(HostOf(t))] = @ \cup new]
<1>0. /\ Open(thr[t]) /\ ~Open(x) /\ (x.sent => Leaving(x, s, n))
      /\ net' = [net EXCEPT ![Peer(HostOf(t))] = @ \cup new] /\ IsFiniteSet(new)
      /\ SeenSession(x, s).sseq \in Nat
      /\ AtomicSess[HostOf(t)].sseq <= SeenSession(x, s).sseq
      /\ \A p \in new : /\ p.seq \in Nat /\ AtomicSess[HostOf(t)].sseq <= p.seq
                        /\ Fits(Peer(HostOf(t)), p, SeenSession(x, s).sseq)
      /\ HostOf(t) = "sec" => \A k \in Key : \/ k \in SessionKeys(SeenSession(x, s))
                                             \/ \E p \in new : k \in PacketKeys(p)
                                             => k \in Atomic!LiveKeys
  BY DEF Effect
<1> DEFINE h == HostOf(t)
           g == Peer(h)
           u == HandlerOf(g)
<1>1. /\ h \in Host /\ g \in Host /\ g # h /\ HandlerOf(h) = t /\ Peer(g) = h
      /\ u \in Thread
      /\ \A k \in Host : k = h \/ k = g
  <2>1. h \in Host /\ HandlerOf(h) = t
    BY Handlers
  <2> QED  BY <2>1, Handlers DEF Host
<1>2. /\ thr'[HandlerOf(h)] = x /\ sess'[h] = s /\ used'[h] = n
      /\ thr'[u] = thr[u]
      /\ sess'[g] = sess[g] /\ used'[g] = used[g]
      /\ AtomicSess' = [AtomicSess EXCEPT ![h] = SeenSession(x, s)]
      /\ AtomicUsed' = [AtomicUsed EXCEPT ![h] = SeenUsed(x, n)]
      /\ AtomicNet'[h] = net'[h] \cup Hand(x)
      /\ AtomicNet'[g] = net'[g] \cup Hand(thr[u])
  BY StepMapped
<1>3. net \in [Host -> SUBSET Packet] /\ RefOK(h) /\ RefOK(g)
  BY <1>1 DEF SMPInv, SMPTypeOK, TypeOK, RefInv
<1>4. net'[h] = net[h] /\ net'[g] = net[g] \cup new
  BY <1>0, <1>1, <1>3
<1>5. /\ AtomicNet[h] = net[h] \cup Hand(thr[t]) /\ AtomicNet[g] = net[g] \cup Hand(thr[u])
      /\ DOMAIN AtomicNet = Host /\ DOMAIN AtomicSess = Host
      /\ AtomicNet' = [k \in Host |-> AtomicNet'[k]]
  BY <1>1, Mapped, MappedNext
<1>6. \A p \in Hand(thr[t]) : p \notin net[h]
  BY <1>1, <1>3 DEF RefOK, WasOldest
<1>7. Hand(x) = {}
  BY <1>0 DEF Hand
<1>8. AtomicNet'[h] = AtomicNet[h] \ Hand(thr[t]) /\ AtomicNet'[g] = AtomicNet[g] \cup new
  BY <1>2, <1>4, <1>5, <1>6, <1>7
<1>9. AtomicNet' = [AtomicNet EXCEPT ![h] = @ \ Hand(thr[t]), ![g] = @ \cup new]
  <2> DEFINE N == [AtomicNet EXCEPT ![h] = @ \ Hand(thr[t]), ![g] = @ \cup new]
  <2> HIDE DEF h, g, u
  <2>1. DOMAIN N = Host /\ N = [k \in DOMAIN N |-> N[k]]
    BY <1>5
  <2>2. N[h] = AtomicNet[h] \ Hand(thr[t]) /\ N[g] = AtomicNet[g] \cup new
    BY <1>1, <1>5
  <2>3. \A k \in Host : AtomicNet'[k] = N[k]
    BY <1>1, <1>8, <2>2
  <2> HIDE DEF N
  <2>4. AtomicNet' = N
    BY <1>5, <2>1, <2>3
  <2> QED  BY <2>4 DEF N
<1>10. AtomicSess'[h] = SeenSession(x, s) /\ AtomicSess'[g] = AtomicSess[g]
  BY <1>1, <1>2, <1>5
<1> HIDE DEF h, g, u
<1>11. h = "sec" => \A k \in Key : k \in Atomic!LiveKeys' => k \in Atomic!LiveKeys
  <2> SUFFICES ASSUME h = "sec", NEW k \in Key, k \in Atomic!LiveKeys'
               PROVE  k \in Atomic!LiveKeys
    OBVIOUS
  <2>1. PICK i \in Host : \/ k \in SessionKeys(AtomicSess'[i])
                          \/ \E p \in AtomicNet'[i] : k \in PacketKeys(p)
    BY LiveIs
  <2>2. CASE k \in SessionKeys(AtomicSess'[i])
    BY <1>0, <1>1, <1>10, <2>2, LiveIs DEF h
  <2>3. CASE \E p \in AtomicNet'[i] : k \in PacketKeys(p)
    <3>1. PICK p \in AtomicNet'[i] : k \in PacketKeys(p)
      BY <2>3
    <3>2. p \in AtomicNet[i] \/ p \in new
      BY <1>1, <1>8
    <3> QED  BY <1>0, <3>1, <3>2, LiveIs DEF h
  <2> QED  BY <2>1, <2>2, <2>3
<1>12. RefOK(h)'
  <2>1. Working(h, x, s, n, Atomic!LiveKeys')
    BY <1>0 DEF Working
  <2>2. \A p \in AtomicNet'[h] : Fits(h, p, AtomicSess'[g].sseq)
    BY <1>3, <1>8, <1>10 DEF RefOK, g
  <2>3. IsFiniteSet(net'[h])
    BY <1>3, <1>4 DEF RefOK
  <2>4. 1 <= AtomicSess'[h].sseq
    <3>1. 1 <= AtomicSess[h].sseq /\ AtomicSess[h].sseq \in Nat
      BY <1>1, <1>3, SeenTypes DEF RefOK
    <3> QED  BY <1>0, <1>10, <3>1 DEF h
  <2> QED  BY <1>0, <1>2, <1>7, <2>1, <2>2, <2>3, <2>4 DEF RefOK, g
<1>13. RefOK(g)'
  <2>1. Working(g, thr[u], sess[g], used[g], Atomic!LiveKeys')
    <3>1. Working(g, thr[u], sess[g], used[g], Atomic!LiveKeys)
      BY <1>3 DEF RefOK, u
    <3>2. h = "sec" \/ g = "sec"
      BY <1>1 DEF Host
    <3> QED  BY <1>11, <3>1, <3>2, FewerBarred
  <2>2. ASSUME NEW p \in AtomicNet[g]
        PROVE  /\ p.seq \in Nat /\ p.seq < AtomicSess[h].sseq
               /\ Fits(g, p, AtomicSess'[h].sseq)
    <3>1. Fits(g, p, AtomicSess[h].sseq)
      BY <1>1, <1>3 DEF RefOK
    <3>2. p.seq \in Nat /\ AtomicSess[h].sseq \in Nat
      BY <1>1, SeenTypes
    <3>3. AtomicSess[h].sseq <= AtomicSess'[h].sseq /\ AtomicSess'[h].sseq \in Nat
      BY <1>0, <1>10 DEF h
    <3> QED  BY <3>1, <3>2, <3>3 DEF Fits
  <2>3. \A p \in AtomicNet'[g] : Fits(g, p, AtomicSess'[h].sseq)
    <3>1. \A p \in new : Fits(g, p, AtomicSess'[h].sseq)
      BY <1>0, <1>10 DEF h, g
    <3> QED  BY <1>8, <2>2, <3>1
  <2>4. ASSUME NEW p \in Hand(thr[u]) PROVE WasOldest(p, net'[g])
    <3>1. WasOldest(p, net[g])
      BY <1>3 DEF RefOK, u
    <3>2. p.seq \in Nat /\ p.seq < AtomicSess[h].sseq
      BY <1>5, <2>2
    <3>3. \A q \in new : q.seq \in Nat /\ AtomicSess[h].sseq <= q.seq
      BY <1>0 DEF h
    <3>4. AtomicSess[h].sseq \in Nat
      BY <1>1, SeenTypes
    <3>5. \A q \in new : p.seq < q.seq
      BY <3>2, <3>3, <3>4
    <3>6. \A q \in new : p.seq <= q.seq /\ p # q
      <4> TAKE q \in new
      <4>1. p.seq < q.seq /\ p.seq \in Nat /\ q.seq \in Nat
        BY <3>2, <3>3, <3>5
      <4> QED  BY <4>1
    <3> QED  BY <1>4, <3>1, <3>6 DEF WasOldest
  <2>5. ASSUME NEW w, RoomFor(g, w)
        PROVE  /\ Cardinality(AtomicNet'[h]) < MaxNet
               /\ w.used < MaxPerKey /\ w.sess.sseq < MaxSeq
    <3>1. IsFiniteSet(AtomicNet[h])
      <4>1. Hand(thr[t]) = {} \/ Hand(thr[t]) = {thr[t].pkt}
        BY DEF Hand
      <4>2. IsFiniteSet(net[h]) /\ IsFiniteSet(net[h] \cup {thr[t].pkt})
        BY <1>3, FS_AddElement DEF RefOK
      <4> QED  BY <1>5, <4>1, <4>2
    <3>2. /\ Cardinality(AtomicNet'[h]) <= Cardinality(AtomicNet[h])
          /\ Cardinality(AtomicNet'[h]) \in Nat /\ Cardinality(AtomicNet[h]) \in Nat
      <4>1. AtomicNet'[h] \in SUBSET AtomicNet[h]
        BY <1>8
      <4> HIDE DEF h
      <4> DEFINE A == AtomicNet[h]
                 B == AtomicNet'[h]
      <4>2. IsFiniteSet(A) /\ B \in SUBSET A
        BY <3>1, <4>1
      <4> HIDE DEF A, B
      <4>3. /\ Cardinality(B) <= Cardinality(A) /\ Cardinality(B) \in Nat
            /\ Cardinality(A) \in Nat
        BY <4>2, FS_Subset, FS_CardinalityType
      <4> QED  BY <4>3 DEF A, B
    <3> QED  BY <1>1, <2>5, <3>2, BoundAssumption DEF RoomFor
  <2>6. IsFiniteSet(net'[g])
    <3>1. IsFiniteSet(net[g]) /\ IsFiniteSet(new)
      BY <1>0, <1>3 DEF RefOK
    <3>2. net'[g] = net[g] \cup new
      BY <1>4
    <3> QED  BY <3>1, <3>2, FS_Union
  <2>7. 1 <= AtomicSess'[g].sseq
    BY <1>3, <1>10 DEF RefOK
  <2>8. Open(thr[u]) /\ thr[u].pkt = NoPacket =>
          /\ Cardinality(AtomicNet'[h]) < MaxNet
          /\ thr[u].was.used < MaxPerKey /\ thr[u].was.sess.sseq < MaxSeq
    BY <1>3, <2>5 DEF RefOK, u
  <2> QED  BY <1>1, <1>2, <2>1, <2>3, <2>4, <2>6, <2>7, <2>8 DEF RefOK, RoomFor, u
<1> QED  BY <1>1, <1>2, <1>9, <1>12, <1>13 DEF RefInv, h, g

\* The operators of P3Session without variables mean the same in the mapping.
LEMMA SameOperators ==
    /\ Atomic!Host = Host /\ \A h : Atomic!Peer(h) = Peer(h)
    /\ \A n : Atomic!SuccSeq(n) = SuccSeq(n)
    /\ \A s : Atomic!Advance(s) = Advance(s) /\ Atomic!DataPacket(s) = DataPacket(s)
    /\ \A s, m : Atomic!CtlPacket(s, m) = CtlPacket(s, m)
    /\ \A n, e : Atomic!RekeyMsg(n, e) = RekeyMsg(n, e)
    /\ \A s, r : Atomic!AfterSend(s, r) = AfterSend(s, r)
    /\ \A s : Atomic!RekeyDue(s) = RekeyDue(s)
    /\ Atomic!SendResult = SendResult /\ Atomic!UseIndex = UseIndex
    /\ Atomic!Created = Created
    /\ \A k, f : Atomic!GetKey(k, f) = GetKey(k, f)
    /\ \A s, p : /\ Atomic!DataOpens(s, p) = DataOpens(s, p)
                 /\ Atomic!CtlOpens(s, p) = CtlOpens(s, p)
    /\ \A s, n, k : Atomic!SwitchKeys(s, n, k) = SwitchKeys(s, n, k)
    /\ \A s, d, c, i, j : /\ Atomic!NewKeys(s, d, c, i, j) = NewKeys(s, d, c, i, j)
                          /\ Atomic!NewKeyMsg(d, c, i, j) = NewKeyMsg(d, c, i, j)
<1>1. \A n : Atomic!SuccSeq(n) = SuccSeq(n)
  BY DEF Atomic!SuccSeq, SuccSeq
<1>2. \A s : Atomic!Advance(s) = Advance(s)
  BY <1>1 DEF Atomic!Advance, Advance
<1>3. \A s, p : /\ Atomic!DataOpens(s, p) = DataOpens(s, p)
                /\ Atomic!CtlOpens(s, p) = CtlOpens(s, p)
  BY DEF Atomic!DataOpens, DataOpens, Atomic!CtlOpens, CtlOpens, Atomic!Slot, Slot,
         Atomic!InNewRange, InNewRange
<1>4. \A s, n, k : Atomic!SwitchKeys(s, n, k) = SwitchKeys(s, n, k)
  BY DEF Atomic!SwitchKeys, SwitchKeys, Atomic!p3_rekey, p3_rekey
<1>5. \A d, c, i, j : Atomic!NewKeyMsg(d, c, i, j) = NewKeyMsg(d, c, i, j)
  BY DEF Atomic!NewKeyMsg, NewKeyMsg, Atomic!ReplaceMsg, ReplaceMsg
<1>6. \A s, d, c, i, j : Atomic!NewKeys(s, d, c, i, j) = NewKeys(s, d, c, i, j)
  BY DEF Atomic!NewKeys, NewKeys
<1>7. \A s, r : Atomic!AfterSend(s, r) = AfterSend(s, r)
  BY <1>2 DEF Atomic!AfterSend, AfterSend
<1>8. \A s : Atomic!DataPacket(s) = DataPacket(s)
  BY DEF Atomic!DataPacket, DataPacket, Atomic!DataMsg, DataMsg
<1>9. /\ \A s, m : Atomic!CtlPacket(s, m) = CtlPacket(s, m)
      /\ \A n, e : Atomic!RekeyMsg(n, e) = RekeyMsg(n, e)
  BY DEF Atomic!CtlPacket, CtlPacket, Atomic!RekeyMsg, RekeyMsg
<1>10. /\ Atomic!Host = Host /\ \A h : Atomic!Peer(h) = Peer(h)
       /\ \A s : Atomic!RekeyDue(s) = RekeyDue(s)
       /\ Atomic!SendResult = SendResult /\ Atomic!UseIndex = UseIndex
       /\ Atomic!Created = Created
       /\ \A k, f : Atomic!GetKey(k, f) = GetKey(k, f)
  BY DEF Atomic!Host, Host, Atomic!Peer, Peer, Atomic!RekeyDue, RekeyDue,
         Atomic!SendResult, SendResult, Atomic!UseIndex, UseIndex, Atomic!Created,
         Created, Atomic!GetKey, GetKey
<1> QED  BY <1>1, <1>2, <1>3, <1>4, <1>5, <1>6, <1>7, <1>8, <1>9, <1>10

\* What P3Session sees of a handler that has had no effect yet.
LEMMA OpenSeen ==
    ASSUME OneEachHost, SMPInv, NEW t \in Thread, Open(thr[t])
    PROVE  LET h == HostOf(t)
               w == thr[t].was
           IN  /\ AtomicSess[h] = w.sess /\ AtomicUsed[h] = w.used
               /\ w.sess \in Sessions /\ w.used \in Nat /\ w.sess.sseq \in Nat
               /\ \A k \in SessionKeys(w.sess) : k \in Atomic!LiveKeys
               /\ thr[t].pkt # NoPacket =>
                    \A k \in PacketKeys(thr[t].pkt) : k \in Atomic!LiveKeys
               /\ AtomicSess = [k \in Host |-> AtomicSess[k]]
               /\ AtomicNet = [k \in Host |-> AtomicNet[k]]
               /\ AtomicUsed = [k \in Host |-> AtomicUsed[k]]
<1> DEFINE h == HostOf(t)
           w == thr[t].was
<1>1. h \in Host /\ HandlerOf(h) = t
  BY Handlers
<1>2. AtomicSess[h] = w.sess /\ AtomicUsed[h] = w.used
  BY <1>1, Mapped DEF SeenSession, SeenUsed
<1>3. w.sess \in Sessions /\ w.used \in Nat
  BY Before DEF Locals
<1>4. \A k \in SessionKeys(w.sess) : k \in Atomic!LiveKeys
  BY <1>1, <1>2, LiveIs
<1>5. thr[t].pkt # NoPacket => \A k \in PacketKeys(thr[t].pkt) : k \in Atomic!LiveKeys
  <2> SUFFICES ASSUME thr[t].pkt # NoPacket, NEW k \in PacketKeys(thr[t].pkt)
               PROVE  k \in Atomic!LiveKeys
    OBVIOUS
  <2>1. thr[t].pkt \in AtomicNet[h]
    BY <1>1, Mapped DEF Hand
  <2> QED  BY <1>1, <2>1, LiveIs
<1>6. /\ AtomicSess = [k \in Host |-> AtomicSess[k]]
      /\ AtomicNet = [k \in Host |-> AtomicNet[k]]
      /\ AtomicUsed = [k \in Host |-> AtomicUsed[k]]
  BY Mapped
<1> QED  BY <1>2, <1>3, <1>4, <1>5, <1>6, SessionNat

\* The data packet of P3Session leaves: it was numbered from session a.
LEMMA DataLeaves ==
    ASSUME OneEachHost, NEW h \in Host, NEW a, NEW n, ~a.rekey,
           Cardinality(AtomicNet[Peer(h)]) < MaxNet, AtomicUsed[h] < MaxPerKey,
           AtomicSess[h].sseq < MaxSeq,
           AtomicSess' = [AtomicSess EXCEPT ![h] = Advance(a)],
           AtomicNet' = [AtomicNet EXCEPT ![Peer(h)] = @ \cup {DataPacket(a)}],
           AtomicUsed' = [AtomicUsed EXCEPT ![h] = n + 1],
           n = AtomicUsed[h] + (IF a.sseq = AtomicSess[h].sseq THEN 0 ELSE 1)
    PROVE  Atomic!Transmit(h, a)
<1>1. Atomic!Room(h)
  <2>1. Atomic!Peer(h) = Peer(h)
    BY SameOperators
  <2>2. \A S : Atomic!Cardinality(S) = Cardinality(S)
    BY DEF Atomic!Cardinality, Cardinality
  <2> QED  BY <2>1, <2>2 DEF Atomic!Room
<1>2. Atomic!Count(h, a) = n
  BY DEF Atomic!Count
<1> QED  BY <1>1, <1>2, SameOperators DEF Atomic!Transmit
\* The packet in a handler's hands is one that could arrive in P3Session.
LEMMA ArrivingHand ==
    ASSUME OneEachHost, SMPInv, RefInv, NEW t \in Thread, Open(thr[t]),
           thr[t].pkt # NoPacket
    PROVE  thr[t].pkt \in Atomic!Arriving(HostOf(t))
<1> DEFINE h == HostOf(t)
           g == Peer(h)
           p == thr[t].pkt
           n == AtomicSess[g].sseq
<1>1. h \in Host /\ g \in Host /\ HandlerOf(h) = t /\ Atomic!Peer(h) = g
  BY Handlers, SameOperators
<1>2. p \in AtomicNet[h] /\ Hand(thr[t]) = {p} /\ Fits(h, p, n) /\ WasOldest(p, net[h])
  BY InHand
<1>3. \A q \in AtomicNet[h] : Fits(h, q, n)
  BY <1>1 DEF RefInv, RefOK
<1>4. n \in Nat /\ n < SeqMod /\ \A q \in AtomicNet[h] : q.seq \in Nat
  BY <1>1, SeenTypes
<1>5. AtomicNet[h] = net[h] \cup {p}
  BY <1>1, <1>2, Mapped
<1>6. \A q : Atomic!Age(h, q) = (n - q.seq) % SeqMod
  BY <1>1 DEF Atomic!Age
<1> HIDE DEF h, g, p, n
<1>7. ASSUME NEW q \in AtomicNet[h]
      PROVE  Atomic!Age(h, q) = n - q.seq
  <2>1. q.seq \in Nat /\ q.seq <= n
    BY <1>3, <1>4 DEF Fits
  <2> QED  BY <1>4, <1>6, <2>1, SmallDiff
<1>8. ASSUME "reorder" \notin Env, NEW q \in AtomicNet[h]
      PROVE  \/ Atomic!Age(h, q) < Atomic!Age(h, p)
             \/ Atomic!Age(h, q) = Atomic!Age(h, p) /\ (p.copy => q.copy)
  <2>1. p.seq <= q.seq \/ p = q
    BY <1>2, <1>5, <1>8 DEF WasOldest
  <2>2. p.seq \in Nat /\ q.seq \in Nat /\ ~p.copy
    BY <1>2, <1>4 DEF Fits
  <2>3. p.seq <= q.seq
    BY <2>1, <2>2
  <2>4. Atomic!Age(h, q) = n - q.seq /\ Atomic!Age(h, p) = n - p.seq
    BY <1>2, <1>7
  <2> QED  BY <1>4, <2>2, <2>3, <2>4
<1> QED  BY <1>2, <1>8 DEF Atomic!Arriving, h, p

\* The packet was numbered or not: p3send_control.
LEMMA NumberTakenIs ==
    ASSUME NEW b \in Sessions, NEW res
    PROVE  /\ AfterSend(b, res).sseq = b.sseq <=> res = "unsent"
           /\ AfterSend(b, res).sseq = IF res = "unsent" THEN b.sseq ELSE SuccSeq(b.sseq)
<1>1. b.sseq \in Nat /\ SuccSeq(b.sseq) # b.sseq
  BY SessionNat, SeqAssumption DEF SuccSeq
<1>2. Advance(b).sseq = SuccSeq(b.sseq)
  BY DEF Advance, Sessions
<1> QED  BY <1>1, <1>2 DEF AfterSend

\* A handler returns, the packet it took being all that the network shows.
LEMMA Consumes ==
    ASSUME OneEachHost, SMPInv, RefInv, NEW t \in Thread, NEW s \in Sessions, NEW n,
           Step(t, Idle, s, n), net' = net, Open(thr[t]), thr[t].pkt # NoPacket,
           thr[t].was.sess.sseq <= s.sseq,
           HostOf(t) = "sec" =>
              \A k \in Key : k \in SessionKeys(s) => k \in Atomic!LiveKeys
    PROVE  LET h == HostOf(t)
           IN  /\ RefInv'
               /\ thr[t].pkt \in Atomic!Arriving(h)
               /\ AtomicSess' = [AtomicSess EXCEPT ![h] = s]
               /\ AtomicUsed' = [AtomicUsed EXCEPT ![h] = n]
               /\ AtomicNet' = Atomic!Taken(h, thr[t].pkt)
<1> DEFINE h == HostOf(t)
           g == Peer(h)
           p == thr[t].pkt
           new == {}
<1>1. h \in Host /\ g \in Host /\ g # h
  BY ThreadHost, Handlers
<1>2. SeenSession(Idle, s) = s /\ SeenUsed(Idle, n) = n /\ ~Open(Idle) /\ ~Idle.sent
  BY IdleSeen
<1>3. Hand(thr[t]) = {p}
  BY InHand
<1>4. AtomicSess[h] = thr[t].was.sess /\ AtomicNet = [k \in Host |-> AtomicNet[k]]
  BY OpenSeen
<1>5. net' = [net EXCEPT ![g] = @ \cup new]
  <2>1. net \in [Host -> SUBSET Packet]
    BY DEF SMPInv, SMPTypeOK, TypeOK
  <2> QED  BY <1>1, <2>1
<1>6. s.sseq \in Nat /\ IsFiniteSet(new)
  BY SessionNat, FS_EmptySet
<1>7. \A q \in new : FALSE
  OBVIOUS
<1> HIDE DEF new
<1>8. /\ RefInv'
      /\ AtomicSess' = [AtomicSess EXCEPT ![h] = s]
      /\ AtomicUsed' = [AtomicUsed EXCEPT ![h] = n]
      /\ AtomicNet' = [AtomicNet EXCEPT ![h] = @ \ {p}, ![g] = @ \cup new]
  <2>1. /\ SeenSession(Idle, s).sseq \in Nat
        /\ AtomicSess[h].sseq <= SeenSession(Idle, s).sseq
    BY <1>2, <1>4, <1>6
  <2>2. \A q \in new : /\ q.seq \in Nat /\ AtomicSess[h].sseq <= q.seq
                       /\ Fits(g, q, SeenSession(Idle, s).sseq)
    BY <1>7
  <2>3. h = "sec" =>
          \A k \in Key : \/ k \in SessionKeys(SeenSession(Idle, s))
                         \/ \E q \in new : k \in PacketKeys(q)
                         => k \in Atomic!LiveKeys
    BY <1>2, <1>7
  <2>4. Effect(t, Idle, s, n, new)
    BY <1>2, <1>5, <1>6, <2>1, <2>2, <2>3 DEF Effect
  <2>5. /\ RefInv'
        /\ AtomicSess' = [AtomicSess EXCEPT ![h] = SeenSession(Idle, s)]
        /\ AtomicUsed' = [AtomicUsed EXCEPT ![h] = SeenUsed(Idle, n)]
        /\ AtomicNet' = [AtomicNet EXCEPT ![h] = @ \ Hand(thr[t]), ![g] = @ \cup new]
    BY <2>4, Commits
  <2> QED  BY <1>2, <1>3, <2>5
<1>9. AtomicNet' = Atomic!Taken(h, p)
  <2>1. AtomicNet' = [AtomicNet EXCEPT ![h] = @ \ {p}]
    BY <1>1, <1>4, <1>8 DEF new
  <2> QED  BY <2>1 DEF Atomic!Taken
<1> QED  BY <1>8, <1>9, ArrivingHand

\* The keys the secondary has noted are those of the message it opened.
LEMMA AnswerKeys ==
    ASSUME NEW s \in Sessions, NEW p, NEW res, NEW L,
           \A k \in SessionKeys(s) : k \in L, \A k \in PacketKeys(p) : k \in L
    PROVE  LET b == NewKeys(s, p.msg.d, p.msg.c, p.msg.d = NoKey, p.msg.c = NoKey)
           IN  /\ \A k \in SessionKeys(AfterSend(b, res)) : k \in L
               /\ AfterSend(b, res).ctx1 = s.ctx1
<1> DEFINE b == NewKeys(s, p.msg.d, p.msg.c, p.msg.d = NoKey, p.msg.c = NoKey)
           a == AfterSend(b, res)
<1>1. /\ b.newkey.d \in {s.newkey.d, p.msg.d} /\ b.newkey.c \in {s.newkey.c, p.msg.c}
      /\ b.ctx0 = s.ctx0 /\ b.ctx1 = s.ctx1
      /\ b = [s EXCEPT !.newkey = b.newkey]
  BY DEF NewKeys, Sessions
<1>2. a.newkey = b.newkey /\ a.ctx0 = b.ctx0 /\ a.ctx1 = b.ctx1
  <2> HIDE DEF b
  <2>1. \A k : LET c == [s EXCEPT !.newkey = k]
               IN  /\ Advance(c).newkey = c.newkey /\ Advance(c).ctx0 = c.ctx0
                   /\ Advance(c).ctx1 = c.ctx1
    BY DEF Advance, Sessions
  <2> QED  BY <1>1, <2>1 DEF AfterSend
<1> HIDE DEF a, b
<1>3. \A k \in SessionKeys(a) : k \in SessionKeys(s) \cup PacketKeys(p)
  BY <1>1, <1>2 DEF SessionKeys, PacketKeys, CtxKeys
<1> QED  BY <1>1, <1>2, <1>3 DEF a, b

\* replace_key whose answer could not be sent.
LEMMA ReplaceFails ==
    ASSUME NEW p, NEW b \in Sessions, NEW res \in Failing,
           p.msg.type = "REPLACE_KEY", CtlOpens(AtomicSess["sec"], p),
           b = NewKeys(AtomicSess["sec"], p.msg.d, p.msg.c,
                       p.msg.d = NoKey, p.msg.c = NoKey),
           b.sseq = AtomicSess["sec"].sseq, AtomicUsed["sec"] \in Nat,
           AtomicNet = [k \in Host |-> AtomicNet[k]],
           AtomicSess' = [AtomicSess EXCEPT
                            !["sec"] = [AfterSend(b, res) EXCEPT !.rekey = FALSE]],
           AtomicUsed' = [AtomicUsed EXCEPT !["sec"] = Numbers(AtomicUsed["sec"], res)],
           AtomicNet' = Atomic!Taken("sec", p)
    PROVE  Atomic!ReplaceKey(p)
<1> DEFINE s == AtomicSess["sec"]
           err == NoKey \in {p.msg.d, p.msg.c}
           c == Atomic!NewKeys(s, p.msg.d, p.msg.c, p.msg.d = NoKey, p.msg.c = NoKey)
           a == Atomic!AfterSend(c, res)
<1>1. res \in Atomic!SendResult /\ res # "sent"
  BY SameOperators DEF Failing
<1>2. Atomic!CtlOpens(s, p) /\ c = b /\ a = AfterSend(b, res)
  BY SameOperators
<1>3. Atomic!Count("sec", a) = Numbers(AtomicUsed["sec"], res)
  <2>1. AfterSend(b, res).sseq = s.sseq <=> res = "unsent"
    BY NumberTakenIs
  <2> QED  BY <1>2, <2>1 DEF Atomic!Count, Numbers
<1>4. AtomicNet' = [Atomic!Taken("sec", p) EXCEPT !["pri"] = @ \cup {}]
  <2> DEFINE N == Atomic!Taken("sec", p)
  <2>1. N = [k \in Host |-> N[k]]
    BY DEF Atomic!Taken
  <2> HIDE DEF N
  <2>2. N = [N EXCEPT !["pri"] = @ \cup {}]
    BY <2>1
  <2> QED  BY <2>2 DEF N
<1> HIDE DEF c
<1>5. /\ AtomicSess' = [AtomicSess EXCEPT
                         !["sec"] = [a EXCEPT !.rekey = (res = "sent" /\ ~err)]]
      /\ AtomicNet' = [Atomic!Taken("sec", p) EXCEPT !["pri"] =
                         @ \cup (IF res = "sent"
                                 THEN {Atomic!CtlPacket(s, Atomic!RekeyMsg(
                                         Atomic!SuccSeq(s.sseq), err))}
                                 ELSE {})]
      /\ AtomicUsed' = [AtomicUsed EXCEPT !["sec"] = Atomic!Count("sec", a)]
  BY <1>1, <1>2, <1>3, <1>4
<1> QED  BY <1>1, <1>2, <1>5 DEF Atomic!ReplaceKey, c

\* A user's packet, or one that is not recognised, is taken from the network.
LEMMA DecryptReturns ==
    ASSUME OneEachHost, SMPInv, RefInv, NEW t \in Thread,
           thr[t].pc \in {"decrypt", "message"}, UNCHANGED <<sess, net, used>>, Return(t),
           thr[t].pkt.msg.type = "DATA" \/ ~CtlOpens(sess[HostOf(t)], thr[t].pkt)
    PROVE  RefInv' /\ Atomic!Next
<1> DEFINE h == HostOf(t)
           p == thr[t].pkt
           s == sess[h]
<1>1. /\ Open(thr[t]) /\ p # NoPacket /\ s = thr[t].was.sess /\ used[h] = thr[t].was.used
      /\ thr[t].was.sess.sseq <= s.sseq
  BY ChosenIs DEF Same
<1>2. Step(t, Idle, s, used[h]) /\ s \in Sessions
  BY RefBefore DEF Step, Return
<1>3. /\ AtomicSess[h] = s /\ AtomicUsed[h] = used[h]
      /\ \A k \in SessionKeys(s) : k \in Atomic!LiveKeys
      /\ AtomicSess = [k \in Host |-> AtomicSess[k]]
      /\ AtomicUsed = [k \in Host |-> AtomicUsed[k]]
  BY <1>1, OpenSeen
<1>4. /\ RefInv' /\ p \in Atomic!Arriving(h)
      /\ AtomicSess' = [AtomicSess EXCEPT ![h] = s]
      /\ AtomicUsed' = [AtomicUsed EXCEPT ![h] = used[h]]
      /\ AtomicNet' = Atomic!Taken(h, p)
  BY <1>1, <1>2, <1>3, Consumes
<1>5. AtomicSess' = AtomicSess /\ AtomicUsed' = AtomicUsed
  BY <1>3, <1>4
<1>6. Atomic!ReceiveData(h, p) \/ Atomic!ReceiveGarbled(h, p)
  <2>1. Atomic!CtlOpens(AtomicSess[h], p) <=> CtlOpens(s, p)
    BY <1>3, SameOperators
  <2> QED  BY <1>4, <1>5, <2>1 DEF Atomic!ReceiveData, Atomic!ReceiveGarbled
<1>7. h \in Atomic!Host
  BY ThreadHost, SameOperators
<1> QED  BY <1>4, <1>6, <1>7 DEF Atomic!Receive, Atomic!Next

\* The secondary's answer could not be sent, or the message was garbled:
\* packet_handler clears the flag.
LEMMA GiveUpUnsent ==
    ASSUME OneEachHost, SMPInv, RefInv, NEW t \in Thread, GiveUp(t), ~thr[t].sent
    PROVE  RefInv' /\ Atomic!Next
<1> DEFINE h == HostOf(t)
           p == thr[t].pkt
           s == sess[h]
           w == thr[t].was
           r == [s EXCEPT !.rekey = FALSE]
           L == Atomic!LiveKeys
<1>1. /\ thr[t].pc = "giveup" /\ net' = net /\ Step(t, Idle, r, used[h])
  BY RefBefore DEF GiveUp, At, SetRekey, Step, Return
<1>2. /\ thr[t] \in Locals /\ s \in Sessions /\ h \in Host /\ Flow(h, thr[t])
      /\ Working(h, thr[t], s, used[h], L)
  BY RefBefore
<1>3. Open(thr[t])
  BY <1>1 DEF Open
<1>4. /\ w.sess.sseq <= s.sseq
      /\ \/ /\ thr[t].job = "none" /\ Same(thr[t], s, used[h])
            /\ DataOpens(s, p) /\ ~CtlOpens(s, p)
         \/ Failed(h, thr[t], s, used[h], L)
  BY <1>1, <1>2, <1>3 DEF Working, Doing
<1>5. /\ p.msg.type # "DATA" /\ thr[t].job \in {"none", "replace"}
      /\ thr[t].job = "replace" => h = "sec" /\ p.msg.type = "REPLACE_KEY"
  BY <1>1, <1>2 DEF Flow
<1>6. p # NoPacket
  BY <1>5, IdleType
<1>7. /\ AtomicSess[h] = w.sess /\ AtomicUsed[h] = w.used
      /\ \A k \in SessionKeys(w.sess) : k \in L
      /\ \A k \in PacketKeys(p) : k \in L
      /\ AtomicSess = [k \in Host |-> AtomicSess[k]]
      /\ AtomicUsed = [k \in Host |-> AtomicUsed[k]]
      /\ AtomicNet = [k \in Host |-> AtomicNet[k]]
  BY <1>3, <1>6, OpenSeen
<1>8. r \in Sessions /\ r.sseq = s.sseq /\ SessionKeys(r) = SessionKeys(s)
  BY <1>2 DEF Sessions, SessionKeys
<1>9. h \in Atomic!Host
  BY <1>2, SameOperators
<1>10. ASSUME \A k \in Key : k \in SessionKeys(s) => k \in L
       PROVE  /\ RefInv' /\ p \in Atomic!Arriving(h)
              /\ AtomicSess' = [AtomicSess EXCEPT ![h] = r]
              /\ AtomicUsed' = [AtomicUsed EXCEPT ![h] = used[h]]
              /\ AtomicNet' = Atomic!Taken(h, p)
  <2>1. \A k \in Key : k \in SessionKeys(r) => k \in L
    BY <1>8, <1>10
  <2> HIDE DEF r
  <2> QED  BY <1>1, <1>3, <1>4, <1>6, <1>8, <2>1, Consumes
<1>11. CASE /\ thr[t].job = "none" /\ Same(thr[t], s, used[h])
            /\ DataOpens(s, p) /\ ~CtlOpens(s, p)
  <2>1. s = w.sess /\ used[h] = w.used
    BY <1>11 DEF Same
  <2>2. /\ RefInv' /\ p \in Atomic!Arriving(h)
        /\ AtomicSess' = [AtomicSess EXCEPT ![h] = r]
        /\ AtomicUsed' = [AtomicUsed EXCEPT ![h] = used[h]]
        /\ AtomicNet' = Atomic!Taken(h, p)
    BY <1>7, <1>10, <2>1
  <2>3. AtomicUsed' = AtomicUsed
    BY <1>7, <2>1, <2>2
  <2>4. AtomicSess' = [AtomicSess EXCEPT ![h].rekey = FALSE]
    BY <1>7, <2>1, <2>2
  <2>5. ~Atomic!CtlOpens(AtomicSess[h], p) /\ Atomic!DataOpens(AtomicSess[h], p)
    BY <1>7, <1>11, <2>1, SameOperators
  <2>6. Atomic!ReceiveGarbled(h, p)
    BY <1>5, <2>2, <2>3, <2>4, <2>5 DEF Atomic!ReceiveGarbled
  <2> QED  BY <1>9, <2>2, <2>6 DEF Atomic!Receive, Atomic!Next
<1>12. CASE Failed(h, thr[t], s, used[h], L)
  <2>1. PICK b, m : \E res \in Failing :
           /\ Base(h, thr[t], b, m, L)
           /\ s = AfterSend(b, res) /\ used[h] = Numbers(w.used, res)
    BY <1>12 DEF Failed
  <2>2. PICK res \in Failing :
           /\ Base(h, thr[t], b, m, L)
           /\ s = AfterSend(b, res) /\ used[h] = Numbers(w.used, res)
    BY <2>1
  <2>3. /\ h = "sec" /\ CtlOpens(w.sess, p) /\ p.msg.type = "REPLACE_KEY"
        /\ b = NewKeys(w.sess, p.msg.d, p.msg.c, p.msg.d = NoKey, p.msg.c = NoKey)
    BY <1>5, <2>2 DEF Base
  <2>4. w.sess \in Sessions /\ b \in Sessions /\ b.sseq = w.sess.sseq
    BY <1>2, <2>2, BaseFields
  <2>5. \A k \in Key : k \in SessionKeys(s) => k \in L
    <3>1. LET c == NewKeys(w.sess, p.msg.d, p.msg.c, p.msg.d = NoKey, p.msg.c = NoKey)
          IN  \A k \in SessionKeys(AfterSend(c, res)) : k \in L
      BY <1>7, <2>4, AnswerKeys, Zenon
    <3> QED  BY <2>2, <2>3, <3>1
  <2>6. /\ RefInv' /\ p \in Atomic!Arriving(h)
        /\ AtomicSess' = [AtomicSess EXCEPT ![h] = r]
        /\ AtomicUsed' = [AtomicUsed EXCEPT ![h] = used[h]]
        /\ AtomicNet' = Atomic!Taken(h, p)
    BY <1>10, <2>5
  <2> HIDE DEF r, s
  <2>7. r = [AfterSend(b, res) EXCEPT !.rekey = FALSE]
    BY <2>2 DEF r
  <2>8. Atomic!ReplaceKey(p)
    <3>1. AtomicSess["sec"] = w.sess /\ AtomicUsed["sec"] = w.used /\ w.used \in Nat
      BY <1>2, <1>7, <2>3 DEF Locals
    <3>2. /\ AtomicSess' = [AtomicSess EXCEPT
                              !["sec"] = [AfterSend(b, res) EXCEPT !.rekey = FALSE]]
          /\ AtomicUsed' = [AtomicUsed EXCEPT !["sec"] = Numbers(AtomicUsed["sec"], res)]
          /\ AtomicNet' = Atomic!Taken("sec", p)
      BY <2>2, <2>3, <2>6, <2>7, <3>1
    <3> HIDE DEF p, w
    <3> QED  BY <1>7, <2>3, <2>4, <3>1, <3>2, ReplaceFails
  <2> QED  BY <1>9, <2>3, <2>6, <2>8 DEF Atomic!Receive, Atomic!Next
<1> QED  BY <1>4, <1>11, <1>12

\* rekey_session on the primary ends without an answer having left.
LEMMA PrimaryFails ==
    ASSUME NEW p, NEW res \in Failing, AtomicSess["pri"] \in Sessions,
           AtomicUsed["pri"] \in Nat, p.msg.type = "REKEY", ~p.msg.err,
           CtlOpens(AtomicSess["pri"], p),
           AtomicSess' = [AtomicSess EXCEPT
              !["pri"] = [AfterSend(AtomicSess["pri"], res) EXCEPT !.rekey = FALSE]],
           AtomicUsed' = [AtomicUsed EXCEPT !["pri"] = Numbers(AtomicUsed["pri"], res)],
           AtomicNet' = Atomic!Taken("pri", p)
    PROVE  Atomic!RekeyPrimary(p)
<1> DEFINE s == AtomicSess["pri"]
           a == Atomic!AfterSend(s, res)
<1>1. res \in Atomic!SendResult \ {"sent"}
  BY SameOperators DEF Failing
<1>2. Atomic!CtlOpens(s, p) /\ a = AfterSend(s, res)
  BY SameOperators
<1>3. Atomic!Count("pri", a) = Numbers(AtomicUsed["pri"], res)
  <2>1. AfterSend(s, res).sseq = s.sseq <=> res = "unsent"
    BY NumberTakenIs
  <2> QED  BY <1>2, <2>1 DEF Atomic!Count, Numbers
<1> HIDE DEF a
<1>4. /\ AtomicSess' = [AtomicSess EXCEPT !["pri"] = [a EXCEPT !.rekey = FALSE]]
      /\ AtomicUsed' = [AtomicUsed EXCEPT !["pri"] = Atomic!Count("pri", a)]
  BY <1>2, <1>3
<1> QED  BY <1>1, <1>2, <1>4 DEF Atomic!RekeyPrimary, a

\* A rekey_session that has sent nothing ends.
LEMMA ClearUnsent ==
    ASSUME OneEachHost, SMPInv, RefInv, NEW t \in Thread, ClearRekey(t),
           thr[t].job = "rekey", ~thr[t].sent
    PROVE  RefInv' /\ Atomic!Next
<1> DEFINE h == HostOf(t)
           p == thr[t].pkt
           s == sess[h]
           w == thr[t].was
           r == [s EXCEPT !.rekey = FALSE]
           L == Atomic!LiveKeys
<1>1. /\ thr[t].pc = "clear" /\ net' = net /\ Step(t, Idle, r, used[h])
  BY RefBefore DEF ClearRekey, At, SetRekey, Step, Return
<1>2. /\ thr[t] \in Locals /\ s \in Sessions /\ h \in Host /\ Flow(h, thr[t])
      /\ Working(h, thr[t], s, used[h], L)
  BY RefBefore
<1>3. Open(thr[t])
  BY <1>1 DEF Open
<1>4. w.sess.sseq <= s.sseq /\ Doing(h, thr[t], s, used[h], L)
  BY <1>2, <1>3 DEF Working
<1>5. p.msg.type = "REKEY" /\ p # NoPacket
  BY <1>2, IdleType DEF Flow
<1>6. /\ AtomicSess[h] = w.sess /\ AtomicUsed[h] = w.used
      /\ w.sess \in Sessions /\ w.used \in Nat
      /\ \A k \in SessionKeys(w.sess) : k \in L
      /\ AtomicSess = [k \in Host |-> AtomicSess[k]]
      /\ AtomicUsed = [k \in Host |-> AtomicUsed[k]]
      /\ AtomicNet = [k \in Host |-> AtomicNet[k]]
  BY <1>3, OpenSeen
<1>7. r \in Sessions /\ r.sseq = s.sseq /\ SessionKeys(r) = SessionKeys(s)
  BY <1>2 DEF Sessions, SessionKeys
<1>8. h \in Atomic!Host
  BY <1>2, SameOperators
<1>9. ASSUME h = "sec" => \A k \in Key : k \in SessionKeys(s) => k \in L
      PROVE  /\ RefInv' /\ p \in Atomic!Arriving(h)
             /\ AtomicSess' = [AtomicSess EXCEPT ![h] = r]
             /\ AtomicUsed' = [AtomicUsed EXCEPT ![h] = used[h]]
             /\ AtomicNet' = Atomic!Taken(h, p)
  <2>1. h = "sec" => \A k \in Key : k \in SessionKeys(r) => k \in L
    BY <1>7, <1>9
  <2> HIDE DEF r
  <2> QED  BY <1>1, <1>3, <1>4, <1>5, <1>7, <2>1, Consumes
<1>10. CASE h = "pri"
  <2>1. /\ RefInv' /\ p \in Atomic!Arriving(h)
        /\ AtomicSess' = [AtomicSess EXCEPT !["pri"] = r]
        /\ AtomicUsed' = [AtomicUsed EXCEPT !["pri"] = used[h]]
        /\ AtomicNet' = Atomic!Taken("pri", p)
    BY <1>9, <1>10
  <2>2. CASE Same(thr[t], s, used[h]) /\ CtlOpens(s, p) /\ p.msg.err
    <3>1. s = AtomicSess["pri"] /\ used[h] = AtomicUsed["pri"]
      BY <1>6, <1>10, <2>2 DEF Same
    <3>2. AtomicUsed' = AtomicUsed
      BY <1>6, <2>1, <3>1
    <3>3. AtomicSess' = [AtomicSess EXCEPT !["pri"].rekey = FALSE]
      BY <2>1, <3>1
    <3>4. Atomic!CtlOpens(AtomicSess["pri"], p)
      BY <2>2, <3>1, SameOperators
    <3>5. Atomic!RekeyPrimary(p)
      BY <1>5, <2>1, <2>2, <3>2, <3>3, <3>4 DEF Atomic!RekeyPrimary
    <3> QED  BY <1>8, <1>10, <2>1, <3>5 DEF Atomic!Receive, Atomic!Next
  <2>3. CASE Failed(h, thr[t], s, used[h], L)
    <3>1. PICK b, m : \E res \in Failing :
             /\ Base(h, thr[t], b, m, L)
             /\ s = AfterSend(b, res) /\ used[h] = Numbers(w.used, res)
      BY <2>3 DEF Failed
    <3>2. PICK res \in Failing :
             /\ Base(h, thr[t], b, m, L)
             /\ s = AfterSend(b, res) /\ used[h] = Numbers(w.used, res)
      BY <3>1
    <3>3. CtlOpens(w.sess, p) /\ ~p.msg.err /\ b = w.sess
      BY <3>2 DEF Base
    <3> HIDE DEF r, s
    <3>4. r = [AfterSend(w.sess, res) EXCEPT !.rekey = FALSE]
      BY <3>2, <3>3 DEF r
    <3>5. /\ AtomicSess["pri"] = w.sess /\ AtomicUsed["pri"] = w.used
          /\ AtomicSess' = [AtomicSess EXCEPT
              !["pri"] = [AfterSend(AtomicSess["pri"], res) EXCEPT !.rekey = FALSE]]
          /\ AtomicUsed' = [AtomicUsed EXCEPT !["pri"] = Numbers(AtomicUsed["pri"], res)]
      BY <1>6, <1>10, <2>1, <3>2, <3>4
    <3> HIDE DEF p, w
    <3>6. Atomic!RekeyPrimary(p)
      BY <1>5, <1>6, <2>1, <3>3, <3>5, PrimaryFails
    <3> QED  BY <1>8, <1>10, <2>1, <3>6 DEF Atomic!Receive, Atomic!Next, p
  <2> QED  BY <1>1, <1>4, <1>10, <2>2, <2>3 DEF Doing
<1>11. CASE h = "sec"
  <2> DEFINE b == p3_rekey(w.sess, 4)
             num == p.msg.num
  <2>1. Switching(thr[t], s, used[h])
    BY <1>1, <1>4, <1>11 DEF Doing
  <2>2. /\ CtlOpens(w.sess, p) /\ used[h] = 0
        /\ s = [b EXCEPT !.rID0 = b.rID1, !.rID1 = num]
    BY <1>1, <2>1 DEF Switching
  <2>3. r = SwitchKeys(w.sess, num, 4)
    BY <1>6, <2>2 DEF SwitchKeys, p3_rekey, Sessions
  <2>4. \A k \in SessionKeys(s) : k \in L
    <3>1. b.newkey = w.sess.newkey /\ b.ctx0 = w.sess.ctx1
          /\ b.ctx1 = [de |-> w.sess.newkey.d, dd |-> w.sess.newkey.d,
                       ce |-> w.sess.newkey.c, cd |-> w.sess.newkey.c]
      BY <1>6 DEF p3_rekey, Sessions
    <3>2. /\ s.newkey = b.newkey /\ s.ctx0 = b.ctx0 /\ s.ctx1 = b.ctx1
      BY <1>6, <2>2 DEF p3_rekey, Sessions
    <3>3. \A k \in SessionKeys(s) : k \in SessionKeys(w.sess)
      <4> HIDE DEF s, b, w
      <4> QED  BY <3>1, <3>2 DEF SessionKeys, CtxKeys
    <3> QED  BY <1>6, <3>3
  <2>5. /\ RefInv' /\ p \in Atomic!Arriving(h)
        /\ AtomicSess' = [AtomicSess EXCEPT ![h] = r]
        /\ AtomicUsed' = [AtomicUsed EXCEPT ![h] = used[h]]
        /\ AtomicNet' = Atomic!Taken(h, p)
    BY <1>9, <2>4
  <2> HIDE DEF r, p, w, s, L, num, b
  <2>6. /\ AtomicSess["sec"] = w.sess /\ Atomic!CtlOpens(w.sess, p)
        /\ AtomicSess' = [AtomicSess EXCEPT !["sec"] = Atomic!SwitchKeys(w.sess, num, 4)]
        /\ AtomicUsed' = [AtomicUsed EXCEPT !["sec"] = 0]
        /\ AtomicNet' = Atomic!Taken("sec", p)
    BY <1>6, <1>11, <2>2, <2>3, <2>5, SameOperators
  <2>7. 4 \in Atomic!Created
    BY SameOperators DEF Created
  <2>8. Atomic!RekeySecondary(p)
    BY <1>5, <2>6, <2>7 DEF Atomic!RekeySecondary, num
  <2> QED  BY <1>8, <1>11, <2>5, <2>8 DEF Atomic!Receive, Atomic!Next
<1> QED  BY <1>2, <1>10, <1>11 DEF Host

\* It takes the number the handler saw, or the next one.
LEMMA ReadyNumber ==
    ASSUME NEW h, NEW x \in Locals, NEW a, NEW n, NEW L, Ready(h, x, a, n, L)
    PROVE  LET w == x.was
           IN  /\ a.sseq \in {w.sess.sseq, SuccSeq(w.sess.sseq)}
               /\ a.sseq # w.sess.sseq => RekeyDue(w.sess)
               /\ n = w.used + (IF a.sseq = w.sess.sseq THEN 0 ELSE 1)
<1> DEFINE w == x.was
           s == w.sess
<1>1. s \in Sessions /\ w.used \in Nat
  BY DEF Locals
<1>2. ASSUME NEW b, NEW m, NEW res \in Failing, Picked(s, b, m, L),
             a = [AfterSend(b, res) EXCEPT !.rekey = FALSE], n = Numbers(w.used, res)
      PROVE  /\ a.sseq \in {s.sseq, SuccSeq(s.sseq)}
             /\ n = w.used + (IF a.sseq = s.sseq THEN 0 ELSE 1)
  <2>1. b \in Sessions /\ b.sseq = s.sseq
    BY <1>1, <1>2, PickedFields
  <2>2. /\ AfterSend(b, res).sseq = s.sseq <=> res = "unsent"
        /\ AfterSend(b, res).sseq = IF res = "unsent" THEN s.sseq ELSE SuccSeq(s.sseq)
    BY <2>1, NumberTakenIs
  <2>3. a.sseq = AfterSend(b, res).sseq
    <3>1. AfterSend(b, res) \in Sessions
      BY <2>1, AfterSendType
    <3> QED  BY <1>2, <3>1 DEF Sessions
  <2> QED  BY <1>1, <1>2, <2>2, <2>3 DEF Numbers
<1> QED  BY <1>1, <1>2 DEF Ready

\* start_rekeying in P3Session, with the keys that were picked.
LEMMA StartTaken ==
    ASSUME NEW c, NEW m, NEW res \in SendResult, RekeyDue(AtomicSess["pri"]),
           Picked(AtomicSess["pri"], c, m, Atomic!LiveKeys),
           \/ /\ res = "sent"
              /\ AtomicSess' = [AtomicSess EXCEPT
                                 !["pri"] = [AfterSend(c, res) EXCEPT !.rekey = TRUE]]
              /\ AtomicNet' = [AtomicNet EXCEPT !["sec"] = @ \cup {CtlPacket(c, m)}]
              /\ AtomicUsed' = [AtomicUsed EXCEPT !["pri"] = @ + 1]
           \/ /\ res # "sent"
              /\ Atomic!Transmit("pri", [AfterSend(c, res) EXCEPT !.rekey = FALSE])
    PROVE  Atomic!StartRekeying
<1> DEFINE s == AtomicSess["pri"]
           L == Atomic!LiveKeys
<1>1. PICK fresh \in Key \ L, didx \in UseIndex, cidx \in UseIndex :
        \E dk \in GetKey(s.newkey.d, fresh), ck \in GetKey(s.newkey.c, fresh) :
          c = NewKeys(s, dk, ck, didx, cidx) /\ m = NewKeyMsg(dk, ck, didx, cidx)
  BY Zenon DEF Picked
<1>2. PICK dk \in GetKey(s.newkey.d, fresh), ck \in GetKey(s.newkey.c, fresh) :
          c = NewKeys(s, dk, ck, didx, cidx) /\ m = NewKeyMsg(dk, ck, didx, cidx)
  BY <1>1, Zenon
<1>3. /\ didx \in Atomic!UseIndex /\ cidx \in Atomic!UseIndex /\ res \in Atomic!SendResult
      /\ dk \in Atomic!GetKey(s.newkey.d, fresh) /\ ck \in Atomic!GetKey(s.newkey.c, fresh)
      /\ Atomic!RekeyDue(s)
  BY <1>2, SameOperators
<1> DEFINE b == Atomic!NewKeys(s, dk, ck, didx, cidx)
           k == Atomic!NewKeyMsg(dk, ck, didx, cidx)
           a == [Atomic!AfterSend(b, res) EXCEPT !.rekey = (res = "sent")]
<1>4. /\ b = c /\ k = m /\ Atomic!CtlPacket(b, k) = CtlPacket(c, m)
      /\ a = [AfterSend(c, res) EXCEPT !.rekey = (res = "sent")]
  BY <1>2, SameOperators
<1> HIDE DEF b, k, a
<1>5. \/ /\ res = "sent"
         /\ AtomicSess' = [AtomicSess EXCEPT !["pri"] = a]
         /\ AtomicNet' = [AtomicNet EXCEPT !["sec"] = @ \cup {Atomic!CtlPacket(b, k)}]
         /\ AtomicUsed' = [AtomicUsed EXCEPT !["pri"] = @ + 1]
      \/ /\ res # "sent"
         /\ Atomic!Transmit("pri", a)
  <2>1. CASE res = "sent"
    <3>1. a = [AfterSend(c, res) EXCEPT !.rekey = TRUE]
      BY <1>4, <2>1
    <3> QED  BY <1>4, <2>1, <3>1
  <2>2. CASE res # "sent"
    <3>1. a = [AfterSend(c, res) EXCEPT !.rekey = FALSE]
      BY <1>4, <2>2
    <3> QED  BY <2>2, <3>1
  <2> QED  BY <2>1, <2>2
<1>6. Atomic!start_rekeying(dk, ck, didx, cidx, res)
  BY <1>5 DEF Atomic!start_rekeying, a, b, k
<1> QED  BY <1>3, <1>6, Zenon DEF Atomic!StartRekeying

\* A data packet leaves.
LEMMA EncryptDataRefines ==
    ASSUME OneEachHost, SMPInv, RefInv, BelowWrap, NEW t \in Thread, EncryptData(t)
    PROVE  RefInv' /\ Atomic!Next
<1> DEFINE h == HostOf(t)
           g == Peer(h)
           x == thr[t]
           s == sess[h]
           w == x.was
           L == Atomic!LiveKeys
           q == [x.out EXCEPT !.dk = s.ctx1.de]
           new == {q}
<1>1. /\ x.pc = "data" /\ net' = [net EXCEPT ![g] = @ \cup new]
      /\ Step(t, Idle, s, used[h])
  BY RefBefore DEF EncryptData, At, Step, Return
<1>2. /\ x \in Locals /\ s \in Sessions /\ h \in Host /\ g \in Host /\ h # g
      /\ Working(h, x, s, used[h], L)
      /\ Open(x) /\ x.pkt = NoPacket => RoomFor(h, w)
  BY RefBefore, Handlers
<1>3. Open(x)
  BY <1>1, <1>2 DEF Open, Working, Leaving
<1>4. /\ w.sess.sseq <= s.sseq
      /\ \E a, n : /\ Ready(h, x, a, n, L) /\ ~a.rekey
                   /\ s = Advance(a) /\ used[h] = n + 1
                   /\ x.out = [NoPacket EXCEPT !.seq = a.sseq]
  BY <1>1, <1>2, <1>3 DEF Working, Doing
<1>5. PICK a, n : /\ Ready(h, x, a, n, L) /\ ~a.rekey
                  /\ s = Advance(a) /\ used[h] = n + 1
                  /\ x.out = [NoPacket EXCEPT !.seq = a.sseq]
  BY <1>4
<1>6. /\ a \in Sessions /\ a.ctx1 = w.sess.ctx1 /\ x.pkt = NoPacket
  <2>1. x.pkt = NoPacket
    BY <1>5 DEF Ready
  <2> HIDE DEF h, x, L
  <2> QED  BY <1>2, <1>5, <2>1, ReadyFields
<1>7. q = DataPacket(a) /\ q.seq = a.sseq /\ PacketKeys(q) \subseteq {a.ctx1.de, NoKey}
      /\ ~q.copy /\ q.msg.type = "DATA"
  <2>1. s.ctx1 = a.ctx1
    BY <1>5, <1>6 DEF Advance, Sessions
  <2>2. q = DataPacket(a)
    <3>1. /\ NoPacket.ck = NoKey /\ NoPacket.msg = DataMsg /\ ~NoPacket.copy
          /\ NoPacket \in Packet
      BY IdleType DEF NoPacket
    <3>2. /\ x.out.seq = a.sseq /\ x.out.ck = NoKey /\ x.out.msg = DataMsg
          /\ x.out.copy = FALSE /\ x.out \in Packet
      BY <1>2, <1>5, <3>1 DEF Packet, Locals
    <3> HIDE DEF x, s
    <3>3. x.out = [seq |-> x.out.seq, dk |-> x.out.dk, ck |-> x.out.ck,
                   msg |-> x.out.msg, copy |-> x.out.copy]
      BY <3>2 DEF Packet
    <3>4. q = [seq |-> x.out.seq, dk |-> s.ctx1.de, ck |-> x.out.ck,
               msg |-> x.out.msg, copy |-> x.out.copy]
      BY <3>3
    <3>5. q = [seq |-> a.sseq, dk |-> a.ctx1.de, ck |-> NoKey, msg |-> DataMsg,
               copy |-> FALSE]
      BY <2>1, <3>2, <3>4
    <3> QED  BY <3>5 DEF DataPacket
  <2> HIDE DEF q
  <2> QED  BY <2>2 DEF DataPacket, PacketKeys, DataMsg
<1>8. /\ AtomicSess[h] = w.sess /\ AtomicUsed[h] = w.used
      /\ w.sess \in Sessions /\ w.used \in Nat /\ w.sess.sseq \in Nat
      /\ \A k \in SessionKeys(w.sess) : k \in L
      /\ AtomicSess = [k \in Host |-> AtomicSess[k]]
      /\ AtomicUsed = [k \in Host |-> AtomicUsed[k]]
      /\ AtomicNet = [k \in Host |-> AtomicNet[k]]
  BY <1>3, OpenSeen
<1>9. /\ Cardinality(AtomicNet[g]) < MaxNet /\ AtomicUsed[h] < MaxPerKey
      /\ AtomicSess[h].sseq < MaxSeq
  BY <1>2, <1>3, <1>6, <1>8 DEF RoomFor
<1>10. /\ w.sess.sseq <= a.sseq /\ a.sseq < s.sseq /\ 1 <= w.sess.sseq /\ a.sseq \in Nat
       /\ s.sseq \in Nat
       /\ n = w.used + (IF a.sseq = w.sess.sseq THEN 0 ELSE 1)
  <2>1. 1 <= w.sess.sseq
    BY <1>2, <1>8 DEF RefInv, RefOK
  <2>2. a.sseq \in Nat /\ s.sseq \in Nat /\ s.sseq + 1 < SeqMod
    BY <1>2, <1>6, SessionNat DEF BelowWrap
  <2>3. s.sseq = SuccSeq(a.sseq)
    BY <1>5, <1>6 DEF Advance, Sessions
  <2>4. s.sseq = a.sseq + 1
    <3>1. CASE a.sseq + 1 = SeqMod
      <4>1. s.sseq = 1 /\ w.sess.sseq = 1
        BY <1>4, <1>8, <2>1, <2>3, <3>1 DEF SuccSeq
      <4>2. ~RekeyDue(w.sess)
        BY <4>1, SeqAssumption DEF RekeyDue
      <4>3. a.sseq = 1
        BY <1>2, <1>5, <4>1, <4>2, ReadyNumber
      <4> QED  BY <3>1, <4>3, SeqAssumption
    <3> QED  BY <2>3, <3>1 DEF SuccSeq
  <2>5. /\ a.sseq \in {w.sess.sseq, SuccSeq(w.sess.sseq)}
        /\ n = w.used + (IF a.sseq = w.sess.sseq THEN 0 ELSE 1)
    BY <1>2, <1>5, ReadyNumber
  <2>6. w.sess.sseq <= a.sseq
    <3>1. SuccSeq(w.sess.sseq) = w.sess.sseq + 1 \/ w.sess.sseq + 1 = SeqMod
      BY DEF SuccSeq
    <3> QED  BY <1>4, <1>8, <2>2, <2>4, <2>5, <3>1
  <2> QED  BY <2>1, <2>2, <2>4, <2>5, <2>6
<1> HIDE DEF q
<1>11. Effect(t, Idle, s, used[h], new)
  <2>1. SeenSession(Idle, s) = s /\ ~Open(Idle) /\ ~Idle.sent
    BY IdleSeen
  <2>2. IsFiniteSet(new)
    BY FS_Singleton
  <2>3. Fits(g, q, s.sseq) /\ q.seq \in Nat /\ w.sess.sseq <= q.seq
    BY <1>7, <1>8, <1>10 DEF Fits
  <2>4. ASSUME h = "sec", NEW k \in Key, k \in SessionKeys(s) \/ k \in PacketKeys(q)
        PROVE  k \in L
    <3>1. a = w.sess
      BY <1>5, <2>4 DEF Ready
    <3>2. SessionKeys(s) = SessionKeys(a)
      BY <1>5, <1>6 DEF SessionKeys, Advance, Sessions
    <3>3. k # NoKey
      BY KeyAssumption
    <3>4. a.ctx1.de \in SessionKeys(a)
      BY DEF SessionKeys, CtxKeys
    <3> QED  BY <1>7, <1>8, <2>4, <3>1, <3>2, <3>3, <3>4
  <2>5. w.sess.sseq <= s.sseq
    BY <1>4
  <2> HIDE DEF s, h, g, w, L
  <2>6. /\ \A p \in new : p = q
        /\ h = "sec" => \A k \in Key : \/ k \in SessionKeys(s)
                                       \/ \E p \in new : k \in PacketKeys(p)
                                       => k \in L
    BY <2>4
  <2> HIDE DEF new
  <2> QED  BY <1>1, <1>3, <1>8, <1>10, <2>1, <2>2, <2>3, <2>5, <2>6
           DEF Effect, h, g, L
<1>12. /\ RefInv'
       /\ AtomicSess' = [AtomicSess EXCEPT ![h] = Advance(a)]
       /\ AtomicUsed' = [AtomicUsed EXCEPT ![h] = n + 1]
       /\ AtomicNet' = [AtomicNet EXCEPT ![g] = @ \cup {DataPacket(a)}]
  <2>1. /\ RefInv'
        /\ AtomicSess' = [AtomicSess EXCEPT ![h] = SeenSession(Idle, s)]
        /\ AtomicUsed' = [AtomicUsed EXCEPT ![h] = SeenUsed(Idle, used[h])]
        /\ AtomicNet' = [AtomicNet EXCEPT ![h] = @ \ Hand(x), ![g] = @ \cup new]
    BY <1>1, <1>11, Commits
  <2>2. Hand(x) = {}
    BY <1>6 DEF Hand
  <2>3. AtomicNet' = [AtomicNet EXCEPT ![g] = @ \cup new]
    BY <1>2, <1>8, <2>1, <2>2
  <2> QED  BY <1>5, <1>7, <2>1, <2>3, IdleSeen
<1>13. Atomic!Transmit(h, a)
  BY <1>2, <1>5, <1>8, <1>9, <1>10, <1>12, DataLeaves
<1>14. CASE a = w.sess /\ ~(h = "pri" /\ RekeyDue(w.sess))
  <2>1. Atomic!SendData(h)
    BY <1>8, <1>13, <1>14, SameOperators DEF Atomic!SendData
  <2> QED  BY <1>2, <1>12, <2>1, SameOperators DEF Atomic!Next
<1>15. CASE /\ h = "pri" /\ RekeyDue(w.sess)
            /\ \E b, m : \E res \in Failing :
                 /\ Picked(w.sess, b, m, L)
                 /\ a = [AfterSend(b, res) EXCEPT !.rekey = FALSE]
  <2>1. PICK b, m : \E res \in Failing :
                 /\ Picked(w.sess, b, m, L)
                 /\ a = [AfterSend(b, res) EXCEPT !.rekey = FALSE]
    BY <1>15
  <2>2. PICK res \in Failing : /\ Picked(w.sess, b, m, L)
                               /\ a = [AfterSend(b, res) EXCEPT !.rekey = FALSE]
    BY <2>1
  <2>3. /\ AtomicSess["pri"] = w.sess /\ res \in SendResult /\ res # "sent"
        /\ Atomic!Transmit("pri", [AfterSend(b, res) EXCEPT !.rekey = FALSE])
    BY <1>8, <1>13, <1>15, <2>2 DEF Failing
  <2> HIDE DEF w, L
  <2>4. Atomic!StartRekeying
    BY <1>15, <2>2, <2>3, StartTaken DEF L
  <2> QED  BY <1>12, <2>4 DEF Atomic!Next
<1> QED  BY <1>5, <1>14, <1>15 DEF Ready

\* What P3Session sees when the control packet that t built from b leaves.
ControlSent(t, b, m) ==
    LET h == HostOf(t)
        x == [thr[t] EXCEPT !.pc = AfterSending(t), !.sent = TRUE]
    IN  /\ AtomicSess' = [AtomicSess EXCEPT ![h] = Completed(x, Advance(b))]
        /\ AtomicUsed' = [AtomicUsed EXCEPT
                            ![h] = IF thr[t].job = "rekey" THEN 0 ELSE used[h]]
        /\ AtomicNet' = [AtomicNet EXCEPT ![h] = @ \ Hand(thr[t]),
                                          ![Peer(h)] = @ \cup {CtlPacket(b, m)}]

\* The packet leaves: its number and the session it was built from show at once.
LEMMA ControlLeaves ==
    ASSUME OneEachHost, SMPInv, RefInv, BelowWrap, NEW t \in Thread, SendPacket(t),
           NEW b, NEW m, Base(HostOf(t), thr[t], b, m, Atomic!LiveKeys),
           Built(thr[t], b, m), thr[t].pc = "send",
           sess[HostOf(t)] = AfterSend(b, "sent"),
           used[HostOf(t)] = Numbers(thr[t].was.used, "sent")
    PROVE  RefInv' /\ ControlSent(t, b, m)
<1> DEFINE h == HostOf(t)
           g == Peer(h)
           y == thr[t]
           s == sess[h]
           w == y.was
           L == Atomic!LiveKeys
           x == [y EXCEPT !.pc = AfterSending(t), !.sent = TRUE]
           n == IF y.job = "rekey" THEN 0 ELSE used[h]
           q == y.out
           new == {q}
<1>1. /\ net' = [net EXCEPT ![g] = @ \cup new] /\ Step(t, x, s, n)
  BY RefBefore DEF SendPacket, At, Step
<1>2. /\ y \in Locals /\ s \in Sessions /\ h \in Host /\ g \in Host /\ h # g
      /\ Flow(h, y) /\ Open(y) /\ w.sess.sseq <= s.sseq
  BY RefBefore, Handlers, SendingState DEF Sending
<1>3. /\ w.sess \in Sessions /\ b \in Sessions /\ b.sseq = w.sess.sseq
      /\ b.ctx1 = w.sess.ctx1
      /\ y.job = "start" => b.rekey
  BY <1>2, BaseFields
<1>4. q = CtlPacket(b, m) /\ q.seq = b.sseq /\ ~q.copy /\ q.msg = m
      /\ q.dk = b.ctx1.de /\ q.ck = b.ctx1.ce
  <2>1. q \in Packet
    BY <1>2 DEF Locals
  <2>2. /\ q.seq = b.sseq /\ q.copy = FALSE /\ q.msg = m
        /\ q.dk = b.ctx1.de /\ q.ck = b.ctx1.ce
    BY <2>1 DEF Built, Packet
  <2> HIDE DEF q
  <2> QED  BY <2>1, <2>2 DEF Packet, CtlPacket
<1>5. /\ AtomicSess[h] = w.sess /\ AtomicUsed[h] = w.used
      /\ \A k \in SessionKeys(w.sess) : k \in L
      /\ y.pkt # NoPacket => \A k \in PacketKeys(y.pkt) : k \in L
  BY <1>2, OpenSeen
<1>6. s = Advance(b)
  BY DEF AfterSend
<1>7. /\ b.sseq \in Nat /\ b.sseq < s.sseq /\ 1 <= b.sseq /\ s.sseq \in Nat
  <2>1. 1 <= b.sseq
    BY <1>2, <1>3, <1>5 DEF RefInv, RefOK
  <2>2. b.sseq \in Nat /\ s.sseq \in Nat
    BY <1>2, <1>3, SessionNat
  <2>3. s.sseq # b.sseq
    BY <1>3, NumberTakenIs
  <2> QED  BY <1>2, <1>3, <2>1, <2>2, <2>3
<1>8. /\ x.job = y.job /\ x.pkt = y.pkt /\ x.sent /\ x.pc = AfterSending(t)
      /\ y.job \in {"start", "replace", "rekey"}
      /\ h = "pri" => y.job \in {"start", "rekey"}
      /\ h = "sec" => y.job = "replace"
  <2>1. y.job \in (IF h = "pri" THEN {"start", "rekey"} ELSE {"replace"})
    BY <1>2 DEF Flow, Sending
  <2> QED  BY <1>2, <2>1 DEF Locals
<1>9. x.pc = CASE y.job = "start" -> "take"
               [] y.job = "replace" -> "hold"
               [] y.job = "rekey" -> "switch"
  BY <1>8 DEF AfterSending
<1>10. x.pc # "idle" /\ ~Open(x) /\ Leaving(x, s, n)
  <2>1. y.job = "start" => s.rekey
    BY <1>3, <1>6 DEF Advance, Sessions
  <2> HIDE DEF x, s
  <2> QED  BY <1>8, <1>9, <2>1 DEF Open, Leaving
<1>11. SeenSession(x, s) = Completed(x, Advance(b)) /\ SeenUsed(x, n) = n
  BY <1>6, <1>10 DEF SeenSession, SeenUsed
<1>12. SeenSession(x, s).sseq = s.sseq
       /\ SessionKeys(SeenSession(x, s)) \subseteq SessionKeys(s)
  BY <1>2, <1>10, CompletedFields DEF SeenSession
<1>13. Fits(g, q, s.sseq)
  <2>1. h = "pri" /\ m.type = "REKEY" => ~m.err
    <3> SUFFICES ASSUME h = "pri", m.type = "REKEY" PROVE ~m.err
      OBVIOUS
    <3>1. CASE y.job = "start"
      <4>1. PICK c : Picked(w.sess, c, m, L)
        BY <3>1 DEF Base
      <4>2. m.type = "REPLACE_KEY"
        BY <1>3, <4>1, PickedFields
      <4> QED  BY <4>2
    <3>2. CASE y.job = "rekey"
      <4>1. m = RekeyMsg(SuccSeq(w.sess.sseq), FALSE)
        BY <3>2 DEF Base
      <4> QED  BY <4>1 DEF RekeyMsg
    <3> QED  BY <1>8, <3>1, <3>2
  <2>2. g = "sec" => h = "pri"
    BY <1>2 DEF Host
  <2> HIDE DEF q, g, h, s
  <2> QED  BY <1>4, <1>7, <2>1, <2>2 DEF Fits
<1>14. ASSUME h = "sec", NEW k \in Key, k \in SessionKeys(s) \/ k \in PacketKeys(q)
       PROVE  k \in L
  <2> DEFINE p == y.pkt
  <2>1. /\ y.job = "replace" /\ p.msg.type = "REPLACE_KEY"
    BY <1>2, <1>8, <1>14 DEF Flow
  <2>2. p # NoPacket
    BY <2>1, IdleType
  <2>3. /\ b = NewKeys(w.sess, p.msg.d, p.msg.c, p.msg.d = NoKey, p.msg.c = NoKey)
        /\ m = RekeyMsg(SuccSeq(w.sess.sseq), Refuses(y))
    BY <2>1 DEF Base
  <2>4. \A j \in SessionKeys(s) : j \in L
    <3>1. LET c == NewKeys(w.sess, p.msg.d, p.msg.c, p.msg.d = NoKey, p.msg.c = NoKey)
          IN  \A j \in SessionKeys(AfterSend(c, "sent")) : j \in L
      BY <1>3, <1>5, <2>2, AnswerKeys, Zenon
    <3> QED  BY <2>3, <3>1
  <2>5. m.d = NoKey /\ m.c = NoKey
    BY <2>3 DEF RekeyMsg
  <2>6. PacketKeys(q) = {b.ctx1.de, b.ctx1.ce, NoKey}
    <3> HIDE DEF q
    <3> QED  BY <1>4, <2>5 DEF PacketKeys
  <2>7. {b.ctx1.de, b.ctx1.ce} \subseteq SessionKeys(w.sess)
    BY <1>3 DEF SessionKeys, CtxKeys
  <2>8. k # NoKey
    BY KeyAssumption
  <2> HIDE DEF s, q, L
  <2> QED  BY <1>5, <1>14, <2>4, <2>6, <2>7, <2>8 DEF L
<1>15. Effect(t, x, s, n, new)
  <2>1. IsFiniteSet(new)
    BY FS_Singleton
  <2> HIDE DEF s, h, g, w, L, q, x, n
  <2>2. /\ \A p \in new : p = q
        /\ h = "sec" => \A k \in Key : \/ k \in SessionKeys(SeenSession(x, s))
                                       \/ \E p \in new : k \in PacketKeys(p)
                                       => k \in L
    BY <1>12, <1>14
  <2>3. /\ SeenSession(x, s).sseq \in Nat /\ w.sess.sseq <= SeenSession(x, s).sseq
        /\ q.seq \in Nat /\ w.sess.sseq <= q.seq /\ Fits(g, q, SeenSession(x, s).sseq)
    BY <1>2, <1>3, <1>4, <1>7, <1>12, <1>13
  <2> HIDE DEF new
  <2> QED  BY <1>1, <1>2, <1>5, <1>10, <2>1, <2>2, <2>3 DEF Effect, h, g, L
<1>16. /\ RefInv'
       /\ AtomicSess' = [AtomicSess EXCEPT ![h] = SeenSession(x, s)]
       /\ AtomicUsed' = [AtomicUsed EXCEPT ![h] = SeenUsed(x, n)]
       /\ AtomicNet' = [AtomicNet EXCEPT ![h] = @ \ Hand(y), ![g] = @ \cup new]
  BY <1>1, <1>15, Commits
<1> HIDE DEF q, s
<1> QED  BY <1>4, <1>11, <1>16 DEF ControlSent

\* What P3Session sees when the secondary's answer m to p, the packet r, leaves.
AnswerSent(p, b, m, r, n) ==
    /\ p.msg.type = "REPLACE_KEY" /\ CtlOpens(AtomicSess["sec"], p)
    /\ b = NewKeys(AtomicSess["sec"], p.msg.d, p.msg.c, p.msg.d = NoKey, p.msg.c = NoKey)
    /\ m = RekeyMsg(SuccSeq(AtomicSess["sec"].sseq), NoKey \in {p.msg.d, p.msg.c})
    /\ r = CtlPacket(AtomicSess["sec"], m) /\ n = AtomicUsed["sec"] + 1
    /\ AtomicSess' = [AtomicSess EXCEPT
          !["sec"] = [Advance(b) EXCEPT !.rekey = ~(NoKey \in {p.msg.d, p.msg.c})]]
    /\ AtomicUsed' = [AtomicUsed EXCEPT !["sec"] = n]
    /\ AtomicNet' = [AtomicNet EXCEPT !["sec"] = @ \ {p}, !["pri"] = @ \cup {r}]

\* That is replace_key.
LEMMA AnswerLeaves ==
    ASSUME NEW p, NEW b \in Sessions, NEW m, NEW r, NEW n,
           b.sseq = AtomicSess["sec"].sseq, AtomicUsed["sec"] \in Nat,
           AnswerSent(p, b, m, r, n)
    PROVE  Atomic!ReplaceKey(p)
<1> DEFINE s == AtomicSess["sec"]
           err == NoKey \in {p.msg.d, p.msg.c}
           c == Atomic!NewKeys(s, p.msg.d, p.msg.c, p.msg.d = NoKey, p.msg.c = NoKey)
           a == Atomic!AfterSend(c, "sent")
           q == Atomic!CtlPacket(s, Atomic!RekeyMsg(Atomic!SuccSeq(s.sseq), err))
<1>1. "sent" \in Atomic!SendResult
  BY DEF Atomic!SendResult
<1>2. Atomic!CtlOpens(s, p) /\ c = b /\ a = Advance(b) /\ q = r
  BY SameOperators DEF AfterSend, AnswerSent
<1>3. Atomic!Count("sec", a) = n
  <2>1. AfterSend(b, "sent").sseq # s.sseq
    BY NumberTakenIs
  <2> QED  BY <1>2, <2>1 DEF Atomic!Count, AfterSend, AnswerSent
<1> HIDE DEF c, q
<1>4. AtomicNet' = [Atomic!Taken("sec", p) EXCEPT !["pri"] = @ \cup {q}]
  BY <1>2 DEF Atomic!Taken, AnswerSent
<1>5. /\ AtomicSess' = [AtomicSess EXCEPT
                         !["sec"] = [a EXCEPT !.rekey = ("sent" = "sent" /\ ~err)]]
      /\ AtomicNet' = [Atomic!Taken("sec", p) EXCEPT !["pri"] =
                         @ \cup (IF "sent" = "sent" THEN {q} ELSE {})]
      /\ AtomicUsed' = [AtomicUsed EXCEPT !["sec"] = Atomic!Count("sec", a)]
  BY <1>1, <1>2, <1>3, <1>4 DEF AnswerSent
<1> QED  BY <1>1, <1>2, <1>5 DEF Atomic!ReplaceKey, AnswerSent, c, q

\* A control packet leaves: REPLACE_KEY, or one of the two REKEY messages.
LEMMA SendPacketRefines ==
    ASSUME OneEachHost, SMPInv, RefInv, BelowWrap, NEW t \in Thread, SendPacket(t)
    PROVE  RefInv' /\ Atomic!Next
<1> DEFINE h == HostOf(t)
           y == thr[t]
           p == y.pkt
           w == y.was
           L == Atomic!LiveKeys
           x == [y EXCEPT !.pc = AfterSending(t), !.sent = TRUE]
<1>1. y.pc = "send"
  BY DEF SendPacket, At
<1>2. PICK b, m : /\ Base(h, y, b, m, L) /\ Built(y, b, m)
                  /\ sess[h] = AfterSend(b, "sent") /\ used[h] = Numbers(w.used, "sent")
  BY <1>1, SendingState DEF Sending
<1>3. /\ y \in Locals /\ h \in Host /\ Flow(h, y) /\ Open(y)
  BY <1>1, RefBefore, SendingState DEF Sending
<1>4. /\ w.sess \in Sessions /\ b \in Sessions /\ b.sseq = w.sess.sseq
      /\ w.used \in Nat /\ AtomicSess[h] = w.sess /\ AtomicUsed[h] = w.used
      /\ AtomicNet = [k \in Host |-> AtomicNet[k]]
  BY <1>2, <1>3, BaseFields, OpenSeen
<1>5. /\ RefInv'
      /\ AtomicSess' = [AtomicSess EXCEPT ![h] = Completed(x, Advance(b))]
      /\ AtomicUsed' = [AtomicUsed EXCEPT ![h] = IF y.job = "rekey" THEN 0 ELSE used[h]]
      /\ AtomicNet' = [AtomicNet EXCEPT ![h] = @ \ Hand(y),
                                        ![Peer(h)] = @ \cup {CtlPacket(b, m)}]
  <2>1. RefInv' /\ ControlSent(t, b, m)
    BY <1>1, <1>2, ControlLeaves
  <2> QED  BY <2>1 DEF ControlSent
<1>6. /\ x.job = y.job /\ x.pkt = p /\ x.pc = AfterSending(t) /\ used[h] = w.used + 1
      /\ y.job \in (IF h = "pri" THEN {"start", "rekey"} ELSE {"replace"})
  BY <1>1, <1>2, <1>3 DEF Locals, Flow, Sending, Numbers
<1>7. /\ y.job = "start" => h = "pri"
      /\ y.job = "replace" => h = "sec" /\ p.msg.type = "REPLACE_KEY"
      /\ y.job = "rekey" => h = "pri" /\ p.msg.type = "REKEY"
  BY <1>3, <1>6 DEF Flow
<1>8. p # NoPacket => p \in Atomic!Arriving(h) /\ Hand(y) = {p}
  BY <1>3, ArrivingHand, InHand
<1>9. Peer("pri") = "sec" /\ Peer("sec") = "pri"
  BY DEF Peer
<1> HIDE DEF x
<1>10. CASE y.job = "start"
  <2>1. Completed(x, Advance(b)) = Advance(b)
    BY <1>6, <1>10 DEF Completed
  <2>2. PICK c : Picked(w.sess, c, m, L) /\ b = [c EXCEPT !.rekey = TRUE]
    BY <1>2, <1>10 DEF Base
  <2>3. RekeyDue(w.sess) /\ p = NoPacket
    BY <1>2, <1>10 DEF Base
  <2>4. c \in Sessions
    BY <1>4, <2>2, PickedFields
  <2>5. Advance(b) = [AfterSend(c, "sent") EXCEPT !.rekey = TRUE]
    BY <2>2, <2>4 DEF AfterSend, Advance, Sessions
  <2>6. CtlPacket(b, m) = CtlPacket(c, m)
    BY <2>2, <2>4 DEF CtlPacket, Sessions
  <2>7. Hand(y) = {}
    BY <2>3 DEF Hand
  <2>8. "sent" \in SendResult
    BY DEF SendResult
  <2> HIDE DEF p, w, L, h
  <2>9. /\ AtomicSess["pri"] = w.sess /\ AtomicUsed["pri"] = w.used
        /\ AtomicSess' = [AtomicSess EXCEPT
                           !["pri"] = [AfterSend(c, "sent") EXCEPT !.rekey = TRUE]]
        /\ AtomicUsed' = [AtomicUsed EXCEPT !["pri"] = @ + 1]
    BY <1>4, <1>5, <1>6, <1>7, <1>10, <2>1, <2>5
  <2>10. AtomicNet' = [AtomicNet EXCEPT !["sec"] = @ \cup {CtlPacket(c, m)}]
    <3>1. AtomicNet' = [AtomicNet EXCEPT !["pri"] = @ \ {}, !["sec"] = @ \cup {CtlPacket(c, m)}]
      BY <1>5, <1>7, <1>9, <1>10, <2>6, <2>7
    <3>2. [AtomicNet EXCEPT !["pri"] = @ \ {}] = AtomicNet
      BY <1>4
    <3> QED  BY <3>1, <3>2
  <2>11. Atomic!StartRekeying
    BY <2>2, <2>3, <2>8, <2>9, <2>10, StartTaken DEF L
  <2> QED  BY <1>5, <2>11 DEF Atomic!Next
<1>11. CASE y.job = "replace"
  <2>1. Completed(x, Advance(b)) = [Advance(b) EXCEPT !.rekey = ~Refuses(x)]
    BY <1>6, <1>11 DEF Completed
  <2>2. Refuses(x) <=> NoKey \in {p.msg.d, p.msg.c}
    BY <1>6, <1>11 DEF Refuses
  <2>3. /\ CtlOpens(w.sess, p)
        /\ b = NewKeys(w.sess, p.msg.d, p.msg.c, p.msg.d = NoKey, p.msg.c = NoKey)
        /\ m = RekeyMsg(SuccSeq(w.sess.sseq), NoKey \in {p.msg.d, p.msg.c})
    <3>1. /\ CtlOpens(w.sess, p)
          /\ b = NewKeys(w.sess, p.msg.d, p.msg.c, p.msg.d = NoKey, p.msg.c = NoKey)
          /\ m = RekeyMsg(SuccSeq(w.sess.sseq), Refuses(y))
      BY <1>2, <1>11 DEF Base
    <3>2. Refuses(y) = (NoKey \in {p.msg.d, p.msg.c})
      BY <1>11 DEF Refuses
    <3> QED  BY <3>1, <3>2
  <2>4. b.ctx1 = w.sess.ctx1 /\ CtlPacket(b, m) = CtlPacket(w.sess, m)
    BY <1>3, <1>2, <1>4, BaseFields DEF CtlPacket
  <2>5. p # NoPacket
    BY <1>7, <1>11, IdleType
  <2> HIDE DEF p, w, L, h
  <2>6. /\ AtomicSess["sec"] = w.sess /\ AtomicUsed["sec"] = w.used
        /\ AtomicSess' = [AtomicSess EXCEPT
              !["sec"] = [Advance(b) EXCEPT !.rekey = ~(NoKey \in {p.msg.d, p.msg.c})]]
        /\ AtomicUsed' = [AtomicUsed EXCEPT !["sec"] = w.used + 1]
        /\ AtomicNet' = [AtomicNet EXCEPT !["sec"] = @ \ {p},
                                          !["pri"] = @ \cup {CtlPacket(b, m)}]
    BY <1>4, <1>5, <1>6, <1>7, <1>8, <1>9, <1>11, <2>1, <2>2, <2>5
  <2>7. Atomic!ReplaceKey(p)
    <3>1. /\ p.msg.type = "REPLACE_KEY" /\ CtlOpens(AtomicSess["sec"], p)
          /\ b = NewKeys(AtomicSess["sec"], p.msg.d, p.msg.c,
                         p.msg.d = NoKey, p.msg.c = NoKey)
          /\ m = RekeyMsg(SuccSeq(AtomicSess["sec"].sseq), NoKey \in {p.msg.d, p.msg.c})
      BY <1>7, <1>11, <2>3, <2>6
    <3>2. b \in Sessions /\ b.sseq = AtomicSess["sec"].sseq /\ AtomicUsed["sec"] \in Nat
      BY <1>4, <2>6
    <3>3. w.used + 1 = AtomicUsed["sec"] + 1
      BY <2>6
    <3>4. CtlPacket(b, m) = CtlPacket(AtomicSess["sec"], m)
      BY <2>4, <2>6
    <3>5. /\ AtomicSess' = [AtomicSess EXCEPT
                !["sec"] = [Advance(b) EXCEPT !.rekey = ~(NoKey \in {p.msg.d, p.msg.c})]]
          /\ AtomicUsed' = [AtomicUsed EXCEPT !["sec"] = w.used + 1]
          /\ AtomicNet' = [AtomicNet EXCEPT !["sec"] = @ \ {p},
                                            !["pri"] = @ \cup {CtlPacket(b, m)}]
      BY <2>6
    <3>6. AnswerSent(p, b, m, CtlPacket(b, m), w.used + 1)
      BY <3>1, <3>3, <3>4, <3>5 DEF AnswerSent
    <3> QED  BY <3>2, <3>6, AnswerLeaves
  <2> QED  BY <1>5, <1>7, <1>8, <1>11, <2>5, <2>7, SameOperators
           DEF Atomic!Receive, Atomic!Next, Host
<1>12. CASE y.job = "rekey"
  <2>1. Completed(x, Advance(b)) = SwitchKeys(Advance(b), p.msg.num, 4)
    BY <1>6, <1>12 DEF Completed, AfterSending
  <2>2. /\ CtlOpens(w.sess, p) /\ ~p.msg.err /\ b = w.sess
        /\ m = RekeyMsg(SuccSeq(w.sess.sseq), FALSE)
    BY <1>2, <1>12 DEF Base
  <2>3. p # NoPacket
    BY <1>7, <1>12, IdleType
  <2> HIDE DEF p, w, L, h
  <2>4. /\ AtomicSess["pri"] = w.sess
        /\ AtomicSess' = [AtomicSess EXCEPT
              !["pri"] = SwitchKeys(Advance(w.sess), p.msg.num, 4)]
        /\ AtomicUsed' = [AtomicUsed EXCEPT !["pri"] = 0]
        /\ AtomicNet' = [AtomicNet EXCEPT !["pri"] = @ \ {p},
                                          !["sec"] = @ \cup {CtlPacket(w.sess, m)}]
    BY <1>4, <1>5, <1>6, <1>7, <1>8, <1>9, <1>12, <2>1, <2>2, <2>3
  <2>5. /\ Atomic!CtlOpens(w.sess, p) /\ 4 \in Atomic!Created
        /\ Atomic!SwitchKeys(Atomic!Advance(w.sess), p.msg.num, 4)
             = SwitchKeys(Advance(w.sess), p.msg.num, 4)
        /\ Atomic!CtlPacket(w.sess, Atomic!RekeyMsg(Atomic!SuccSeq(w.sess.sseq), FALSE))
             = CtlPacket(w.sess, m)
    <3>1. 4 \in Atomic!Created
      BY SameOperators DEF Created
    <3>2. /\ \A n, e : Atomic!RekeyMsg(n, e) = RekeyMsg(n, e)
          /\ \A n : Atomic!SuccSeq(n) = SuccSeq(n)
          /\ \A s, k : Atomic!CtlPacket(s, k) = CtlPacket(s, k)
      BY SameOperators
    <3>3. /\ \A s : Atomic!Advance(s) = Advance(s)
          /\ \A s, n, k : Atomic!SwitchKeys(s, n, k) = SwitchKeys(s, n, k)
      BY SameOperators
    <3>4. Atomic!CtlOpens(w.sess, p)
      BY <2>2, SameOperators
    <3> QED  BY <2>2, <3>1, <3>2, <3>3, <3>4
  <2>6. AtomicNet' = [Atomic!Taken("pri", p) EXCEPT !["sec"] = @ \cup {CtlPacket(w.sess, m)}]
    BY <2>4 DEF Atomic!Taken
  <2>7. Atomic!RekeyPrimary(p)
    BY <1>7, <1>12, <2>2, <2>4, <2>5, <2>6 DEF Atomic!RekeyPrimary
  <2> QED  BY <1>5, <1>7, <1>8, <1>12, <2>3, <2>7, SameOperators
           DEF Atomic!Receive, Atomic!Next, Host
<1> QED  BY <1>6, <1>10, <1>11, <1>12

\* Few packets are on their way.
LEMMA SeenFinite ==
    ASSUME OneEachHost, RefInv, NEW h \in Host
    PROVE  IsFiniteSet(AtomicNet[h])
<1> DEFINE x == thr[HandlerOf(h)]
<1>1. Hand(x) = {} \/ Hand(x) = {x.pkt}
  BY DEF Hand
<1>2. IsFiniteSet(net[h]) /\ IsFiniteSet(net[h] \cup {x.pkt})
  BY FS_AddElement DEF RefInv, RefOK
<1> QED  BY <1>1, <1>2, Mapped

\* The number of a session is at least the one P3Session sees.
LEMMA SeenNumber ==
    ASSUME OneEachHost, SMPInv, RefInv, NEW h \in Host
    PROVE  /\ AtomicSess[h].sseq <= sess[h].sseq /\ AtomicSess[h].sseq \in Nat
           /\ sess[h].sseq \in Nat /\ sess[h].sseq < SeqMod
<1> DEFINE u == HandlerOf(h)
<1>1. u \in Thread /\ HostOf(u) = h
  BY Handlers
<1>2. /\ sess[h] \in Sessions /\ Working(h, thr[u], sess[h], used[h], Atomic!LiveKeys)
  BY <1>1, RefBefore
<1>3. AtomicSess[h] = SeenSession(thr[u], sess[h])
  BY Mapped
<1>4. AtomicSess[h].sseq <= sess[h].sseq
  <2>1. CASE Open(thr[u])
    BY <1>2, <1>3, <2>1 DEF Working, SeenSession
  <2>2. CASE ~Open(thr[u])
    BY <1>2, <1>3, <2>2, CompletedFields, SessionNat DEF SeenSession
  <2> QED  BY <2>1, <2>2
<1> QED  BY <1>2, <1>4, SeenTypes, SeqNat DEF Sessions

\* A packet is received: P3Session sees it taken only when it has an effect.
LEMMA ChooseKeyRefines ==
    ASSUME OneEachHost, SMPInv, RefInv, NEW t \in Thread, ChooseKey(t)
    PROVE  RefInv' /\ UNCHANGED Seen
<1> DEFINE h == HostOf(t)
           g == Peer(h)
           u == HandlerOf(g)
           s == sess[h]
           n == used[h]
<1>1. PICK p \in Arriving(h) :
        /\ net' = Taken(h, p)
        /\ thr' = [thr EXCEPT ![t] = [Begin(h, "decrypt") EXCEPT
                                        !.pkt = p, !.new = InNewRange(s, p.seq)]]
  BY DEF ChooseKey
<1>2. /\ thr[t].pc = "idle" /\ UNCHANGED <<sess, used>>
  BY DEF ChooseKey, At
<1> DEFINE x == [Begin(h, "decrypt") EXCEPT !.pkt = p, !.new = InNewRange(s, p.seq)]
<1>3. /\ h \in Host /\ g \in Host /\ g # h /\ HandlerOf(h) = t /\ Peer(g) = h
      /\ \A k \in Host : k = h \/ k = g
  <2>1. h \in Host /\ HandlerOf(h) = t
    BY Handlers
  <2> QED  BY <2>1, Handlers DEF Host
<1>4. /\ s \in Sessions /\ sess \in [Host -> Sessions] /\ used \in [Host -> Nat]
      /\ thr[t].job = "none" /\ ~Open(thr[t])
      /\ net \in [Host -> SUBSET Packet]
  BY <1>2, RefBefore DEF Flow, Open, SMPInv, SMPTypeOK, TypeOK
<1>5. p \in net[h] /\ net'[h] = net[h] \ {p} /\ net'[g] = net[g]
  <2>1. p \in net[h]
    BY DEF Arriving
  <2> QED  BY <1>1, <1>3, <1>4, <2>1 DEF Taken
<1>6. RefOK(h) /\ RefOK(g)
  BY <1>3 DEF RefInv
<1>7. /\ AtomicNet[h] = net[h] /\ AtomicSess[h] = s /\ AtomicUsed[h] = n
      /\ AtomicNet[g] = net[g] \cup Hand(thr[u])
  BY <1>3, <1>4, Mapped DEF Hand, SeenSession, SeenUsed, Completed
<1>8. /\ \A q \in net[h] : Fits(h, q, AtomicSess[g].sseq) /\ q.seq \in Nat
      /\ p # NoPacket
  <2>1. \A q \in net[h] : Fits(h, q, AtomicSess[g].sseq) /\ q.seq \in Nat
    BY <1>3, <1>6, <1>7, SeenTypes DEF RefOK
  <2>2. NoPacket.seq = 0
    BY DEF NoPacket
  <2> QED  BY <1>5, <2>1, <2>2 DEF Fits
<1>9. /\ x.pc = "decrypt" /\ x.pkt = p /\ x.new = InNewRange(s, p.seq) /\ ~x.sent
      /\ x.was = [sess |-> s, used |-> n] /\ ~x.out.copy
  BY IdleType DEF Begin, Locals, Idle, NoPacket
<1>10. Step(t, x, s, n)
  BY <1>1, <1>2, <1>4 DEF Step
<1> HIDE DEF x
<1>11. Open(x) /\ Hand(x) = {p}
  BY <1>8, <1>9 DEF Open, Hand
<1>12. Working(h, x, s, n, Atomic!LiveKeys)
  <2>1. Same(x, s, n) /\ x.was.sess.sseq <= s.sseq
    BY <1>4, <1>9, SessionNat DEF Same
  <2> QED  BY <1>8, <1>9, <2>1 DEF Working, Doing, Sending
<1>13. /\ thr'[HandlerOf(h)] = x /\ sess'[h] = s /\ used'[h] = n
       /\ thr'[u] = thr[u] /\ sess'[g] = sess[g] /\ used'[g] = used[g]
       /\ AtomicSess' = [AtomicSess EXCEPT ![h] = SeenSession(x, s)]
       /\ AtomicUsed' = [AtomicUsed EXCEPT ![h] = SeenUsed(x, n)]
       /\ AtomicNet'[h] = net'[h] \cup Hand(x)
       /\ AtomicNet'[g] = net'[g] \cup Hand(thr[u])
  BY <1>3, <1>10, StepMapped
<1>14. AtomicSess' = AtomicSess /\ AtomicUsed' = AtomicUsed
  <2>1. SeenSession(x, s) = s /\ SeenUsed(x, n) = n
    BY <1>9, <1>11 DEF SeenSession, SeenUsed
  <2> QED  BY <1>7, <1>13, <2>1, Mapped
<1> HIDE DEF h, g, u, s, n
<1>15. AtomicNet' = AtomicNet
  <2>1. AtomicNet'[h] = AtomicNet[h] /\ AtomicNet'[g] = AtomicNet[g]
    BY <1>5, <1>7, <1>11, <1>13
  <2> QED  BY <1>3, <2>1, Mapped, MappedNext
<1>16. Atomic!LiveKeys' = Atomic!LiveKeys
  BY <1>14, <1>15 DEF Atomic!LiveKeys
<1>17. ASSUME "reorder" \notin Env, NEW q \in net[h]
       PROVE  p.seq <= q.seq
  <2> DEFINE m == sess[g].sseq
  <2>1. m \in Nat /\ m < SeqMod /\ AtomicSess[g].sseq <= m /\ AtomicSess[g].sseq \in Nat
    BY <1>3, SeenNumber
  <2>2. /\ p.seq \in Nat /\ q.seq \in Nat /\ p.seq < AtomicSess[g].sseq
        /\ q.seq < AtomicSess[g].sseq
    BY <1>5, <1>8 DEF Fits
  <2>3. Age(h, q) < Age(h, p) \/ Age(h, q) = Age(h, p)
    BY <1>1, <1>17 DEF Arriving, h
  <2>4. Age(h, q) = (m - q.seq) % SeqMod /\ Age(h, p) = (m - p.seq) % SeqMod
    BY DEF Age, g
  <2> HIDE DEF m
  <2>5. Age(h, q) = m - q.seq /\ Age(h, p) = m - p.seq
    <3>1. q.seq <= m /\ p.seq <= m
      BY <2>1, <2>2
    <3>2. (m - q.seq) % SeqMod = m - q.seq
      BY <2>1, <2>2, <3>1, SmallDiff
    <3>3. (m - p.seq) % SeqMod = m - p.seq
      BY <2>1, <2>2, <3>1, SmallDiff
    <3> QED  BY <2>4, <3>2, <3>3
  <2> QED  BY <2>1, <2>2, <2>3, <2>5
<1>18. RefOK(h)'
  <2>1. WasOldest(p, net'[h])
    BY <1>5, <1>17 DEF WasOldest
  <2>2. IsFiniteSet(net'[h])
    <3>1. IsFiniteSet(net[h]) /\ net[h] \ {p} \in SUBSET net[h]
      BY <1>6 DEF RefOK
    <3> QED  BY <1>5, <3>1, FS_Subset
  <2>3. ~(Open(x) /\ x.pkt = NoPacket)
    BY <1>8, <1>9
  <2> QED  BY <1>3, <1>6, <1>11, <1>12, <1>13, <1>14, <1>15, <1>16, <2>1, <2>2, <2>3
           DEF RefOK, h, g
<1>19. RefOK(g)'
  <2>1. \A w : RoomFor(g, w) => RoomFor(g, w)'
    BY <1>15 DEF RoomFor
  <2> QED  BY <1>3, <1>5, <1>6, <1>13, <1>14, <1>15, <1>16, <2>1 DEF RefOK, u
<1> QED  BY <1>3, <1>14, <1>15, <1>18, <1>19 DEF RefInv, Seen

\* The network loses a packet that no handler holds.
LEMMA LoseRefines ==
    ASSUME OneEachHost, SMPInv, RefInv, NEW h \in Host, Lose(h), thr' = thr
    PROVE  RefInv' /\ Atomic!Lose(h)
<1>1. PICK p \in net[h] : /\ "lose" \in Env \/ ("losedata" \in Env /\ p.msg.type = "DATA")
                          /\ net' = Taken(h, p)
  BY DEF Lose
<1>2. sess' = sess /\ used' = used
  BY DEF Lose
<1>3. net \in [Host -> SUBSET Packet] /\ \A k \in Host : RefOK(k)
  BY DEF SMPInv, SMPTypeOK, TypeOK, RefInv
<1>4. /\ net'[h] = net[h] \ {p} /\ \A k \in Host \ {h} : net'[k] = net[k]
  BY <1>1, <1>3 DEF Taken
<1>5. AtomicSess' = AtomicSess /\ AtomicUsed' = AtomicUsed
  BY <1>2, Mapped, MappedNext
<1>6. p \notin Hand(thr[HandlerOf(h)])
  BY <1>3 DEF RefOK, WasOldest
<1>7. /\ AtomicNet'[h] = AtomicNet[h] \ {p} /\ \A k \in Host \ {h} : AtomicNet'[k] = AtomicNet[k]
  BY <1>4, <1>6, Mapped, MappedNext
<1>8. AtomicNet' = Atomic!Taken(h, p)
  <2>1. AtomicNet' = [AtomicNet EXCEPT ![h] = @ \ {p}]
    BY <1>7, Mapped, MappedNext
  <2> QED  BY <2>1 DEF Atomic!Taken
<1>9. Atomic!Lose(h)
  <2>1. p \in AtomicNet[h]
    BY Mapped
  <2> QED  BY <1>1, <1>5, <1>8, <2>1 DEF Atomic!Lose
<1>10. \A k \in Host : AtomicNet'[k] \subseteq AtomicNet[k] /\ net'[k] \subseteq net[k]
  BY <1>4, <1>7
<1>11. \A k \in Atomic!LiveKeys' : k \in Atomic!LiveKeys
  BY <1>5, <1>10, LiveIs
<1>12. ASSUME NEW k \in Host PROVE RefOK(k)'
  <2> DEFINE x == thr[HandlerOf(k)]
  <2>1. Working(k, x, sess[k], used[k], Atomic!LiveKeys')
    <3>1. Working(k, x, sess[k], used[k], Atomic!LiveKeys)
      BY <1>3 DEF RefOK
    <3> QED  BY <1>11, <3>1, FewerBarred
  <2>2. \A q \in AtomicNet'[k] : Fits(k, q, AtomicSess[Peer(k)].sseq)
    BY <1>3, <1>10 DEF RefOK
  <2>3. \A q \in Hand(x) : WasOldest(q, net'[k])
    BY <1>3, <1>10 DEF RefOK, WasOldest
  <2>4. Open(x) /\ x.pkt = NoPacket =>
          /\ Cardinality(AtomicNet'[Peer(k)]) < MaxNet
          /\ x.was.used < MaxPerKey /\ x.was.sess.sseq < MaxSeq
    <3> SUFFICES ASSUME Open(x), x.pkt = NoPacket
                 PROVE  /\ Cardinality(AtomicNet'[Peer(k)]) < MaxNet
                        /\ x.was.used < MaxPerKey /\ x.was.sess.sseq < MaxSeq
      OBVIOUS
    <3>1. RoomFor(k, x.was)
      BY <1>3 DEF RefOK
    <3> DEFINE A == AtomicNet[Peer(k)]
               B == AtomicNet'[Peer(k)]
    <3>2. IsFiniteSet(A) /\ B \in SUBSET A
      BY <1>10, SeenFinite, Handlers
    <3>3. Cardinality(A) < MaxNet
      BY <3>1 DEF RoomFor
    <3> HIDE DEF A, B
    <3>4. /\ Cardinality(B) <= Cardinality(A) /\ Cardinality(B) \in Nat
          /\ Cardinality(A) \in Nat
      BY <3>2, FS_Subset, FS_CardinalityType
    <3>5. Cardinality(B) < MaxNet
      BY <3>3, <3>4, BoundAssumption
    <3> QED  BY <3>1, <3>5 DEF RoomFor, B
  <2>5. IsFiniteSet(net'[k])
    BY <1>3, <1>10, FS_Subset DEF RefOK
  <2>6. 1 <= AtomicSess[k].sseq
    BY <1>3 DEF RefOK
  <2> QED  BY <1>2, <1>5, <2>1, <2>2, <2>3, <2>4, <2>5, <2>6 DEF RefOK, RoomFor
<1> QED  BY <1>9, <1>12 DEF RefInv

\* p3unlock changes neither a session nor a handler.
LEMMA UnlockRefines ==
    ASSUME RefInv, UNCHANGED <<sess, net, used, thr>>
    PROVE  RefInv' /\ UNCHANGED Seen
<1>1. AtomicSess' = AtomicSess /\ AtomicNet' = AtomicNet /\ AtomicUsed' = AtomicUsed
  BY Mapped, MappedNext
<1>2. Atomic!LiveKeys' = Atomic!LiveKeys
  BY <1>1 DEF Atomic!LiveKeys
<1>3. \A h \in Host : RefOK(h) => RefOK(h)'
  BY <1>1, <1>2 DEF RefOK, RoomFor
<1> QED  BY <1>1, <1>3 DEF RefInv, Seen

\* The ends of packet_handler for a received packet.
LEMMA ReceiverRefines ==
    ASSUME OneEachHost, SMPInv, RefInv, NEW t \in Thread,
           Decrypt(t) \/ DecryptGarbled(t)
    PROVE  RefInv' /\ (Atomic!Next \/ UNCHANGED Seen)
<1> DEFINE s == sess[HostOf(t)]
           p == thr[t].pkt
<1>1. thr[t].pc \in {"decrypt", "message"} /\ UNCHANGED <<sess, net, used>>
  BY DEF Decrypt, DecryptGarbled, At
<1>2. Chosen(t) = Slot(s, p.seq)
  BY <1>1, ChosenIs
<1>3. CASE Decrypt(t) /\ Return(t) /\ (p.msg.type = "DATA" \/ Chosen(t).dd # p.dk)
  <2>1. p.msg.type = "DATA" \/ ~CtlOpens(s, p)
    BY <1>2, <1>3 DEF CtlOpens, DataOpens
  <2> QED  BY <1>1, <1>3, <2>1, DecryptReturns
<1>4. CASE Decrypt(t) /\ Chosen(t).dd = p.dk /\ Goto(t, "message")
  <2>1. thr[t].pc = "decrypt"
    BY <1>4 DEF Decrypt, At
  <2> QED  BY <1>1, <1>4, <2>1, DecryptRefines
<1>5. CASE DecryptGarbled(t)
  <2>1. thr[t].pc = "message" /\ Chosen(t).cd # p.ck /\ (Return(t) \/ Goto(t, "giveup"))
    BY <1>5 DEF DecryptGarbled, At
  <2>2. ~CtlOpens(s, p)
    BY <1>2, <2>1 DEF CtlOpens
  <2>3. CASE Return(t)
    BY <1>1, <2>2, <2>3, DecryptReturns
  <2>4. CASE Goto(t, "giveup")
    BY <1>1, <2>1, <2>4, DecryptRefines
  <2> QED  BY <2>1, <2>3, <2>4
<1> QED  BY <1>3, <1>4, <1>5 DEF Decrypt

\* The flag is cleared at the end of start_rekeying, of rekey_session and of
\* packet_handler.
LEMMA ClearRefines ==
    ASSUME OneEachHost, SMPInv, RefInv, NEW t \in Thread, ClearRekey(t) \/ GiveUp(t)
    PROVE  RefInv' /\ (Atomic!Next \/ UNCHANGED Seen)
<1>1. CASE GiveUp(t)
  BY <1>1, GiveUpSent, GiveUpUnsent
<1>2. CASE ClearRekey(t)
  <2>1. thr[t].job \in {"start", "rekey"}
    BY <1>2, RefBefore DEF ClearRekey, At, Flow
  <2> QED  BY <1>2, <2>1, ClearStart, ClearSent, ClearUnsent
<1> QED  BY <1>1, <1>2

\* Every step of a handler is a step of P3Session or none.
LEMMA ContinueRefines ==
    ASSUME OneEachHost, "nomem" \notin Env, SMPInv, RefInv, BelowWrap,
           NEW t \in Thread, Continue(t)
    PROVE  RefInv' /\ (Atomic!Next \/ UNCHANGED Seen)
<1>1. CASE \/ BuildNewKeys(t) \/ SetRekeyFlag(t) \/ TakeNumber(t) \/ EncryptData(t)
           \/ EncryptControl(t) \/ BuildHeader(t) \/ EncryptPacket(t) \/ Number(t)
  BY <1>1, BuildNewKeysRefines, SetRekeyFlagRefines, TakeNumberRefines,
     EncryptDataRefines, EncryptControlRefines, BuildHeaderRefines,
     EncryptPacketRefines, NumberRefines
<1>2. CASE \/ SendPacket(t) \/ SendFails(t) \/ ClearRekey(t) \/ GiveUp(t)
           \/ Decrypt(t) \/ DecryptGarbled(t) \/ DecryptReplace(t) \/ DecryptRekey(t)
  BY <1>2, SendPacketRefines, SendFailsRefines, ClearRefines, ReceiverRefines,
     DecryptReplaceRefines, DecryptRekeyRefines
<1>3. CASE \/ Announce(t) \/ Hold(t) \/ SwitchContexts(t) \/ SetRID0(t) \/ SetRID1(t)
  BY <1>3, AnnounceRefines, HoldRefines, SwitchRefines
<1>4. CASE p3unlock(t)
  BY <1>4, UnlockRefines DEF p3unlock
<1> QED  BY <1>1, <1>2, <1>3, <1>4 DEF Continue

\* Every step of the gateways is a step of P3Session or none.
LEMMA RefNext ==
    ASSUME OneEachHost, "nomem" \notin Env, SMPInv, RefInv, BelowWrap,
           [SMPNext]_smpVars
    PROVE  RefInv' /\ [Atomic!Next]_Seen
<1>1. CASE UNCHANGED smpVars
  BY <1>1, UnlockRefines DEF smpVars
<1>2. ASSUME NEW t \in Thread, Lookup(t) \/ ChooseKey(t)
      PROVE  RefInv' /\ [Atomic!Next]_Seen
  BY <1>2, LookupRefines, ChooseKeyRefines
<1>3. ASSUME NEW t \in Thread, Continue(t)
      PROVE  RefInv' /\ [Atomic!Next]_Seen
  BY <1>3, ContinueRefines
<1>4. ASSUME NEW h \in Host, Lose(h) /\ UNCHANGED <<thr, slock>>
      PROVE  RefInv' /\ [Atomic!Next]_Seen
  <2>1. RefInv' /\ Atomic!Lose(h)
    BY <1>4, LoseRefines
  <2>2. h \in Atomic!Host
    BY SameOperators
  <2> QED  BY <2>1, <2>2 DEF Atomic!Next
<1> QED  BY <1>1, <1>2, <1>3, <1>4 DEF SMPNext

\* Both begin without a packet.
LEMMA RefInit ==
    ASSUME OneEachHost, SMPInit
    PROVE  RefInv /\ Atomic!Init
<1>1. /\ sess = [h \in Host |-> InitSession] /\ net = [h \in Host |-> {}]
      /\ used = [h \in Host |-> 0] /\ thr = [t \in Thread |-> Idle]
  BY DEF SMPInit, Init
<1>2. \A h \in Host : thr[HandlerOf(h)] = Idle /\ Peer(h) \in Host
  BY <1>1, Handlers
<1>3. /\ AtomicSess = [h \in Host |-> InitSession] /\ AtomicNet = [h \in Host |-> {}]
      /\ AtomicUsed = [h \in Host |-> 0]
  BY <1>1, <1>2, IdleSeen, Mapped
<1>4. Atomic!Init
  BY <1>3, SameOperators DEF Atomic!Init, Atomic!InitSession, InitSession,
         Atomic!NoContexts, NoContexts, Atomic!CtxOf, CtxOf
<1>5. ASSUME NEW h \in Host PROVE RefOK(h)
  <2>1. InitSession.sseq = 1
    BY DEF InitSession
  <2>2. IsFiniteSet({})
    BY FS_EmptySet
  <2> QED  BY <1>1, <1>2, <1>3, <2>1, <2>2, IdleSeen DEF RefOK
<1> QED  BY <1>4, <1>5 DEF RefInv

\* A gateway on which one handler runs at a time behaves as P3Session says,
\* although a handler reads, locks, sends and switches contexts in steps that
\* interleave with those of the other gateway and with the network: until the
\* numbers wrap around, and while p3_rekey can allocate its contexts.
THEOREM ImplementsSessionThm ==
    ASSUME OneEachHost, "nomem" \notin Env
    PROVE  SMPSpec /\ []BelowWrap => ImplementsSession
<1>1. SMPInit => RefInv /\ Atomic!Init
  BY RefInit
<1>2. SMPInv /\ RefInv /\ BelowWrap /\ [SMPNext]_smpVars => RefInv' /\ [Atomic!Next]_Seen
  BY RefNext
<1>3. SMPSpec => []SMPInv
  BY SMPInvariant
<1>4. ImplementsSession <=> Atomic!Init /\ [][Atomic!Next]_Seen
  BY DEF ImplementsSession, Atomic!Spec, Atomic!vars, Seen
<1> QED  BY <1>1, <1>2, <1>3, <1>4, PTL DEF SMPSpec
=============================================================================
