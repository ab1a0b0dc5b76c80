--------------------------- MODULE P3SessionProofs ---------------------------
(***************************************************************************)
(* Proofs about the rekeying exchange, for every key space, sequence       *)
(* space, rekeying interval and traffic: which contexts the two gateways   *)
(* can hold, and, up to the wrap of the number (MCSession_wrap.cfg shows   *)
(* what fails there), packet_handler's choice of a key by the number.      *)
(***************************************************************************)
EXTENDS MCSessionFaults, TLAPS

Pri == sess["pri"]
Sec == sess["sec"]

(* What the proof leaves out: a control message delivered twice, a failed  *)
(* CreateAESCtx and an exhausted key server.  Losses, reordering, copies   *)
(* of data packets, failed sends and indexes are all allowed.              *)
Benign == Env \cap {"dupctl", "nomem", "nokey"} = {}

InStep == Pri.ctx1 = Sec.ctx1

\* The primary has switched; the secondary waits with keys it never used.
Ahead ==
    /\ Sec.rekey
    /\ Pri.ctx1 = CtxOf(Sec.newkey)
    /\ Sec.newkey.d \notin {Sec.ctx0.dd, Sec.ctx1.dd}

ContextInv ==
    /\ Sec.ctx1.de = Sec.ctx1.dd
    /\ Sec.ctx1.ce = Sec.ctx1.cd
    /\ Sec.ctx0.dd # Sec.ctx1.dd

\* The new keys are on their way: there is one such message and no answer.
ReplaceInv ==
    \A q \in net["sec"] : q.msg.type = "REPLACE_KEY" =>
        /\ Pri.rekey
        /\ q.dk = Pri.ctx1.de
        /\ \A r \in net["pri"] : r.msg.type # "REKEY"
        /\ \A r \in net["sec"] : r.msg.type = "REPLACE_KEY" => r = q
        /\ q.msg.d \in {NoKey, Pri.newkey.d}
        /\ q.msg.c \in {NoKey, Pri.newkey.c}
        /\ q.msg.d # NoKey =>
             q.msg.d \notin {Sec.ctx0.dd, Sec.ctx1.dd, Pri.ctx1.dd}

\* The secondary's answer is on its way: both hold the same new keys.
AnswerInv ==
    \A q \in net["pri"] :
        /\ q.msg.type # "REPLACE_KEY"
        /\ q.msg.type = "REKEY" =>
             /\ Pri.rekey /\ InStep
             /\ \A r \in net["pri"] : r.msg.type = "REKEY" => r = q
             /\ ~q.msg.err =>
                  /\ Sec.rekey
                  /\ Sec.newkey = Pri.newkey
                  /\ Pri.newkey.d \notin {Sec.ctx0.dd, Sec.ctx1.dd}

\* The primary's answer is on its way, sealed with the secondary's keys.
SwitchInv ==
    \A q \in net["sec"] : q.msg.type = "REKEY" =>
        /\ Ahead
        /\ q.dk = Sec.ctx1.dd
        /\ q.ck = Sec.ctx1.cd
        /\ \A r \in net["sec"] : r.msg.type = "REKEY" => r = q

\* The inductive invariant.
ExchangeInv ==
    /\ InStep \/ Ahead
    /\ ContextInv
    /\ ReplaceInv
    /\ AnswerInv
    /\ SwitchInv

-----------------------------------------------------------------------------
(* Types of what the handlers build                                        *)

\* A sequence number is followed by one.
LEMMA SuccSeqType == ASSUME NEW n \in Seqs PROVE SuccSeq(n) \in Seqs
BY SeqAssumption DEF Seqs, SuccSeq

\* Taking a sequence number leaves a session structure.
LEMMA AdvanceType ==
    ASSUME NEW s \in Sessions
    PROVE  /\ Advance(s) \in Sessions
           /\ Advance(s) = [s EXCEPT !.sseq = SuccSeq(s.sseq)]
BY SuccSeqType DEF Sessions, Advance

\* So does a packet that is sent, or fails to be.
LEMMA AfterSendType ==
    ASSUME NEW s \in Sessions, NEW res PROVE AfterSend(s, res) \in Sessions
BY AdvanceType DEF AfterSend

\* What packet_handler sends is a packet.
LEMMA DataPacketType ==
    ASSUME NEW s \in Sessions
    PROVE  DataPacket(s) \in Packet /\ DataPacket(s).msg.type = "DATA"
BY SeqAssumption
   DEF DataPacket, Packet, Sessions, Contexts, KeyOrNone, DataMsg, Message, Seqs

\* What p3_message sends is a packet.
LEMMA CtlPacketType ==
    ASSUME NEW s \in Sessions, NEW m \in Message
    PROVE  /\ CtlPacket(s, m) \in Packet
           /\ CtlPacket(s, m).msg = m
           /\ CtlPacket(s, m).dk = s.ctx1.de
           /\ CtlPacket(s, m).ck = s.ctx1.ce
BY DEF CtlPacket, Packet, Sessions, Contexts, KeyOrNone

\* REPLACE_KEY is a message.
LEMMA ReplaceMsgType ==
    ASSUME NEW d \in KeyOrNone, NEW c \in KeyOrNone
    PROVE  /\ ReplaceMsg(d, c) \in Message
           /\ ReplaceMsg(d, c).type = "REPLACE_KEY"
           /\ ReplaceMsg(d, c).d = d
           /\ ReplaceMsg(d, c).c = c
BY SeqAssumption DEF ReplaceMsg, Message, Seqs

\* REKEY is a message.
LEMMA RekeyMsgType ==
    ASSUME NEW num \in Seqs, NEW err \in BOOLEAN
    PROVE  /\ RekeyMsg(num, err) \in Message
           /\ RekeyMsg(num, err).type = "REKEY"
           /\ RekeyMsg(num, err).err = err
BY DEF RekeyMsg, Message, KeyOrNone

\* Noting the new keys leaves a session structure.
LEMMA NewKeysType ==
    ASSUME NEW s \in Sessions, NEW dk, NEW ck, NEW didx, NEW cidx,
           didx \/ dk \in Key, cidx \/ ck \in Key
    PROVE  NewKeys(s, dk, ck, didx, cidx) \in Sessions
BY DEF NewKeys, Sessions, KeyPair

\* So does p3_rekey, however many contexts it creates.
LEMMA SwitchKeysType ==
    ASSUME NEW s \in Sessions, NEW num \in Seqs, NEW made \in 0 .. 4
    PROVE  SwitchKeys(s, num, made) \in Sessions
<1>1. p3_rekey(s, made) \in Sessions
  <2> DEFINE new == [de |-> IF made >= 1 THEN s.newkey.d ELSE s.ctx1.de,
                     dd |-> IF made >= 2 THEN s.newkey.d ELSE s.ctx1.dd,
                     ce |-> IF made >= 3 THEN s.newkey.c ELSE s.ctx1.ce,
                     cd |-> IF made >= 4 THEN s.newkey.c ELSE s.ctx1.cd]
  <2>1. s.newkey \in KeyPair /\ s.ctx1 \in Contexts
    BY DEF Sessions
  <2>2. new \in Contexts
    BY <2>1 DEF Contexts, KeyOrNone, KeyPair
  <2> HIDE DEF new
  <2>3. [s EXCEPT !.ctx0 = s.ctx1, !.ctx1 = new] \in Sessions
    BY <2>1, <2>2 DEF Sessions
  <2> QED
    BY <2>3 DEF p3_rekey, new
<1> QED  BY <1>1 DEF SwitchKeys, Sessions

-----------------------------------------------------------------------------
(* The type invariant                                                      *)

\* The session structures are set up with their types.
LEMMA TypeInit == Init => TypeOK
<1> SUFFICES ASSUME Init PROVE TypeOK
  OBVIOUS
<1>1. InitSession \in Sessions
  BY KeyAssumption, SeqAssumption DEF InitSession, Sessions, Seqs, KeyPair,
     Contexts, KeyOrNone, NoContexts, CtxOf
<1> QED  BY <1>1 DEF Init, TypeOK

\* packet_handler keeps the types.
LEMMA TransmitType ==
    ASSUME TypeOK, NEW h \in Host, NEW s \in Sessions, Transmit(h, s)
    PROVE  TypeOK'
<1>1. Advance(s) \in Sessions  BY AdvanceType
<1>2. DataPacket(s) \in Packet  BY DataPacketType
<1>3. Count(h, s) + 1 \in Nat  BY DEF TypeOK, Count
<1>4. Peer(h) \in Host  BY DEF Peer, Host
<1> QED  BY <1>1, <1>2, <1>3, <1>4 DEF Transmit, TypeOK

\* start_rekeying keeps the types.
LEMMA StartType == ASSUME TypeOK, StartRekeying PROVE TypeOK'
<1>1. PICK fresh \in Key \ LiveKeys, didx \in UseIndex, cidx \in UseIndex,
           res \in SendResult :
        \E dk \in GetKey(Pri.newkey.d, fresh), ck \in GetKey(Pri.newkey.c, fresh) :
          start_rekeying(dk, ck, didx, cidx, res)
  BY DEF StartRekeying, Pri
<1>2. PICK dk \in GetKey(Pri.newkey.d, fresh), ck \in GetKey(Pri.newkey.c, fresh) :
        start_rekeying(dk, ck, didx, cidx, res)
  BY <1>1
<1> DEFINE b == NewKeys(Pri, dk, ck, didx, cidx)
           a == [AfterSend(b, res) EXCEPT !.rekey = (res = "sent")]
           m == NewKeyMsg(dk, ck, didx, cidx)
<1>3. Pri \in Sessions  BY DEF TypeOK, Pri, Host
<1>4. dk \in Key /\ ck \in Key
  BY <1>3 DEF GetKey, Sessions, KeyPair
<1>5. b \in Sessions  BY <1>3, <1>4, NewKeysType
<1>6. a \in Sessions
  <2>1. AfterSend(b, res) \in Sessions  BY <1>5, AfterSendType
  <2> HIDE DEF b
  <2> QED  BY <2>1 DEF Sessions
<1>7. m \in Message  BY <1>4, ReplaceMsgType DEF NewKeyMsg, KeyOrNone
<1>8. CtlPacket(b, m) \in Packet  BY <1>5, <1>7, CtlPacketType
<1> HIDE DEF a, b, m
<1>9. CASE res = "sent"
  BY <1>2, <1>6, <1>8, <1>9 DEF start_rekeying, TypeOK, Host, Pri, a, b, m
<1>10. CASE res # "sent"
  BY <1>2, <1>6, <1>10, TransmitType DEF start_rekeying, Host, Pri, a, b
<1> QED  BY <1>9, <1>10

\* What a host is handed comes from the network.
LEMMA ArrivingInNet ==
    ASSUME TypeOK, NEW h \in Host, NEW p \in Arriving(h)
    PROVE  p \in net[h] /\ p \in Packet
BY DEF Arriving, TypeOK

\* The number of packets sent under a key is a natural number.
LEMMA CountType ==
    ASSUME TypeOK, NEW h \in Host, NEW s PROVE Count(h, s) \in Nat
BY DEF Count, TypeOK

\* replace_key keeps the types.
LEMMA ReplaceKeyType ==
    ASSUME TypeOK, NEW p \in Packet, ReplaceKey(p) PROVE TypeOK'
<1> DEFINE err == NoKey \in {p.msg.d, p.msg.c}
           b == NewKeys(Sec, p.msg.d, p.msg.c, p.msg.d = NoKey, p.msg.c = NoKey)
           a(res) == [AfterSend(b, res) EXCEPT !.rekey = (res = "sent" /\ ~err)]
           r == CtlPacket(Sec, RekeyMsg(SuccSeq(Sec.sseq), err))
<1>1. Sec \in Sessions  BY DEF TypeOK, Sec, Host
<1>2. b \in Sessions
  BY <1>1, NewKeysType DEF Packet, Message, KeyOrNone
<1>3. ASSUME NEW res PROVE a(res) \in Sessions
  <2>1. AfterSend(b, res) \in Sessions  BY <1>2, AfterSendType
  <2> HIDE DEF b
  <2> QED  BY <2>1 DEF Sessions
<1>4. r \in Packet
  <2>1. SuccSeq(Sec.sseq) \in Seqs  BY <1>1, SuccSeqType DEF Sessions
  <2>2. err \in BOOLEAN  OBVIOUS
  <2> HIDE DEF err
  <2>3. RekeyMsg(SuccSeq(Sec.sseq), err) \in Message  BY <2>1, <2>2, RekeyMsgType
  <2> QED  BY <1>1, <2>3, CtlPacketType
<1>5. PICK res \in SendResult :
        /\ sess' = [sess EXCEPT !["sec"] = a(res)]
        /\ net' = [Taken("sec", p) EXCEPT !["pri"] =
                     @ \cup (IF res = "sent" THEN {r} ELSE {})]
        /\ used' = [used EXCEPT !["sec"] = Count("sec", AfterSend(b, res))]
  BY DEF ReplaceKey, Sec
<1>6. Count("sec", AfterSend(b, res)) \in Nat  BY CountType DEF Host
<1> HIDE DEF a, b, r
<1> QED  BY <1>3, <1>4, <1>5, <1>6 DEF TypeOK, Taken, Host

\* rekey_session on the primary keeps the types.
LEMMA RekeyPrimaryType ==
    ASSUME TypeOK, NEW p \in Packet, RekeyPrimary(p) PROVE TypeOK'
<1>1. Pri \in Sessions  BY DEF TypeOK, Pri, Host
<1>2. Advance(Pri) \in Sessions  BY <1>1, AdvanceType
<1>3. p.msg.num \in Seqs  BY DEF Packet, Message
<1>4. CASE p.msg.err
  <2>1. /\ sess' = [sess EXCEPT !["pri"] = [Pri EXCEPT !.rekey = FALSE]]
        /\ net' = Taken("pri", p)
        /\ UNCHANGED used
    BY <1>4 DEF RekeyPrimary, Pri
  <2>2. [Pri EXCEPT !.rekey = FALSE] \in Sessions  BY <1>1 DEF Sessions
  <2> QED  BY <2>1, <2>2 DEF TypeOK, Taken, Host
<1>5. CASE /\ \E made \in Created :
                sess' = [sess EXCEPT !["pri"] =
                           SwitchKeys(Advance(Pri), p.msg.num, made)]
           /\ net' = [Taken("pri", p) EXCEPT !["sec"] =
                        @ \cup {CtlPacket(Pri, RekeyMsg(SuccSeq(Pri.sseq), FALSE))}]
           /\ used' = [used EXCEPT !["pri"] = 0]
  <2>1. PICK made \in Created :
          sess' = [sess EXCEPT !["pri"] =
                     SwitchKeys(Advance(Pri), p.msg.num, made)]
    BY <1>5
  <2>2. SwitchKeys(Advance(Pri), p.msg.num, made) \in Sessions
    BY <1>2, <1>3, SwitchKeysType DEF Created
  <2>3. CtlPacket(Pri, RekeyMsg(SuccSeq(Pri.sseq), FALSE)) \in Packet
    <3>1. SuccSeq(Pri.sseq) \in Seqs  BY <1>1, SuccSeqType DEF Sessions
    <3> QED  BY <1>1, <3>1, RekeyMsgType, CtlPacketType
  <2> QED  BY <1>5, <2>1, <2>2, <2>3 DEF TypeOK, Taken, Host
<1>6. CASE /\ \E res \in SendResult \ {"sent"} :
                /\ sess' = [sess EXCEPT !["pri"] =
                              [AfterSend(Pri, res) EXCEPT !.rekey = FALSE]]
                /\ used' = [used EXCEPT !["pri"] =
                              Count("pri", AfterSend(Pri, res))]
           /\ net' = Taken("pri", p)
  <2>1. PICK res \in SendResult \ {"sent"} :
          /\ sess' = [sess EXCEPT !["pri"] =
                        [AfterSend(Pri, res) EXCEPT !.rekey = FALSE]]
          /\ used' = [used EXCEPT !["pri"] = Count("pri", AfterSend(Pri, res))]
    BY <1>6
  <2>2. AfterSend(Pri, res) \in Sessions  BY <1>1, AfterSendType
  <2>3. [AfterSend(Pri, res) EXCEPT !.rekey = FALSE] \in Sessions
    BY <2>2 DEF Sessions
  <2>4. sess' \in [Host -> Sessions]  BY <2>1, <2>3 DEF TypeOK, Host
  <2>5. net' \in [Host -> SUBSET Packet]  BY <1>6 DEF TypeOK, Taken, Host
  <2>6. Count("pri", AfterSend(Pri, res)) \in Nat  BY CountType DEF Host
  <2>7. used' \in [Host -> Nat]  BY <2>1, <2>6 DEF TypeOK, Host
  <2> QED  BY <2>4, <2>5, <2>7 DEF TypeOK
<1> QED  BY <1>4, <1>5, <1>6 DEF RekeyPrimary, Pri

\* rekey_session on the secondary keeps the types.
LEMMA RekeySecondaryType ==
    ASSUME TypeOK, NEW p \in Packet, RekeySecondary(p) PROVE TypeOK'
<1>1. Sec \in Sessions  BY DEF TypeOK, Sec, Host
<1>2. PICK made \in Created :
        sess' = [sess EXCEPT !["sec"] = SwitchKeys(Sec, p.msg.num, made)]
  BY DEF RekeySecondary, Sec
<1>3. SwitchKeys(Sec, p.msg.num, made) \in Sessions
  <2>1. p.msg.num \in Seqs  BY DEF Packet, Message
  <2>2. made \in 0 .. 4  BY DEF Created
  <2> QED  BY <1>1, <2>1, <2>2, SwitchKeysType
<1> QED  BY <1>2, <1>3 DEF RekeySecondary, TypeOK, Taken, Host

(* The session structures and the packets in flight have their types.      *)
THEOREM TypeCorrect == Spec => []TypeOK
<1>1. TypeOK /\ [Next]_vars => TypeOK'
  <2> SUFFICES ASSUME TypeOK, [Next]_vars PROVE TypeOK'
    OBVIOUS
  <2>1. CASE StartRekeying  BY <2>1, StartType
  <2>2. ASSUME NEW h \in Host, SendData(h) PROVE TypeOK'
    <3>1. sess[h] \in Sessions  BY DEF TypeOK
    <3> QED  BY <2>2, <3>1, TransmitType DEF SendData
  <2>3. ASSUME NEW h \in Host, Receive(h) PROVE TypeOK'
    <3>1. PICK p \in Arriving(h) :
            \/ ReceiveData(h, p)
            \/ ReceiveGarbled(h, p)
            \/ ReplaceKey(p)
            \/ RekeyPrimary(p)
            \/ RekeySecondary(p)
      BY <2>3 DEF Receive
    <3>2. p \in Packet  BY ArrivingInNet
    <3>3. CASE ReceiveData(h, p)
      BY <3>3 DEF ReceiveData, TypeOK, Taken
    <3>4. CASE ReceiveGarbled(h, p)
      BY <3>4 DEF ReceiveGarbled, TypeOK, Taken, Sessions
    <3> QED
      BY <3>1, <3>2, <3>3, <3>4, ReplaceKeyType, RekeyPrimaryType,
         RekeySecondaryType
  <2>4. ASSUME NEW h \in Host, Lose(h) PROVE TypeOK'
    BY <2>4 DEF Lose, TypeOK, Taken
  <2>5. ASSUME NEW h \in Host, Duplicate(h) PROVE TypeOK'
    <3>1. PICK p \in net[h] :
            net' = [net EXCEPT ![h] = @ \cup {[p EXCEPT !.copy = TRUE]}]
      BY <2>5 DEF Duplicate
    <3>2. p \in Packet  BY <2>5 DEF TypeOK
    <3>3. [p EXCEPT !.copy = TRUE] \in Packet  BY <3>2 DEF Packet
    <3> QED  BY <2>5, <3>1, <3>3 DEF Duplicate, TypeOK
  <2>6. CASE UNCHANGED vars  BY <2>6 DEF vars, TypeOK
  <2> QED
    BY <2>1, <2>2, <2>3, <2>4, <2>5, <2>6 DEF Next, DropData
<1> QED  BY <1>1, TypeInit, PTL DEF Spec

-----------------------------------------------------------------------------
(* The exchange: what one action does to the parts the invariant is about  *)

\* At first no exchange is under way.
LEMMA ExchangeInit == Init => ExchangeInv
BY KeyAssumption DEF Init, InitSession, ExchangeInv, InStep, ContextInv,
    ReplaceInv, AnswerInv, SwitchInv, Pri, Sec, Host, CtxOf, NoContexts

(* A step that only adds data packets, takes packets away and changes the  *)
(* primary's new keys while no exchange is under way.                      *)
LEMMA QuietStep ==
    ASSUME ExchangeInv,
           Sec'.ctx0 = Sec.ctx0, Sec'.ctx1 = Sec.ctx1,
           Sec'.newkey = Sec.newkey, Sec'.rekey = Sec.rekey,
           Pri'.ctx1 = Pri.ctx1, Pri'.rekey = Pri.rekey,
           Pri'.newkey = Pri.newkey \/ ~Pri.rekey,
           \A h \in Host : \A q \in net'[h] :
               q.msg.type = "DATA" \/ q \in net[h]
    PROVE  ExchangeInv'
<1> USE DEF ExchangeInv
<1>1. \A q \in net'["sec"] : q.msg.type # "DATA" => q \in net["sec"]
  BY DEF Host
<1>2. \A q \in net'["pri"] : q.msg.type # "DATA" => q \in net["pri"]
  BY DEF Host
<1>3. (InStep \/ Ahead)'  BY DEF InStep, Ahead
<1>4. ContextInv'  BY DEF ContextInv
<1>5. ReplaceInv'  BY <1>1, <1>2 DEF ReplaceInv
<1>6. AnswerInv'   BY <1>2 DEF AnswerInv, InStep
<1>7. SwitchInv'   BY <1>1 DEF SwitchInv, Ahead
<1> QED  BY <1>3, <1>4, <1>5, <1>6, <1>7

\* What Transmit leaves alone.
LEMMA TransmitQuiet ==
    ASSUME TypeOK, ExchangeInv, NEW h \in Host, NEW s \in Sessions,
           Transmit(h, s),
           s.ctx0 = sess[h].ctx0, s.ctx1 = sess[h].ctx1,
           s.rekey = sess[h].rekey,
           s.newkey = sess[h].newkey \/ (h = "pri" /\ ~sess[h].rekey)
    PROVE  ExchangeInv'
<1>1. Advance(s) = [s EXCEPT !.sseq = SuccSeq(s.sseq)]  BY AdvanceType
<1>2. /\ Advance(s).ctx0 = s.ctx0 /\ Advance(s).ctx1 = s.ctx1
      /\ Advance(s).rekey = s.rekey /\ Advance(s).newkey = s.newkey
  BY <1>1 DEF Sessions
<1>3. sess' = [sess EXCEPT ![h] = Advance(s)]  BY DEF Transmit
<1>4. \A g \in Host : \A q \in net'[g] : q.msg.type = "DATA" \/ q \in net[g]
  BY DataPacketType DEF Transmit, TypeOK, Host
<1>5. CASE h = "pri"
  <2>1. Pri' = Advance(s) /\ Sec' = Sec  BY <1>3, <1>5 DEF TypeOK, Host, Pri, Sec
  <2> QED  BY <1>2, <1>4, <1>5, <2>1, QuietStep DEF Pri
<1>6. CASE h = "sec"
  <2>1. Sec' = Advance(s) /\ Pri' = Pri  BY <1>3, <1>6 DEF TypeOK, Host, Pri, Sec
  <2> QED  BY <1>2, <1>4, <1>6, <2>1, QuietStep DEF Sec
<1> QED  BY <1>5, <1>6 DEF Host

\* The REPLACE_KEY message leaves: no exchange was under way.
LEMMA StartSent ==
    ASSUME ExchangeInv, ~Pri.rekey, Sec' = Sec,
           Pri'.ctx1 = Pri.ctx1, Pri'.rekey,
           NEW r, net'["pri"] = net["pri"], net'["sec"] = net["sec"] \cup {r},
           r.msg.type = "REPLACE_KEY", r.dk = Pri.ctx1.de,
           r.msg.d \in {NoKey, Pri'.newkey.d}, r.msg.c \in {NoKey, Pri'.newkey.c},
           r.msg.d # NoKey =>
               r.msg.d \notin {Sec.ctx0.dd, Sec.ctx1.dd, Pri.ctx1.dd}
    PROVE  ExchangeInv'
<1> USE DEF ExchangeInv
<1>1. \A q \in net["pri"] : q.msg.type \notin {"REKEY", "REPLACE_KEY"}
  BY DEF AnswerInv
<1>2. \A q \in net["sec"] : q.msg.type # "REPLACE_KEY"  BY DEF ReplaceInv
<1>3. (InStep \/ Ahead)'  BY DEF InStep, Ahead
<1>4. ContextInv'  BY DEF ContextInv
<1>5. ReplaceInv'  BY <1>1, <1>2 DEF ReplaceInv
<1>6. AnswerInv'   BY <1>1 DEF AnswerInv
<1>7. SwitchInv'   BY DEF SwitchInv, Ahead
<1> QED  BY <1>3, <1>4, <1>5, <1>6, <1>7

\* start_rekeying, whether or not its message leaves.
LEMMA StartExchange ==
    ASSUME Benign, TypeOK, ExchangeInv, StartRekeying PROVE ExchangeInv'
<1>1. PICK fresh \in Key \ LiveKeys, didx \in UseIndex, cidx \in UseIndex,
           res \in SendResult :
        \E dk \in GetKey(Pri.newkey.d, fresh), ck \in GetKey(Pri.newkey.c, fresh) :
          start_rekeying(dk, ck, didx, cidx, res)
  BY DEF StartRekeying, Pri
<1>2. start_rekeying(fresh, fresh, didx, cidx, res)
  BY <1>1 DEF Benign, GetKey
<1> DEFINE b == NewKeys(Pri, fresh, fresh, didx, cidx)
           a == [AfterSend(b, res) EXCEPT !.rekey = (res = "sent")]
           m == NewKeyMsg(fresh, fresh, didx, cidx)
<1>3. Pri \in Sessions  BY DEF TypeOK, Pri, Host
<1>4. ~Pri.rekey  BY DEF StartRekeying, RekeyDue, Pri
<1>5. didx \in BOOLEAN /\ cidx \in BOOLEAN  BY DEF UseIndex
<1>6. /\ b \in Sessions
      /\ b.ctx0 = Pri.ctx0 /\ b.ctx1 = Pri.ctx1 /\ b.rekey = Pri.rekey
      /\ b.newkey.d = IF didx THEN Pri.newkey.d ELSE fresh
      /\ b.newkey.c = IF cidx THEN Pri.newkey.c ELSE fresh
  <2>1. b \in Sessions  BY <1>3, NewKeysType
  <2> QED  BY <1>3, <2>1 DEF NewKeys, Sessions
<1>7. /\ a \in Sessions
      /\ a.ctx0 = Pri.ctx0 /\ a.ctx1 = Pri.ctx1 /\ a.newkey = b.newkey
      /\ a.rekey = (res = "sent")
  <2>1. /\ AfterSend(b, res) \in Sessions
        /\ AfterSend(b, res).ctx0 = b.ctx0 /\ AfterSend(b, res).ctx1 = b.ctx1
        /\ AfterSend(b, res).newkey = b.newkey
    <3> HIDE DEF b
    <3> QED  BY <1>6, AdvanceType, AfterSendType DEF AfterSend, Sessions
  <2> HIDE DEF b
  <2> QED  BY <1>6, <2>1 DEF Sessions
<1>8. /\ m \in Message /\ m.type = "REPLACE_KEY"
      /\ m.d = (IF didx THEN NoKey ELSE fresh)
      /\ m.c = (IF cidx THEN NoKey ELSE fresh)
  BY ReplaceMsgType DEF NewKeyMsg, KeyOrNone
<1>9. fresh \notin {Sec.ctx0.dd, Sec.ctx1.dd, Pri.ctx1.dd}
  BY DEF LiveKeys, CtxKeys, Host, Pri, Sec
<1> HIDE DEF a, b, m
<1>10. CASE res = "sent"
  <2> DEFINE r == CtlPacket(b, m)
  <2>1. r.msg = m /\ r.dk = Pri.ctx1.de
    BY <1>6, <1>8, CtlPacketType
  <2>2. /\ sess' = [sess EXCEPT !["pri"] = a]
        /\ net' = [net EXCEPT !["sec"] = @ \cup {r}]
    BY <1>2, <1>10 DEF start_rekeying, Pri, a, b, m
  <2>3. /\ Pri' = a /\ Sec' = Sec
        /\ net'["pri"] = net["pri"] /\ net'["sec"] = net["sec"] \cup {r}
    BY <2>2 DEF TypeOK, Host, Pri, Sec
  <2> HIDE DEF r
  <2>4. r.msg.d \in {NoKey, Pri'.newkey.d} /\ r.msg.c \in {NoKey, Pri'.newkey.c}
    BY <1>5, <1>6, <1>7, <1>8, <2>1, <2>3
  <2>5. r.msg.d # NoKey =>
            r.msg.d \notin {Sec.ctx0.dd, Sec.ctx1.dd, Pri.ctx1.dd}
    BY <1>5, <1>8, <1>9, <2>1
  <2>6. Pri'.rekey /\ Pri'.ctx1 = Pri.ctx1  BY <1>7, <1>10, <2>3
  <2>7. r.msg.type = "REPLACE_KEY"  BY <1>8, <2>1
  <2> QED  BY <1>4, <2>1, <2>3, <2>4, <2>5, <2>6, <2>7, StartSent
<1>11. CASE res # "sent"
  <2>1. Transmit("pri", a)
    BY <1>2, <1>11 DEF start_rekeying, Pri, a, b
  <2> QED  BY <1>4, <1>7, <1>11, <2>1, TransmitQuiet DEF Host, Pri, TypeOK, Sessions
<1> QED  BY <1>10, <1>11

\* A packet is taken from the network and no session changes.
LEMMA TakenQuiet ==
    ASSUME TypeOK, ExchangeInv, NEW h \in Host, NEW p,
           net' = Taken(h, p), UNCHANGED sess
    PROVE  ExchangeInv'
<1>1. \A g \in Host : \A q \in net'[g] : q.msg.type = "DATA" \/ q \in net[g]
  BY DEF Taken, TypeOK
<1> QED  BY <1>1, QuietStep DEF Pri, Sec

(* A control message that is not understood clears the receiver's Rekey    *)
(* flag: on the primary it was the answer waited for, and the secondary    *)
(* gets none while the primary is ahead.                                   *)
LEMMA GarbledExchange ==
    ASSUME TypeOK, ExchangeInv, NEW h \in Host, NEW p \in net[h],
           ReceiveGarbled(h, p)
    PROVE  ExchangeInv'
<1>1. CASE UNCHANGED sess
  BY <1>1, TakenQuiet DEF ReceiveGarbled
<1>2. CASE sess' = [sess EXCEPT ![h].rekey = FALSE] /\ DataOpens(sess[h], p)
  <2>1. /\ p.msg.type # "DATA" /\ ~CtlOpens(sess[h], p)
        /\ net' = [net EXCEPT ![h] = @ \ {p}]
    BY DEF ReceiveGarbled, Taken
  <2>2. CASE h = "pri"
    <3>1. /\ Sec' = Sec /\ Pri'.ctx1 = Pri.ctx1
          /\ net'["pri"] = net["pri"] \ {p} /\ net'["sec"] = net["sec"]
      BY <1>2, <2>1, <2>2 DEF TypeOK, Host, Sessions, Pri, Sec
    <3>2. p.msg.type = "REKEY"
      BY <2>1, <2>2 DEF ExchangeInv, AnswerInv, TypeOK, Host, Packet, Message
    <3>3. \A q \in net'["pri"] : q.msg.type \notin {"REKEY", "REPLACE_KEY"}
      BY <2>2, <3>1, <3>2 DEF ExchangeInv, AnswerInv
    <3>4. \A q \in net'["sec"] : q.msg.type # "REPLACE_KEY"
      BY <2>2, <3>1, <3>2 DEF ExchangeInv, ReplaceInv
    <3>5. (InStep \/ Ahead)' /\ ContextInv'
      BY <3>1 DEF ExchangeInv, InStep, Ahead, ContextInv
    <3>6. SwitchInv'  BY <3>1 DEF ExchangeInv, SwitchInv, Ahead
    <3> QED
      BY <3>3, <3>4, <3>5, <3>6 DEF ExchangeInv, ReplaceInv, AnswerInv
  <2>3. CASE h = "sec"
    <3>1. /\ Pri' = Pri /\ Sec'.newkey = Sec.newkey
          /\ Sec'.ctx0 = Sec.ctx0 /\ Sec'.ctx1 = Sec.ctx1
          /\ net'["sec"] = net["sec"] \ {p} /\ net'["pri"] = net["pri"]
      BY <1>2, <2>1, <2>3 DEF TypeOK, Host, Sessions, Pri, Sec
    <3>2. p.dk \in {Sec.ctx0.dd, Sec.ctx1.dd}
      BY <1>2, <2>3 DEF DataOpens, Slot, Sec
    <3>3. p.msg.type = "REPLACE_KEY"
      <4>1. SUFFICES ASSUME p.msg.type = "REKEY" PROVE FALSE
        BY <2>1, <2>3 DEF TypeOK, Host, Packet, Message
      <4>2. p.dk = Sec.ctx1.dd /\ p.ck = Sec.ctx1.cd
        BY <2>3, <4>1 DEF ExchangeInv, SwitchInv
      <4> QED
        BY <1>2, <2>1, <2>3, <4>2
           DEF ExchangeInv, ContextInv, DataOpens, CtlOpens, Slot, Sec
    <3>4. ~Ahead
      BY <2>3, <3>2, <3>3
         DEF ExchangeInv, ReplaceInv, Ahead, CtxOf
    <3>5. InStep' /\ ContextInv'
      BY <3>1, <3>4 DEF ExchangeInv, InStep, ContextInv
    <3>6. \A q \in net["pri"] : q.msg.type # "REKEY"
      BY <2>3, <3>3 DEF ExchangeInv, ReplaceInv
    <3>7. AnswerInv'  BY <3>1, <3>6 DEF ExchangeInv, AnswerInv
    <3>8. ReplaceInv' /\ SwitchInv'
      BY <2>3, <3>1, <3>3, <3>4 DEF ExchangeInv, ReplaceInv, SwitchInv
    <3> QED  BY <3>5, <3>7, <3>8 DEF ExchangeInv
  <2> QED  BY <2>2, <2>3 DEF Host
<1> QED  BY <1>1, <1>2 DEF ReceiveGarbled

(* replace_key: the message could be opened, so the two ends are in step,  *)
(* and the answer tells that both hold the same new keys.                  *)
LEMMA ReplaceExchange ==
    ASSUME TypeOK, ExchangeInv, NEW p \in net["sec"], ReplaceKey(p)
    PROVE  ExchangeInv'
<1> DEFINE err == NoKey \in {p.msg.d, p.msg.c}
           b == NewKeys(Sec, p.msg.d, p.msg.c, p.msg.d = NoKey, p.msg.c = NoKey)
           a(res) == [AfterSend(b, res) EXCEPT !.rekey = (res = "sent" /\ ~err)]
           r == CtlPacket(Sec, RekeyMsg(SuccSeq(Sec.sseq), err))
<1>1. PICK res \in SendResult :
        /\ sess' = [sess EXCEPT !["sec"] = a(res)]
        /\ net' = [Taken("sec", p) EXCEPT !["pri"] =
                     @ \cup (IF res = "sent" THEN {r} ELSE {})]
  BY DEF ReplaceKey, Sec
<1>2. p.msg.type = "REPLACE_KEY" /\ p.dk \in {Sec.ctx0.dd, Sec.ctx1.dd}
  BY DEF ReplaceKey, CtlOpens, DataOpens, Slot, Sec
<1>3. Sec \in Sessions /\ p \in Packet  BY DEF TypeOK, Sec, Host
<1>4. /\ b \in Sessions
      /\ b.ctx0 = Sec.ctx0 /\ b.ctx1 = Sec.ctx1
      /\ ~err => b.newkey = [d |-> p.msg.d, c |-> p.msg.c]
  <2>1. b \in Sessions
    BY <1>3, NewKeysType DEF Packet, Message, KeyOrNone
  <2> QED  BY <1>3, <2>1 DEF NewKeys, Sessions
<1>5. /\ a(res).ctx0 = Sec.ctx0 /\ a(res).ctx1 = Sec.ctx1
      /\ a(res).newkey = b.newkey /\ a(res).rekey = (res = "sent" /\ ~err)
  <2>1. /\ AfterSend(b, res) \in Sessions
        /\ AfterSend(b, res).ctx0 = b.ctx0 /\ AfterSend(b, res).ctx1 = b.ctx1
        /\ AfterSend(b, res).newkey = b.newkey
    <3> HIDE DEF b
    <3> QED  BY <1>4, AdvanceType, AfterSendType DEF AfterSend, Sessions
  <2> HIDE DEF b
  <2> QED  BY <1>4, <2>1 DEF Sessions
<1>6. r.msg.type = "REKEY" /\ r.msg.err = err
  <2>1. SuccSeq(Sec.sseq) \in Seqs  BY <1>3, SuccSeqType DEF Sessions
  <2>2. err \in BOOLEAN  OBVIOUS
  <2> HIDE DEF err
  <2> QED  BY <1>3, <2>1, <2>2, RekeyMsgType, CtlPacketType
<1> HIDE DEF a, b, r
<1>7. /\ Pri' = Pri /\ Sec' = a(res)
      /\ net'["sec"] = net["sec"] \ {p}
      /\ net'["pri"] = net["pri"] \cup (IF res = "sent" THEN {r} ELSE {})
  BY <1>1 DEF TypeOK, Taken, Host, Pri, Sec
<1>8. InStep
  BY <1>2 DEF ExchangeInv, ReplaceInv, Ahead, CtxOf
<1>9. ~Ahead
  BY <1>2 DEF ExchangeInv, ReplaceInv, Ahead, CtxOf
<1>10. InStep' /\ ContextInv'
  BY <1>5, <1>7, <1>8 DEF ExchangeInv, InStep, ContextInv
<1>11. \A q \in net'["sec"] : q.msg.type \notin {"REPLACE_KEY", "REKEY"}
  BY <1>2, <1>7, <1>9 DEF ExchangeInv, ReplaceInv, SwitchInv
<1>12. \A q \in net["pri"] : q.msg.type \notin {"REPLACE_KEY", "REKEY"}
  BY <1>2 DEF ExchangeInv, ReplaceInv, AnswerInv
<1>13. Pri.rekey  BY <1>2 DEF ExchangeInv, ReplaceInv
<1>14. ~err /\ res = "sent" =>
         /\ Sec'.rekey
         /\ Sec'.newkey = Pri.newkey
         /\ Pri.newkey.d \notin {Sec.ctx0.dd, Sec.ctx1.dd}
  <2> SUFFICES ASSUME ~err, res = "sent" 
               PROVE  /\ Sec'.rekey
                      /\ Sec'.newkey = Pri.newkey
                      /\ Pri.newkey.d \notin {Sec.ctx0.dd, Sec.ctx1.dd}
    OBVIOUS
  <2>1. p.msg.d = Pri.newkey.d /\ p.msg.c = Pri.newkey.c
    BY <1>2 DEF ExchangeInv, ReplaceInv
  <2>2. Pri.newkey = [d |-> p.msg.d, c |-> p.msg.c]
    BY <2>1 DEF TypeOK, Host, Sessions, KeyPair, Pri
  <2>3. p.msg.d \notin {Sec.ctx0.dd, Sec.ctx1.dd}
    BY <1>2 DEF ExchangeInv, ReplaceInv
  <2> QED  BY <1>4, <1>5, <1>7, <2>1, <2>2, <2>3
<1>15. AnswerInv'
  <2> SUFFICES ASSUME NEW q \in net'["pri"], q = r, res = "sent"
               PROVE  /\ Pri'.rekey /\ InStep'
                      /\ ~q.msg.err =>
                           /\ Sec'.rekey
                           /\ Sec'.newkey = Pri'.newkey
                           /\ Pri'.newkey.d \notin {Sec'.ctx0.dd, Sec'.ctx1.dd}
    BY <1>6, <1>7, <1>12 DEF AnswerInv
  <2>1. Sec'.ctx0 = Sec.ctx0 /\ Sec'.ctx1 = Sec.ctx1  BY <1>5, <1>7
  <2> HIDE DEF err
  <2> QED  BY <1>6, <1>7, <1>10, <1>13, <1>14, <2>1
<1>16. ReplaceInv' /\ SwitchInv'  BY <1>11 DEF ReplaceInv, SwitchInv
<1> QED  BY <1>10, <1>15, <1>16 DEF ExchangeInv

\* p3_rekey when every context can be created.
LEMMA SwitchResult ==
    ASSUME Benign, NEW s \in Sessions, NEW num \in Seqs, NEW made \in Created
    PROVE  /\ SwitchKeys(s, num, made).ctx0 = s.ctx1
           /\ SwitchKeys(s, num, made).ctx1 = CtxOf(s.newkey)
           /\ SwitchKeys(s, num, made).newkey = s.newkey
           /\ SwitchKeys(s, num, made).rekey = FALSE
<1>1. made = 4  BY DEF Benign, Created
<1> DEFINE c == CtxOf(s.newkey)
<1>2. c \in Contexts
  BY DEF Sessions, Contexts, KeyOrNone, KeyPair, CtxOf
<1>3. p3_rekey(s, made) = [s EXCEPT !.ctx0 = s.ctx1, !.ctx1 = c]
  BY <1>1 DEF p3_rekey, CtxOf
<1> HIDE DEF c
<1>4. /\ p3_rekey(s, made) \in Sessions
      /\ p3_rekey(s, made).ctx0 = s.ctx1
      /\ p3_rekey(s, made).ctx1 = c
      /\ p3_rekey(s, made).newkey = s.newkey
  BY <1>2, <1>3 DEF Sessions
<1> QED  BY <1>4 DEF SwitchKeys, Sessions, c

(* rekey_session on the primary: after an error or a failed send the       *)
(* exchange is over, otherwise the primary is ahead.                       *)
LEMMA PrimaryExchange ==
    ASSUME Benign, TypeOK, ExchangeInv, NEW p \in net["pri"], RekeyPrimary(p)
    PROVE  ExchangeInv'
<1>1. Pri \in Sessions /\ p \in Packet  BY DEF TypeOK, Pri, Host
<1>2. p.msg.type = "REKEY"  BY DEF RekeyPrimary
<1>3. \A q \in net["pri"] \ {p} : q.msg.type \notin {"REKEY", "REPLACE_KEY"}
  BY <1>2 DEF ExchangeInv, AnswerInv
<1>4. \A q \in net["sec"] : q.msg.type \notin {"REKEY", "REPLACE_KEY"}
  BY <1>2 DEF ExchangeInv, ReplaceInv, AnswerInv, SwitchInv, InStep, Ahead, CtxOf
<1>5. CASE /\ Pri'.ctx1 = Pri.ctx1 /\ Sec' = Sec
           /\ net' = Taken("pri", p)
  <2>1. net'["pri"] = net["pri"] \ {p} /\ net'["sec"] = net["sec"]
    BY <1>5 DEF TypeOK, Taken, Host
  <2>2. (InStep \/ Ahead)' /\ ContextInv'
    BY <1>5 DEF ExchangeInv, InStep, Ahead, ContextInv
  <2> QED
    BY <1>3, <1>4, <2>1, <2>2 DEF ExchangeInv, ReplaceInv, AnswerInv, SwitchInv
<1>6. CASE p.msg.err
  <2>1. sess' = [sess EXCEPT !["pri"].rekey = FALSE] /\ net' = Taken("pri", p)
    BY <1>6 DEF RekeyPrimary
  <2>2. Pri'.ctx1 = Pri.ctx1 /\ Sec' = Sec
    BY <1>1, <2>1 DEF TypeOK, Host, Sessions, Pri, Sec
  <2> QED  BY <1>5, <2>1, <2>2
<1>7. CASE \E res \in SendResult \ {"sent"} :
             /\ sess' = [sess EXCEPT !["pri"] =
                           [AfterSend(Pri, res) EXCEPT !.rekey = FALSE]]
             /\ net' = Taken("pri", p)
  <2>1. PICK res \in SendResult :
          sess' = [sess EXCEPT !["pri"] =
                     [AfterSend(Pri, res) EXCEPT !.rekey = FALSE]]
    BY <1>7
  <2>2. AfterSend(Pri, res) \in Sessions /\ AfterSend(Pri, res).ctx1 = Pri.ctx1
    BY <1>1, AdvanceType, AfterSendType DEF AfterSend, Sessions
  <2>3. [AfterSend(Pri, res) EXCEPT !.rekey = FALSE].ctx1 = Pri.ctx1
    BY <2>2 DEF Sessions
  <2>4. Pri'.ctx1 = Pri.ctx1 /\ Sec' = Sec
    BY <2>1, <2>3 DEF TypeOK, Host, Pri, Sec
  <2> QED  BY <1>5, <1>7, <2>4
<1> DEFINE r == CtlPacket(Pri, RekeyMsg(SuccSeq(Pri.sseq), FALSE))
<1>8. CASE /\ ~p.msg.err
           /\ \E made \in Created :
                sess' = [sess EXCEPT !["pri"] =
                           SwitchKeys(Advance(Pri), p.msg.num, made)]
           /\ net' = [Taken("pri", p) EXCEPT !["sec"] = @ \cup {r}]
  <2>1. PICK made \in Created :
          sess' = [sess EXCEPT !["pri"] =
                     SwitchKeys(Advance(Pri), p.msg.num, made)]
    BY <1>8
  <2>2. Advance(Pri) \in Sessions /\ Advance(Pri).newkey = Pri.newkey
    BY <1>1, AdvanceType DEF Sessions
  <2>3. p.msg.num \in Seqs  BY <1>1 DEF Packet, Message
  <2>4. Pri'.ctx1 = CtxOf(Pri.newkey) /\ Sec' = Sec
    <3>1. SwitchKeys(Advance(Pri), p.msg.num, made).ctx1 = CtxOf(Pri.newkey)
      BY <2>2, <2>3, SwitchResult
    <3> QED  BY <2>1, <3>1 DEF TypeOK, Host, Pri, Sec
  <2>5. /\ net'["pri"] = net["pri"] \ {p}
        /\ net'["sec"] = net["sec"] \cup {r}
    BY <1>8 DEF TypeOK, Taken, Host
  <2>6. r.msg.type = "REKEY" /\ r.dk = Pri.ctx1.de /\ r.ck = Pri.ctx1.ce
    <3>1. SuccSeq(Pri.sseq) \in Seqs  BY <1>1, SuccSeqType DEF Sessions
    <3> QED  BY <1>1, <3>1, RekeyMsgType, CtlPacketType
  <2> HIDE DEF r
  <2>7. /\ InStep /\ Sec.rekey /\ Sec.newkey = Pri.newkey
        /\ Pri.newkey.d \notin {Sec.ctx0.dd, Sec.ctx1.dd}
    BY <1>2, <1>8 DEF ExchangeInv, AnswerInv
  <2>8. Ahead'  BY <2>4, <2>7 DEF Ahead
  <2>9. ContextInv'  BY <2>4 DEF ExchangeInv, ContextInv
  <2>10. ReplaceInv' /\ AnswerInv'
    BY <1>3, <1>4, <2>5, <2>6 DEF ReplaceInv, AnswerInv
  <2>11. SwitchInv'
    BY <1>4, <2>4, <2>5, <2>6, <2>7, <2>8
       DEF ExchangeInv, SwitchInv, ContextInv, InStep
  <2> QED  BY <2>8, <2>9, <2>10, <2>11 DEF ExchangeInv
<1> QED  BY <1>6, <1>7, <1>8 DEF RekeyPrimary, Pri

\* rekey_session on the secondary: it catches up with the primary.
LEMMA SecondaryExchange ==
    ASSUME Benign, TypeOK, ExchangeInv, NEW p \in net["sec"], RekeySecondary(p)
    PROVE  ExchangeInv'
<1>1. Sec \in Sessions /\ p \in Packet  BY DEF TypeOK, Sec, Host
<1>2. p.msg.type = "REKEY" /\ net' = Taken("sec", p)  BY DEF RekeySecondary
<1>3. PICK made \in Created :
        sess' = [sess EXCEPT !["sec"] = SwitchKeys(Sec, p.msg.num, made)]
  BY DEF RekeySecondary, Sec
<1>4. p.msg.num \in Seqs  BY <1>1 DEF Packet, Message
<1>5. /\ Sec'.ctx0 = Sec.ctx1 /\ Sec'.ctx1 = CtxOf(Sec.newkey) /\ Pri' = Pri
  <2>1. /\ SwitchKeys(Sec, p.msg.num, made).ctx0 = Sec.ctx1
        /\ SwitchKeys(Sec, p.msg.num, made).ctx1 = CtxOf(Sec.newkey)
    BY <1>1, <1>4, SwitchResult
  <2> QED  BY <1>3, <2>1 DEF TypeOK, Host, Pri, Sec
<1>6. net'["sec"] = net["sec"] \ {p} /\ net'["pri"] = net["pri"]
  BY <1>2 DEF TypeOK, Taken, Host
<1>7. Ahead  BY <1>2 DEF ExchangeInv, SwitchInv
<1>8. InStep'  BY <1>5, <1>7 DEF InStep, Ahead
<1>9. ContextInv'  BY <1>5, <1>7 DEF Ahead, ContextInv, CtxOf
<1>10. \A q \in net["pri"] : q.msg.type \notin {"REKEY", "REPLACE_KEY"}
  <2>1. ~InStep  BY <1>7 DEF InStep, Ahead, CtxOf
  <2> QED  BY <2>1 DEF ExchangeInv, AnswerInv
<1>11. AnswerInv'  BY <1>6, <1>10 DEF AnswerInv
<1>12. SwitchInv'
  BY <1>2, <1>6 DEF ExchangeInv, SwitchInv
<1>13. ReplaceInv'
  BY <1>5, <1>6, <1>7, <1>10 DEF ExchangeInv, ReplaceInv, Ahead, CtxOf
<1> QED  BY <1>8, <1>9, <1>11, <1>12, <1>13 DEF ExchangeInv

-----------------------------------------------------------------------------
(* The invariant and what follows from it                                  *)

\* Every step keeps the invariant of the exchange.
LEMMA ExchangeStep ==
    ASSUME Benign, TypeOK, ExchangeInv, [Next]_vars PROVE ExchangeInv'
<1>1. CASE StartRekeying  BY <1>1, StartExchange
<1>2. ASSUME NEW h \in Host, SendData(h) PROVE ExchangeInv'
  <2>1. sess[h] \in Sessions  BY DEF TypeOK
  <2> QED  BY <1>2, <2>1, TransmitQuiet DEF SendData
<1>3. ASSUME NEW h \in Host, Receive(h) PROVE ExchangeInv'
  <2>1. PICK p \in Arriving(h) :
          \/ ReceiveData(h, p)
          \/ ReceiveGarbled(h, p)
          \/ h = "sec" /\ ReplaceKey(p)
          \/ h = "pri" /\ RekeyPrimary(p)
          \/ h = "sec" /\ RekeySecondary(p)
    BY <1>3 DEF Receive
  <2>2. p \in net[h]  BY ArrivingInNet
  <2>3. CASE ReceiveData(h, p)
    BY <2>3, TakenQuiet DEF ReceiveData
  <2>4. CASE ReceiveGarbled(h, p)
    BY <2>2, <2>4, GarbledExchange
  <2> QED
    BY <2>1, <2>2, <2>3, <2>4, ReplaceExchange, PrimaryExchange,
       SecondaryExchange
<1>4. ASSUME NEW h \in Host, Lose(h) PROVE ExchangeInv'
  <2>1. PICK p \in net[h] : net' = Taken(h, p)  BY <1>4 DEF Lose
  <2>2. UNCHANGED sess  BY <1>4 DEF Lose
  <2> QED  BY <2>1, <2>2, TakenQuiet
<1>5. ASSUME NEW h \in Host, Duplicate(h) PROVE ExchangeInv'
  <2>1. PICK p \in net[h] :
          /\ p.msg.type \in Duplicated
          /\ net' = [net EXCEPT ![h] = @ \cup {[p EXCEPT !.copy = TRUE]}]
    BY <1>5 DEF Duplicate
  <2>2. p.msg.type = "DATA"  BY <2>1 DEF Duplicated, Benign
  <2>3. p \in Packet  BY <1>5 DEF TypeOK
  <2>4. [p EXCEPT !.copy = TRUE].msg.type = "DATA"
    BY <2>2, <2>3 DEF Packet
  <2>5. \A g \in Host : \A q \in net'[g] : q.msg.type = "DATA" \/ q \in net[g]
    BY <2>1, <2>4 DEF TypeOK
  <2>6. UNCHANGED sess  BY <1>5 DEF Duplicate
  <2> QED  BY <2>5, <2>6, QuietStep DEF Pri, Sec
<1>6. CASE UNCHANGED vars
  BY <1>6, QuietStep DEF vars, Pri, Sec
<1> QED
  BY <1>1, <1>2, <1>3, <1>4, <1>5, <1>6 DEF Next, DropData

(* At most one message of an exchange is on its way in each direction, it  *)
(* is sealed with keys the receiver has or will never have, and the two    *)
(* ends are in step or the primary is one generation ahead.                *)
THEOREM ExchangeInvariance == ASSUME Benign PROVE Spec => []ExchangeInv
<1>1. TypeOK /\ ExchangeInv /\ [Next]_vars => ExchangeInv'
  BY ExchangeStep
<1> QED  BY <1>1, ExchangeInit, TypeCorrect, PTL DEF Spec

(* Whatever is lost, delayed, reordered or cannot be sent, the two ends    *)
(* are never more than one key apart: replace_key and the two              *)
(* rekey_session functions keep the primary's keys among the secondary's.  *)
THEOREM InStepAlways == ASSUME Benign PROVE Spec => []KeysInStep
<1>1. ExchangeInv => KeysInStep
  BY DEF ExchangeInv, InStep, Ahead, KeysInStep, Pri, Sec
<1> QED  BY <1>1, ExchangeInvariance, PTL

-----------------------------------------------------------------------------
(* Keys change only while data is held back                                *)

SameContexts ==
    \A h \in Host : /\ sess'[h].ctx0 = sess[h].ctx0
                    /\ sess'[h].ctx1 = sess[h].ctx1

\* A host's session is replaced by one with the same contexts.
LEMMA ContextsKept ==
    ASSUME TypeOK, NEW g \in Host, NEW s,
           sess' = [sess EXCEPT ![g] = s],
           s.ctx0 = sess[g].ctx0, s.ctx1 = sess[g].ctx1
    PROVE  SameContexts
BY DEF TypeOK, SameContexts

\* Sending changes no context.
LEMMA AfterSendContexts ==
    ASSUME NEW s \in Sessions, NEW res
    PROVE  /\ AfterSend(s, res) \in Sessions
           /\ AfterSend(s, res).ctx0 = s.ctx0
           /\ AfterSend(s, res).ctx1 = s.ctx1
BY AdvanceType, AfterSendType DEF AfterSend, Sessions

\* packet_handler changes no context.
LEMMA TransmitContexts ==
    ASSUME TypeOK, NEW h \in Host, NEW s \in Sessions, Transmit(h, s),
           s.ctx0 = sess[h].ctx0, s.ctx1 = sess[h].ctx1
    PROVE  SameContexts
<1>1. Advance(s).ctx0 = s.ctx0 /\ Advance(s).ctx1 = s.ctx1
  BY AdvanceType DEF Sessions
<1> QED  BY <1>1, ContextsKept DEF Transmit

\* start_rekeying changes no context.
LEMMA StartContexts == ASSUME TypeOK, StartRekeying PROVE SameContexts
<1>1. PICK fresh \in Key, didx \in UseIndex, cidx \in UseIndex,
           res \in SendResult :
        \E dk \in GetKey(Pri.newkey.d, fresh), ck \in GetKey(Pri.newkey.c, fresh) :
          start_rekeying(dk, ck, didx, cidx, res)
  BY DEF StartRekeying, Pri
<1>2. PICK dk \in GetKey(Pri.newkey.d, fresh), ck \in GetKey(Pri.newkey.c, fresh) :
        start_rekeying(dk, ck, didx, cidx, res)
  BY <1>1
<1> DEFINE b == NewKeys(Pri, dk, ck, didx, cidx)
           a == [AfterSend(b, res) EXCEPT !.rekey = (res = "sent")]
<1>3. Pri \in Sessions  BY DEF TypeOK, Pri, Host
<1>4. dk \in Key /\ ck \in Key  BY <1>3 DEF GetKey, Sessions, KeyPair
<1>5. b \in Sessions /\ b.ctx0 = Pri.ctx0 /\ b.ctx1 = Pri.ctx1
  <2>1. b \in Sessions  BY <1>3, <1>4, NewKeysType
  <2> QED  BY <1>3, <2>1 DEF NewKeys, Sessions
<1>6. a \in Sessions /\ a.ctx0 = Pri.ctx0 /\ a.ctx1 = Pri.ctx1
  <2> HIDE DEF b
  <2> QED  BY <1>5, AfterSendContexts DEF Sessions
<1> HIDE DEF a
<1>7. CASE res = "sent"
  <2>1. sess' = [sess EXCEPT !["pri"] = a]
    BY <1>2, <1>7 DEF start_rekeying, Pri, a
  <2> QED  BY <1>6, <2>1, ContextsKept DEF Host, Pri
<1>8. CASE res # "sent"
  <2>1. Transmit("pri", a)  BY <1>2, <1>8 DEF start_rekeying, Pri, a
  <2> QED  BY <1>6, <2>1, TransmitContexts DEF Host, Pri
<1> QED  BY <1>7, <1>8

\* replace_key changes no context.
LEMMA ReplaceKeyContexts ==
    ASSUME TypeOK, NEW p \in Packet, ReplaceKey(p) PROVE SameContexts
<1> DEFINE err == NoKey \in {p.msg.d, p.msg.c}
           b == NewKeys(Sec, p.msg.d, p.msg.c, p.msg.d = NoKey, p.msg.c = NoKey)
           a(res) == [AfterSend(b, res) EXCEPT !.rekey = (res = "sent" /\ ~err)]
<1>1. Sec \in Sessions  BY DEF TypeOK, Sec, Host
<1>2. PICK res \in SendResult : sess' = [sess EXCEPT !["sec"] = a(res)]
  BY DEF ReplaceKey, Sec
<1>3. b \in Sessions /\ b.ctx0 = Sec.ctx0 /\ b.ctx1 = Sec.ctx1
  <2>1. b \in Sessions
    BY <1>1, NewKeysType DEF Packet, Message, KeyOrNone
  <2> QED  BY <1>1, <2>1 DEF NewKeys, Sessions
<1>4. a(res).ctx0 = Sec.ctx0 /\ a(res).ctx1 = Sec.ctx1
  <2> HIDE DEF b
  <2> QED  BY <1>3, AfterSendContexts DEF Sessions
<1> HIDE DEF a
<1> QED  BY <1>2, <1>4, ContextsKept DEF Host, Sec

\* On the primary, an answer without error comes while it waits for one.
LEMMA PrimarySwitch ==
    ASSUME TypeOK, ExchangeInv, NEW p \in net["pri"], RekeyPrimary(p)
    PROVE  Pri.rekey /\ Sec' = Sec
<1>1. Pri.rekey  BY DEF RekeyPrimary, ExchangeInv, AnswerInv
<1>2. PICK s : sess' = [sess EXCEPT !["pri"] = s]
  BY DEF RekeyPrimary
<1> QED  BY <1>1, <1>2 DEF TypeOK, Host, Sec

\* On the secondary, a REKEY message comes while it holds data back.
LEMMA SecondarySwitch ==
    ASSUME TypeOK, ExchangeInv, NEW p \in net["sec"], RekeySecondary(p)
    PROVE  Sec.rekey /\ Pri' = Pri
<1>1. Sec.rekey  BY DEF RekeySecondary, ExchangeInv, SwitchInv, Ahead
<1>2. PICK s : sess' = [sess EXCEPT !["sec"] = s]
  BY DEF RekeySecondary
<1> QED  BY <1>1, <1>2 DEF TypeOK, Host, Pri

\* A step that changes contexts takes place with the Rekey flag set.
LEMMA SwitchStep ==
    ASSUME TypeOK, ExchangeInv, Next,
           NEW h \in Host,
           <<sess'[h].ctx0, sess'[h].ctx1>> # <<sess[h].ctx0, sess[h].ctx1>>
    PROVE  sess[h].rekey
<1>1. SUFFICES ASSUME ~SameContexts PROVE sess[h].rekey
  BY DEF SameContexts
<1>2. PICK g \in Host : SendData(g) \/ DropData(g) \/ Receive(g)
                        \/ Lose(g) \/ Duplicate(g)
  BY <1>1, StartContexts DEF Next
<1>3. CASE SendData(g)
  <2>1. sess[g] \in Sessions  BY DEF TypeOK
  <2> QED  BY <1>1, <1>3, <2>1, TransmitContexts DEF SendData
<1>4. CASE Receive(g)
  <2>1. PICK p \in Arriving(g) :
          \/ ReceiveData(g, p)
          \/ ReceiveGarbled(g, p)
          \/ g = "sec" /\ ReplaceKey(p)
          \/ g = "pri" /\ RekeyPrimary(p)
          \/ g = "sec" /\ RekeySecondary(p)
    BY <1>4 DEF Receive
  <2>2. p \in net[g] /\ p \in Packet  BY ArrivingInNet
  <2>3. CASE ReceiveData(g, p)
    BY <1>1, <2>3 DEF ReceiveData, SameContexts
  <2>4. CASE ReceiveGarbled(g, p)
    BY <1>1, <2>4 DEF ReceiveGarbled, SameContexts, TypeOK, Sessions
  <2>5. CASE ReplaceKey(p)
    BY <1>1, <2>2, <2>5, ReplaceKeyContexts
  <2>6. CASE g = "pri" /\ RekeyPrimary(p)
    BY <2>2, <2>6, PrimarySwitch DEF Host, Pri, Sec
  <2>7. CASE g = "sec" /\ RekeySecondary(p)
    BY <2>2, <2>7, SecondarySwitch DEF Host, Pri, Sec
  <2> QED  BY <2>1, <2>3, <2>4, <2>5, <2>6, <2>7
<1>5. CASE DropData(g) \/ Lose(g) \/ Duplicate(g)
  BY <1>1, <1>5 DEF DropData, Lose, Duplicate, SameContexts, vars
<1> QED  BY <1>2, <1>3, <1>4, <1>5

(* No packet ID is taken between the announcement of the first packet that *)
(* uses the new key and the switch (packet_handler's Rekey test).          *)
THEOREM SwitchHeldBack == ASSUME Benign PROVE Spec => SwitchOnlyInRekey
<1> DEFINE A == \A h \in Host :
                   <<sess'[h].ctx0, sess'[h].ctx1>> # <<sess[h].ctx0, sess[h].ctx1>>
                      => sess[h].rekey
<1>1. TypeOK /\ ExchangeInv /\ [Next]_vars => [A]_vars
  BY SwitchStep
<1>2. Spec => [][A]_vars
  BY <1>1, TypeCorrect, ExchangeInvariance, PTL DEF Spec
<1> QED  BY <1>2 DEF SwitchOnlyInRekey

-----------------------------------------------------------------------------
(* The choice of a key by sequence number                                  *)

\* Neither number is about to wrap: one run of a handler takes two at most.
Low == \A h \in Host : sess[h].sseq + 2 < SeqMod

\* What a host announces has not been passed, what is on its way has a number.
Numbered(s, peer, n) ==
    /\ s.rID1 <= peer.sseq
    /\ \A q \in n : q.seq < peer.sseq

\* The packets under one of the two keys a receiver holds are in its range.
Ranged(s, n) == \A q \in n :
    /\ q.dk = s.ctx1.dd => s.rID1 <= q.seq
    /\ q.dk = s.ctx0.dd => s.rID0 <= q.seq /\ q.seq < s.rID1

\* The new keys are on their way: nothing is sealed with them.
Offered(ns, np) == \A q \in ns : q.msg.type = "REPLACE_KEY" /\ q.msg.d # NoKey =>
    \A p \in ns \cup np : p.dk # q.msg.d

\* The secondary's answer: it announces the next number, and is the last
\* packet the secondary has sent.
AnswerLast(P, S, ns, np) == \A q \in np : q.msg.type = "REKEY" /\ ~q.msg.err =>
    /\ q.seq + 1 = S.sseq /\ q.msg.num = S.sseq
    /\ \A p \in np : p.seq = q.seq => p = q
    /\ \A p \in ns \cup np : p.dk # P.newkey.d

\* The primary's answer: it parts the old key's packets from the new key's.
AnswerParts(S, ns) == \A q \in ns : q.msg.type = "REKEY" =>
    /\ q.msg.num = q.seq + 1
    /\ \A p \in ns : /\ p.seq = q.seq => p = q
                     /\ p.dk = S.newkey.d => q.msg.num <= p.seq
                     /\ p.dk = S.ctx1.dd => p.seq < q.msg.num

RangeOK(P, S, ns, np) ==
    /\ P.ctx0.dd # P.ctx1.dd
    /\ Numbered(S, P, ns) /\ Numbered(P, S, np)
    /\ Ranged(S, ns) /\ Ranged(P, np)
    /\ Offered(ns, np)
    /\ AnswerLast(P, S, ns, np)
    /\ AnswerParts(S, ns)

RangeInv == RangeOK(Pri, Sec, net["sec"], net["pri"])

\* p is sealed with the keys c decrypts with.
SealedBy(p, c) == p.dk = c.dd /\ (p.msg.type # "DATA" => p.ck = c.cd)

\* All that is on its way to the primary is sealed with its present keys.
PriOK(P, S, np) ==
    /\ \A p \in np : SealedBy(p, P.ctx1)
    /\ P.ctx1 # S.ctx1 => np = {}

\* All that is on its way to the secondary is sealed with its present keys,
\* or follows the answer of the primary that makes it change them.
SecOK(P, S, ns) ==
    /\ P.ctx1 = S.ctx1 => \A p \in ns : SealedBy(p, S.ctx1)
    /\ P.ctx1 # S.ctx1 =>
         \E q \in ns :
            /\ q.msg.type = "REKEY"
            /\ \A p \in ns : SealedBy(p, IF p.seq <= q.seq THEN S.ctx1 ELSE CtxOf(S.newkey))

PriOrder == inorder => PriOK(Pri, Sec, net["pri"])
SecOrder == SecOK(Pri, Sec, net["sec"])

-----------------------------------------------------------------------------
(* The invariant over the values it is about                               *)

\* Sequence numbers are naturals.
LEMMA SeqNat == ASSUME NEW n \in Seqs PROVE n \in Nat /\ n < SeqMod
BY SeqAssumption DEF Seqs

\* The numbers of a session.
LEMMA SessionNat ==
    ASSUME NEW s \in Sessions PROVE s.sseq \in Nat /\ s.rID0 \in Nat /\ s.rID1 \in Nat
BY SeqNat DEF Sessions

\* The number of a packet, and the one in its message.
LEMMA PacketNat ==
    ASSUME NEW p \in Packet PROVE p.seq \in Nat /\ p.msg.num \in Nat
BY SeqNat DEF Packet, Message

(* Packets are taken away, numbers and new keys change while nobody's      *)
(* answer is on its way.                                                   *)
LEMMA RangeShrinks ==
    ASSUME NEW P \in Sessions, NEW S \in Sessions, NEW P1 \in Sessions, NEW S1 \in Sessions,
           NEW ns \in SUBSET Packet, NEW np \in SUBSET Packet,
           NEW ns1 \in SUBSET ns, NEW np1 \in SUBSET np,
           RangeOK(P, S, ns, np),
           P1.ctx0 = P.ctx0, P1.ctx1 = P.ctx1, P1.rID0 = P.rID0, P1.rID1 = P.rID1,
           S1.ctx0 = S.ctx0, S1.ctx1 = S.ctx1, S1.rID0 = S.rID0, S1.rID1 = S.rID1,
           P.sseq <= P1.sseq, S.sseq <= S1.sseq,
           \A q \in np1 : q.msg.type = "REKEY" /\ ~q.msg.err =>
               S1.sseq = S.sseq /\ P1.newkey = P.newkey,
           \A q \in ns1 : q.msg.type = "REKEY" => S1.newkey = S.newkey
    PROVE  RangeOK(P1, S1, ns1, np1)
<1>1. Numbered(S1, P1, ns1)
  BY SessionNat, PacketNat DEF RangeOK, Numbered
<1>2. Numbered(P1, S1, np1)
  BY SessionNat, PacketNat DEF RangeOK, Numbered
<1>3. Ranged(S1, ns1) /\ Ranged(P1, np1)
  BY DEF RangeOK, Ranged
<1>4. Offered(ns1, np1)
  BY DEF RangeOK, Offered
<1>5. AnswerLast(P1, S1, ns1, np1)
  BY DEF RangeOK, AnswerLast
<1>6. AnswerParts(S1, ns1)
  BY DEF RangeOK, AnswerParts
<1> QED  BY <1>1, <1>2, <1>3, <1>4, <1>5, <1>6 DEF RangeOK

\* The primary sends a packet that is not an answer.
LEMMA PrimarySends ==
    ASSUME NEW P \in Sessions, NEW S \in Sessions,
           NEW ns \in SUBSET Packet, NEW np \in SUBSET Packet, NEW r \in Packet,
           RangeOK(P, S, ns, np), r.msg.type # "REKEY",
           r.seq < P.sseq, S.rID1 <= r.seq, \A q \in ns : q.seq < r.seq,
           r.dk # S.ctx0.dd, r.dk = S.ctx1.dd \/ r.dk = S.newkey.d,
           \A q \in ns : q.msg.type = "REPLACE_KEY" /\ q.msg.d # NoKey => q.msg.d # r.dk,
           \A q \in np : q.msg.type = "REKEY" /\ ~q.msg.err => P.newkey.d # r.dk,
           \A q \in ns : q.msg.type = "REKEY" => r.dk # S.ctx1.dd,
           r.msg.type = "REPLACE_KEY" /\ r.msg.d # NoKey =>
               \A q \in ns \cup np \cup {r} : q.dk # r.msg.d
    PROVE  RangeOK(P, S, ns \cup {r}, np)
<1>1. Numbered(S, P, ns \cup {r})
  BY DEF RangeOK, Numbered
<1>2. Ranged(S, ns \cup {r})
  BY DEF RangeOK, Ranged
<1>3. Offered(ns \cup {r}, np)
  BY DEF RangeOK, Offered
<1>4. AnswerLast(P, S, ns \cup {r}, np)
  BY DEF RangeOK, AnswerLast
<1>5. AnswerParts(S, ns \cup {r})
  <2> SUFFICES ASSUME NEW q \in ns, q.msg.type = "REKEY"
               PROVE  /\ r.seq = q.seq => r = q
                      /\ r.dk = S.newkey.d => q.msg.num <= r.seq
                      /\ r.dk = S.ctx1.dd => r.seq < q.msg.num
    BY DEF RangeOK, AnswerParts
  <2>1. q.msg.num = q.seq + 1 /\ q.seq < r.seq  BY DEF RangeOK, AnswerParts
  <2>2. q.seq \in Nat /\ r.seq \in Nat  BY PacketNat
  <2> QED  BY <2>1, <2>2
<1> QED  BY <1>1, <1>2, <1>3, <1>4, <1>5 DEF RangeOK

\* The secondary sends a packet that is not an answer to new keys.
LEMMA SecondarySends ==
    ASSUME NEW P \in Sessions, NEW S \in Sessions,
           NEW ns \in SUBSET Packet, NEW np \in SUBSET Packet, NEW r \in Packet,
           RangeOK(P, S, ns, np), r.msg.type = "REKEY" => r.msg.err,
           r.seq < S.sseq, P.rID1 <= r.seq, r.dk = P.ctx1.dd,
           \A q \in ns : q.msg.type = "REPLACE_KEY" /\ q.msg.d # NoKey => q.msg.d # r.dk,
           \A q \in np : q.msg.type # "REKEY" \/ q.msg.err
    PROVE  RangeOK(P, S, ns, np \cup {r})
<1>1. Numbered(P, S, np \cup {r})
  BY DEF RangeOK, Numbered
<1>2. Ranged(P, np \cup {r})
  BY DEF RangeOK, Ranged
<1>3. Offered(ns, np \cup {r})
  BY DEF RangeOK, Offered
<1>4. AnswerLast(P, S, ns, np \cup {r})
  BY DEF RangeOK, AnswerLast
<1> QED  BY <1>1, <1>2, <1>3, <1>4 DEF RangeOK

\* The network copies a data packet.
LEMMA RangeCopies ==
    ASSUME NEW P \in Sessions, NEW S \in Sessions,
           NEW ns \in SUBSET Packet, NEW np \in SUBSET Packet,
           RangeOK(P, S, ns, np), NEW p \in Packet, NEW r \in Packet,
           p.msg.type = "DATA", r.msg = p.msg, r.seq = p.seq, r.dk = p.dk
    PROVE  /\ p \in ns => RangeOK(P, S, ns \cup {r}, np)
           /\ p \in np => RangeOK(P, S, ns, np \cup {r})
<1>1. ASSUME p \in ns PROVE RangeOK(P, S, ns \cup {r}, np)
  <2>1. Numbered(S, P, ns \cup {r})
    BY <1>1 DEF RangeOK, Numbered
  <2>2. Ranged(S, ns \cup {r})
    BY <1>1 DEF RangeOK, Ranged
  <2>3. Offered(ns \cup {r}, np)
    BY <1>1 DEF RangeOK, Offered
  <2>4. AnswerLast(P, S, ns \cup {r}, np)
    BY <1>1 DEF RangeOK, AnswerLast
  <2>5. AnswerParts(S, ns \cup {r})
    BY <1>1 DEF RangeOK, AnswerParts
  <2> QED  BY <2>1, <2>2, <2>3, <2>4, <2>5 DEF RangeOK
<1>2. ASSUME p \in np PROVE RangeOK(P, S, ns, np \cup {r})
  <2>1. Numbered(P, S, np \cup {r})
    BY <1>2 DEF RangeOK, Numbered
  <2>2. Ranged(P, np \cup {r})
    BY <1>2 DEF RangeOK, Ranged
  <2>3. Offered(ns, np \cup {r})
    BY <1>2 DEF RangeOK, Offered
  <2>4. AnswerLast(P, S, ns, np \cup {r})
    BY <1>2 DEF RangeOK, AnswerLast
  <2> QED  BY <2>1, <2>2, <2>3, <2>4 DEF RangeOK
<1> QED  BY <1>1, <1>2

(* replace_key's answer without error leaves: it is the last packet of the *)
(* secondary, and nothing is sealed with the new keys.                     *)
LEMMA SecondaryAnswers ==
    ASSUME NEW P \in Sessions, NEW S \in Sessions,
           NEW ns \in SUBSET Packet, NEW np \in SUBSET Packet, NEW r \in Packet,
           RangeOK(P, S, ns, np), r.msg.type = "REKEY",
           r.seq + 1 = S.sseq, r.msg.num = S.sseq,
           P.rID1 <= r.seq, r.dk = P.ctx1.dd, \A q \in np : q.seq < r.seq,
           \A q \in ns : q.msg.type # "REPLACE_KEY",
           \A q \in np : q.msg.type # "REKEY",
           \A q \in ns \cup np \cup {r} : q.dk # P.newkey.d
    PROVE  RangeOK(P, S, ns, np \cup {r})
<1>1. Numbered(P, S, np \cup {r})
  <2>1. r.seq < S.sseq  BY PacketNat, SessionNat
  <2> QED  BY <2>1 DEF RangeOK, Numbered
<1>2. Ranged(P, np \cup {r})
  BY DEF RangeOK, Ranged
<1>3. Offered(ns, np \cup {r})
  BY DEF Offered
<1>4. AnswerLast(P, S, ns, np \cup {r})
  <2>1. \A p \in np \cup {r} : p.seq = r.seq => p = r  BY PacketNat
  <2> QED  BY <2>1 DEF AnswerLast
<1> QED  BY <1>1, <1>2, <1>3, <1>4 DEF RangeOK

(* rekey_session on the primary: everything the secondary has sent is      *)
(* below the announced number, and so is what the primary has sent below   *)
(* the one it announces.                                                   *)
LEMMA PrimaryRange ==
    ASSUME NEW P \in Sessions, NEW S \in Sessions, NEW P1 \in Sessions,
           NEW ns \in SUBSET Packet, NEW np \in SUBSET Packet,
           NEW a \in np, NEW r \in Packet,
           RangeOK(P, S, ns, np), a.msg.type = "REKEY", ~a.msg.err,
           P1.ctx0 = P.ctx1, P1.ctx1.dd = P.newkey.d, P1.sseq = P.sseq + 1,
           P1.rID0 = P.rID1, P1.rID1 = a.msg.num,
           r.msg.type = "REKEY", r.seq = P.sseq, r.msg.num = P.sseq + 1,
           r.dk = P.ctx1.dd, P.ctx1 = S.ctx1, S.newkey = P.newkey,
           S.ctx0.dd # S.ctx1.dd, P.newkey.d \notin {S.ctx0.dd, S.ctx1.dd},
           \A q \in ns : q.msg.type \notin {"REKEY", "REPLACE_KEY"},
           \A q \in np \ {a} : q.msg.type # "REKEY"
    PROVE  RangeOK(P1, S, ns \cup {r}, np \ {a})
<1>1. /\ a.msg.num = S.sseq /\ \A p \in ns \cup np : p.dk # P.newkey.d
  BY DEF RangeOK, AnswerLast
<1>2. P.sseq \in Nat /\ P.sseq < P1.sseq
  BY SessionNat
<1>3. Numbered(S, P1, ns \cup {r})
  <2>1. \A q \in ns \cup {r} : q.seq < P1.sseq
    BY <1>2, PacketNat DEF RangeOK, Numbered
  <2>2. S.rID1 <= P1.sseq  BY <1>2, SessionNat DEF RangeOK, Numbered
  <2> QED  BY <2>1, <2>2 DEF Numbered
<1>4. Numbered(P1, S, np \ {a})
  BY <1>1, SessionNat DEF RangeOK, Numbered
<1>5. Ranged(S, ns \cup {r})
  <2>1. S.rID1 <= r.seq  BY DEF RangeOK, Numbered
  <2> QED  BY <2>1 DEF RangeOK, Ranged
<1>6. Ranged(P1, np \ {a})
  BY <1>1 DEF RangeOK, Ranged, Numbered
<1>7. Offered(ns \cup {r}, np \ {a})
  BY DEF Offered
<1>8. AnswerLast(P1, S, ns \cup {r}, np \ {a})
  BY DEF AnswerLast
<1>9. AnswerParts(S, ns \cup {r})
  <2>1. \A p \in ns : p.seq < r.seq  BY DEF RangeOK, Numbered
  <2>2. r.seq < r.msg.num  BY <1>2
  <2>3. \A p \in ns : p.seq # r.seq /\ p.seq < r.msg.num
    BY <1>2, <2>1, <2>2, PacketNat
  <2> QED  BY <1>1, <2>2, <2>3 DEF AnswerParts
<1>10. P1.ctx0.dd # P1.ctx1.dd  OBVIOUS
<1> QED  BY <1>3, <1>4, <1>5, <1>6, <1>7, <1>8, <1>9, <1>10 DEF RangeOK

(* rekey_session on the secondary: the announced number parts the packets  *)
(* of the key that becomes the previous one from those of the new key.     *)
LEMMA SecondaryRange ==
    ASSUME NEW P \in Sessions, NEW S \in Sessions, NEW S1 \in Sessions,
           NEW ns \in SUBSET Packet, NEW np \in SUBSET Packet, NEW a \in ns,
           RangeOK(P, S, ns, np), a.msg.type = "REKEY",
           S1.ctx0 = S.ctx1, S1.ctx1.dd = S.newkey.d, S1.sseq = S.sseq,
           S1.rID0 = S.rID1, S1.rID1 = a.msg.num,
           \A q \in np : q.msg.type # "REKEY",
           \A q \in ns \ {a} : q.msg.type # "REKEY"
    PROVE  RangeOK(P, S1, ns \ {a}, np)
<1>1. Numbered(S1, P, ns \ {a})
  <2>1. a.msg.num <= P.sseq
    BY SessionNat, PacketNat DEF RangeOK, Numbered, AnswerParts
  <2> QED  BY <2>1 DEF RangeOK, Numbered
<1>2. Numbered(P, S1, np)
  BY DEF RangeOK, Numbered
<1>3. Ranged(S1, ns \ {a}) /\ Ranged(P, np)
  BY DEF RangeOK, Ranged, AnswerParts
<1>4. Offered(ns \ {a}, np)
  BY DEF RangeOK, Offered
<1>5. AnswerLast(P, S1, ns \ {a}, np) /\ AnswerParts(S1, ns \ {a})
  BY DEF AnswerLast, AnswerParts
<1> QED  BY <1>1, <1>2, <1>3, <1>4, <1>5 DEF RangeOK

\* LateOpens is what the ranges are for.
LEMMA RangeOpens == TypeOK /\ RangeInv => LateOpens
<1> SUFFICES ASSUME TypeOK, RangeInv, NEW h \in Host, NEW p \in net[h],
                    p.dk = sess[h].ctx0.dd \/ p.dk = sess[h].ctx1.dd
             PROVE  DataOpens(sess[h], p)
  BY DEF LateOpens
<1>1. Ranged(sess[h], net[h])
  BY DEF RangeInv, RangeOK, Host, Pri, Sec
<1>2. sess[h] \in Sessions /\ p \in Packet  BY DEF TypeOK
<1> QED  BY <1>1, <1>2, SessionNat, PacketNat DEF Ranged, DataOpens, Slot, InNewRange

-----------------------------------------------------------------------------
(* What the handlers do, before a wrap                                     *)

\* The session s1 has the contexts and the ranges of s.
Kept(s1, s) ==
    /\ s1.ctx0 = s.ctx0 /\ s1.ctx1 = s.ctx1
    /\ s1.rID0 = s.rID0 /\ s1.rID1 = s.rID1

\* h sends the data packet r and is left with the session s1.
DataSent(h, s1, r) ==
    /\ sess' = [sess EXCEPT ![h] = s1]
    /\ net' = [net EXCEPT ![Peer(h)] = @ \cup {r}]
    /\ Kept(s1, sess[h])
    /\ ~sess[h].rekey
    /\ s1.newkey = sess[h].newkey \/ h = "pri"
    /\ r.msg.type = "DATA" /\ r.dk = sess[h].ctx1.de
    /\ sess[h].sseq <= r.seq /\ s1.sseq = r.seq + 1

\* The primary sends new keys in r.
ReplaceSent(s1, r) ==
    /\ sess' = [sess EXCEPT !["pri"] = s1]
    /\ net' = [net EXCEPT !["sec"] = @ \cup {r}]
    /\ Kept(s1, Pri)
    /\ ~Pri.rekey
    /\ r.msg.type = "REPLACE_KEY" /\ r.dk = Pri.ctx1.de /\ r.ck = Pri.ctx1.ce
    /\ r.seq = Pri.sseq /\ s1.sseq = Pri.sseq + 1
    /\ r.msg.d # NoKey => /\ r.msg.d # Pri.ctx1.de
                          /\ \A g \in Host : \A q \in net[g] : q.dk # r.msg.d

\* h takes p and sends nothing; only a control message it can open makes it
\* take numbers or note new keys.
Consumed(h, p, s1) ==
    /\ sess' = [sess EXCEPT ![h] = s1]
    /\ net' = Taken(h, p)
    /\ Kept(s1, sess[h])
    /\ sess[h].sseq <= s1.sseq
    /\ \/ s1.sseq = sess[h].sseq /\ s1.newkey = sess[h].newkey
       \/ h = "pri" /\ s1.newkey = sess[h].newkey
       \/ h = "sec" /\ p.msg.type = "REPLACE_KEY" /\ CtlOpens(sess[h], p)

\* The secondary answers the new keys of p with r.
Answers(p, s1, r) ==
    /\ sess' = [sess EXCEPT !["sec"] = s1]
    /\ net' = [Taken("sec", p) EXCEPT !["pri"] = @ \cup {r}]
    /\ Kept(s1, Sec)
    /\ p.msg.type = "REPLACE_KEY" /\ CtlOpens(Sec, p)
    /\ r.msg.type = "REKEY" /\ r.msg.err = (NoKey \in {p.msg.d, p.msg.c})
    /\ r.dk = Sec.ctx1.de /\ r.ck = Sec.ctx1.ce
    /\ r.seq = Sec.sseq /\ s1.sseq = Sec.sseq + 1 /\ r.msg.num = s1.sseq

\* The primary switches on the answer p and announces its own number in r.
PriSwitches(p, s1, r) ==
    /\ sess' = [sess EXCEPT !["pri"] = s1]
    /\ net' = [Taken("pri", p) EXCEPT !["sec"] = @ \cup {r}]
    /\ p.msg.type = "REKEY" /\ ~p.msg.err
    /\ s1.ctx0 = Pri.ctx1 /\ s1.ctx1 = CtxOf(Pri.newkey)
    /\ s1.rID0 = Pri.rID1 /\ s1.rID1 = p.msg.num
    /\ ~s1.rekey
    /\ r.msg.type = "REKEY" /\ r.dk = Pri.ctx1.de /\ r.ck = Pri.ctx1.ce
    /\ r.seq = Pri.sseq /\ s1.sseq = Pri.sseq + 1 /\ r.msg.num = s1.sseq

\* The secondary switches on the answer p.
SecSwitches(p, s1) ==
    /\ sess' = [sess EXCEPT !["sec"] = s1]
    /\ net' = Taken("sec", p)
    /\ p.msg.type = "REKEY"
    /\ s1.ctx0 = Sec.ctx1 /\ s1.ctx1 = CtxOf(Sec.newkey)
    /\ s1.rID0 = Sec.rID1 /\ s1.rID1 = p.msg.num
    /\ s1.sseq = Sec.sseq

\* Taking a number that is not the last one.
LEMMA AdvanceFields ==
    ASSUME NEW s \in Sessions, s.sseq + 1 < SeqMod
    PROVE  /\ Advance(s) \in Sessions
           /\ Advance(s).sseq = s.sseq + 1 /\ SuccSeq(s.sseq) = s.sseq + 1
           /\ Kept(Advance(s), s)
           /\ Advance(s).rekey = s.rekey /\ Advance(s).newkey = s.newkey
<1>1. SuccSeq(s.sseq) = s.sseq + 1
  BY SessionNat, SeqAssumption DEF SuccSeq
<1> QED  BY <1>1, AdvanceType DEF Sessions, Kept

\* p3send_control takes one number or none.
LEMMA AfterSendFields ==
    ASSUME NEW s \in Sessions, NEW res, NEW b \in BOOLEAN, s.sseq + 1 < SeqMod
    PROVE  LET a == [AfterSend(s, res) EXCEPT !.rekey = b]
           IN  /\ a \in Sessions
               /\ Kept(a, s) /\ a.newkey = s.newkey /\ a.rekey = b
               /\ a.sseq = IF res = "unsent" THEN s.sseq ELSE s.sseq + 1
<1> DEFINE t == AfterSend(s, res)
<1>1. /\ t \in Sessions /\ Kept(t, s) /\ t.newkey = s.newkey
      /\ t.sseq = IF res = "unsent" THEN s.sseq ELSE s.sseq + 1
  BY AdvanceFields DEF AfterSend, Kept
<1> HIDE DEF t
<1>2. [t EXCEPT !.rekey = b] \in Sessions
  BY <1>1 DEF Sessions
<1>3. LET a == [t EXCEPT !.rekey = b]
      IN  /\ a.ctx0 = t.ctx0 /\ a.ctx1 = t.ctx1 /\ a.rID0 = t.rID0 /\ a.rID1 = t.rID1
          /\ a.newkey = t.newkey /\ a.rekey = b /\ a.sseq = t.sseq
  BY <1>1 DEF Sessions
<1> QED  BY <1>1, <1>2, <1>3 DEF t, Kept

\* The fields of a data packet and of a control packet.
LEMMA PacketFields ==
    ASSUME NEW s \in Sessions, NEW m \in Message
    PROVE  /\ DataPacket(s).seq = s.sseq /\ DataPacket(s).dk = s.ctx1.de
           /\ CtlPacket(s, m).seq = s.sseq
BY DEF DataPacket, CtlPacket

\* packet_handler sends a user's packet.
LEMMA TransmitSends ==
    ASSUME TypeOK, NEW h \in Host, NEW s \in Sessions, Transmit(h, s),
           Kept(s, sess[h]), s.sseq + 1 < SeqMod, sess[h].sseq <= s.sseq,
           ~sess[h].rekey, s.newkey = sess[h].newkey \/ h = "pri"
    PROVE  \E s1 \in Sessions, r \in Packet : DataSent(h, s1, r)
<1>1. Advance(s) \in Sessions /\ DataPacket(s) \in Packet
  BY AdvanceFields, DataPacketType
<1>2. /\ DataPacket(s).seq = s.sseq /\ DataPacket(s).dk = s.ctx1.de
      /\ DataPacket(s).msg.type = "DATA"
  BY DataPacketType DEF DataPacket
<1>3. Kept(Advance(s), sess[h])  BY AdvanceFields DEF Kept
<1>4. DataSent(h, Advance(s), DataPacket(s))
  BY <1>2, <1>3, AdvanceFields DEF DataSent, Transmit, Kept
<1> QED  BY <1>1, <1>4

\* What SendData does.
LEMMA SendDataSends ==
    ASSUME TypeOK, Low, NEW h \in Host, SendData(h)
    PROVE  \E s1 \in Sessions, r \in Packet : DataSent(h, s1, r)
<1>1. sess[h] \in Sessions /\ sess[h].sseq \in Nat  BY SessionNat DEF TypeOK
<1>2. sess[h].sseq + 1 < SeqMod /\ sess[h].sseq <= sess[h].sseq
  BY <1>1, SeqAssumption DEF Low
<1>3. Kept(sess[h], sess[h])  BY DEF Kept
<1> QED  BY <1>1, <1>2, <1>3, TransmitSends DEF SendData, Transmit

\* What start_rekeying does, and packet_handler after it.
LEMMA StartSends ==
    ASSUME Benign, TypeOK, Low, StartRekeying
    PROVE  \E s1 \in Sessions, r \in Packet : DataSent("pri", s1, r) \/ ReplaceSent(s1, r)
<1>1. PICK fresh \in Key \ LiveKeys, didx \in UseIndex, cidx \in UseIndex,
           res \in SendResult :
        \E dk \in GetKey(Pri.newkey.d, fresh), ck \in GetKey(Pri.newkey.c, fresh) :
          start_rekeying(dk, ck, didx, cidx, res)
  BY DEF StartRekeying, Pri
<1>2. start_rekeying(fresh, fresh, didx, cidx, res)
  BY <1>1 DEF Benign, GetKey
<1> DEFINE b == NewKeys(Pri, fresh, fresh, didx, cidx)
           a == [AfterSend(b, res) EXCEPT !.rekey = (res = "sent")]
           m == NewKeyMsg(fresh, fresh, didx, cidx)
<1>3. Pri \in Sessions /\ ~Pri.rekey /\ Pri.sseq \in Nat /\ Pri.sseq + 2 < SeqMod
  BY SessionNat DEF TypeOK, Pri, Host, StartRekeying, RekeyDue, Low
<1>4. didx \in BOOLEAN /\ cidx \in BOOLEAN  BY DEF UseIndex
<1>5. b \in Sessions /\ Kept(b, Pri) /\ b.sseq = Pri.sseq
  <2>1. b \in Sessions  BY <1>3, NewKeysType
  <2> QED  BY <1>3, <2>1 DEF NewKeys, Sessions, Kept
<1>6. Pri.sseq + 1 < SeqMod  BY <1>3, SeqAssumption
<1>7. /\ a \in Sessions /\ Kept(a, Pri)
      /\ a.sseq = IF res = "unsent" THEN Pri.sseq ELSE Pri.sseq + 1
  <2> HIDE DEF b
  <2> DEFINE f == (res = "sent")
             t == [AfterSend(b, res) EXCEPT !.rekey = f]
  <2>1. f \in BOOLEAN  OBVIOUS
  <2> HIDE DEF f
  <2>2. /\ t \in Sessions /\ Kept(t, b)
        /\ t.sseq = IF res = "unsent" THEN b.sseq ELSE b.sseq + 1
    BY <1>5, <1>6, <2>1, AfterSendFields
  <2>3. a = t  BY DEF f
  <2> HIDE DEF a, t
  <2> QED  BY <1>5, <2>2, <2>3 DEF Kept
<1>8. /\ m \in Message /\ m.type = "REPLACE_KEY"
      /\ m.d = (IF didx THEN NoKey ELSE fresh)
  BY ReplaceMsgType DEF NewKeyMsg, KeyOrNone
<1>9. fresh # Pri.ctx1.de /\ \A g \in Host : \A q \in net[g] : q.dk # fresh
  BY DEF LiveKeys, CtxKeys, Host, Pri
<1> HIDE DEF a, b, m
<1>10. CASE res = "sent"
  <2> DEFINE r == CtlPacket(b, m)
  <2>1. /\ r \in Packet /\ r.msg = m /\ r.dk = Pri.ctx1.de /\ r.ck = Pri.ctx1.ce
        /\ r.seq = Pri.sseq
    BY <1>5, <1>8, CtlPacketType, PacketFields DEF Kept
  <2>2. /\ sess' = [sess EXCEPT !["pri"] = a]
        /\ net' = [net EXCEPT !["sec"] = @ \cup {r}]
    BY <1>2, <1>10 DEF start_rekeying, Pri, a, b, m
  <2> HIDE DEF r
  <2>3. ReplaceSent(a, r)
    BY <1>3, <1>4, <1>7, <1>8, <1>9, <1>10, <2>1, <2>2 DEF ReplaceSent
  <2> QED  BY <1>7, <2>1, <2>3
<1>11. CASE res # "sent"
  <2>1. Transmit("pri", a)
    BY <1>2, <1>11 DEF start_rekeying, Pri, a, b
  <2>2. a.sseq + 1 < SeqMod /\ Pri.sseq <= a.sseq
    BY <1>3, <1>6, <1>7, SeqAssumption
  <2> QED  BY <1>3, <1>7, <2>1, <2>2, TransmitSends DEF Host, Pri
<1> QED  BY <1>10, <1>11

\* A session structure with another Rekey flag.
LEMMA FlagFields ==
    ASSUME NEW s \in Sessions, NEW b \in BOOLEAN
    PROVE  LET a == [s EXCEPT !.rekey = b]
           IN  a \in Sessions /\ Kept(a, s) /\ a.sseq = s.sseq /\ a.newkey = s.newkey
BY DEF Sessions, Kept

\* A packet is lost, is data, or is not understood.
LEMMA TakenConsumes ==
    ASSUME TypeOK, NEW h \in Host, NEW p \in net[h], net' = Taken(h, p),
           sess' = sess \/ sess' = [sess EXCEPT ![h].rekey = FALSE]
    PROVE  \E s1 \in Sessions : Consumed(h, p, s1)
<1>1. sess[h] \in Sessions /\ sess[h].sseq \in Nat  BY SessionNat DEF TypeOK
<1>2. CASE sess' = sess
  <2>1. Consumed(h, p, sess[h])
    BY <1>1, <1>2 DEF Consumed, Kept, TypeOK
  <2> QED  BY <1>1, <2>1
<1>3. CASE sess' = [sess EXCEPT ![h].rekey = FALSE]
  <2> DEFINE a == [sess[h] EXCEPT !.rekey = FALSE]
  <2>1. a \in Sessions /\ Kept(a, sess[h]) /\ a.sseq = sess[h].sseq
        /\ a.newkey = sess[h].newkey
    BY <1>1, FlagFields
  <2>2. sess' = [sess EXCEPT ![h] = a]  BY <1>3
  <2> HIDE DEF a
  <2>3. Consumed(h, p, a)
    BY <1>1, <2>1, <2>2 DEF Consumed
  <2> QED  BY <2>1, <2>3
<1> QED  BY <1>2, <1>3

\* What replace_key does.
LEMMA ReplaceKeyAnswers ==
    ASSUME TypeOK, Low, NEW p \in net["sec"], ReplaceKey(p)
    PROVE  \/ \E s1 \in Sessions : Consumed("sec", p, s1)
           \/ \E s1 \in Sessions, r \in Packet : Answers(p, s1, r)
<1> DEFINE err == NoKey \in {p.msg.d, p.msg.c}
           b == NewKeys(Sec, p.msg.d, p.msg.c, p.msg.d = NoKey, p.msg.c = NoKey)
           a(res) == [AfterSend(b, res) EXCEPT !.rekey = (res = "sent" /\ ~err)]
           r == CtlPacket(Sec, RekeyMsg(SuccSeq(Sec.sseq), err))
<1>1. PICK res \in SendResult :
        /\ sess' = [sess EXCEPT !["sec"] = a(res)]
        /\ net' = [Taken("sec", p) EXCEPT !["pri"] =
                     @ \cup (IF res = "sent" THEN {r} ELSE {})]
  BY DEF ReplaceKey, Sec
<1>2. p.msg.type = "REPLACE_KEY" /\ CtlOpens(Sec, p)
  BY DEF ReplaceKey, Sec
<1>3. /\ Sec \in Sessions /\ p \in Packet /\ Sec.sseq \in Nat /\ Sec.sseq + 2 < SeqMod
  BY SessionNat DEF TypeOK, Sec, Host, Low
<1>4. b \in Sessions /\ Kept(b, Sec) /\ b.sseq = Sec.sseq
  <2>1. b \in Sessions
    BY <1>3, NewKeysType DEF Packet, Message, KeyOrNone
  <2> QED  BY <1>3, <2>1 DEF NewKeys, Sessions, Kept
<1>5. Sec.sseq + 1 < SeqMod  BY <1>3, SeqAssumption
<1>6. /\ a(res) \in Sessions /\ Kept(a(res), Sec)
      /\ a(res).sseq = IF res = "unsent" THEN Sec.sseq ELSE Sec.sseq + 1
  <2> HIDE DEF b
  <2> DEFINE f == (res = "sent" /\ ~err)
             t == [AfterSend(b, res) EXCEPT !.rekey = f]
  <2>1. f \in BOOLEAN  OBVIOUS
  <2> HIDE DEF f
  <2>2. /\ t \in Sessions /\ Kept(t, b)
        /\ t.sseq = IF res = "unsent" THEN b.sseq ELSE b.sseq + 1
    BY <1>4, <1>5, <2>1, AfterSendFields
  <2>3. a(res) = t  BY DEF f
  <2> HIDE DEF a, t
  <2> QED  BY <1>4, <2>2, <2>3 DEF Kept
<1>7. /\ r \in Packet /\ r.msg.type = "REKEY" /\ r.msg.err = err
      /\ r.msg.num = Sec.sseq + 1 /\ r.seq = Sec.sseq
      /\ r.dk = Sec.ctx1.de /\ r.ck = Sec.ctx1.ce
  <2>1. SuccSeq(Sec.sseq) \in Seqs /\ SuccSeq(Sec.sseq) = Sec.sseq + 1
    BY <1>3, <1>5, SuccSeqType, AdvanceFields DEF Sessions
  <2>2. err \in BOOLEAN  OBVIOUS
  <2> HIDE DEF err
  <2>3. RekeyMsg(SuccSeq(Sec.sseq), err).num = SuccSeq(Sec.sseq)  BY DEF RekeyMsg
  <2> QED  BY <1>3, <2>1, <2>2, <2>3, RekeyMsgType, CtlPacketType, PacketFields
<1> HIDE DEF a, b, r
<1>8. CASE res = "sent"
  <2>1. Answers(p, a(res), r)
    BY <1>1, <1>2, <1>6, <1>7, <1>8 DEF Answers
  <2> QED  BY <1>6, <1>7, <2>1
<1>9. CASE res # "sent"
  <2>1. net' = Taken("sec", p)
    BY <1>1, <1>9 DEF Taken, TypeOK, Host
  <2>2. Sec.sseq <= a(res).sseq  BY <1>3, <1>6
  <2>3. Consumed("sec", p, a(res))
    BY <1>1, <1>2, <1>6, <2>1, <2>2 DEF Consumed, Sec
  <2> QED  BY <1>6, <2>3
<1> QED  BY <1>8, <1>9

\* p3_rekey and the new ranges.
LEMMA SwitchFields ==
    ASSUME Benign, NEW s \in Sessions, NEW num \in Seqs, NEW made \in Created
    PROVE  LET a == SwitchKeys(s, num, made)
           IN  /\ a \in Sessions
               /\ a.ctx0 = s.ctx1 /\ a.ctx1 = CtxOf(s.newkey)
               /\ a.rID0 = s.rID1 /\ a.rID1 = num /\ a.sseq = s.sseq
               /\ ~a.rekey
<1>1. SwitchKeys(s, num, made) \in Sessions
  BY SwitchKeysType DEF Created
<1> DEFINE t == p3_rekey(s, made)
<1>2. t.rID1 = s.rID1 /\ t.sseq = s.sseq
  BY DEF p3_rekey, Sessions
<1>3. LET a == SwitchKeys(s, num, made)
      IN  a.rID0 = s.rID1 /\ a.rID1 = num /\ a.sseq = s.sseq
  <2>1. DOMAIN t = {"sseq", "rID0", "rID1", "rekey", "newkey", "ctx0", "ctx1"}
    BY DEF p3_rekey, Sessions
  <2> HIDE DEF t
  <2>2. SwitchKeys(s, num, made) = [t EXCEPT !.rID0 = s.rID1, !.rID1 = num, !.rekey = FALSE]
    BY DEF SwitchKeys, t
  <2> QED  BY <1>2, <2>1, <2>2
<1> QED  BY <1>1, <1>3, SwitchResult

\* What rekey_session does on the primary.
LEMMA PrimaryAnswers ==
    ASSUME Benign, TypeOK, Low, NEW p \in net["pri"], RekeyPrimary(p)
    PROVE  \/ \E s1 \in Sessions : Consumed("pri", p, s1)
           \/ \E s1 \in Sessions, r \in Packet : PriSwitches(p, s1, r)
<1>1. Pri \in Sessions /\ p \in Packet /\ Pri.sseq \in Nat /\ Pri.sseq + 2 < SeqMod
  BY SessionNat DEF TypeOK, Pri, Host, Low
<1>2. p.msg.type = "REKEY"  BY DEF RekeyPrimary
<1>3. Pri.sseq + 1 < SeqMod  BY <1>1, SeqAssumption
<1>4. CASE p.msg.err
  BY <1>4, TakenConsumes DEF RekeyPrimary, Host
<1>5. CASE \E res \in SendResult \ {"sent"} :
             /\ sess' = [sess EXCEPT !["pri"] =
                           [AfterSend(Pri, res) EXCEPT !.rekey = FALSE]]
             /\ net' = Taken("pri", p)
  <2>1. PICK res \in SendResult :
          sess' = [sess EXCEPT !["pri"] =
                     [AfterSend(Pri, res) EXCEPT !.rekey = FALSE]]
    BY <1>5
  <2> DEFINE a == [AfterSend(Pri, res) EXCEPT !.rekey = FALSE]
  <2>2. /\ a \in Sessions /\ Kept(a, Pri) /\ a.newkey = Pri.newkey
        /\ a.sseq = IF res = "unsent" THEN Pri.sseq ELSE Pri.sseq + 1
    BY <1>1, <1>3, AfterSendFields
  <2> HIDE DEF a
  <2>3. Pri.sseq <= a.sseq  BY <1>1, <2>2
  <2>4. Consumed("pri", p, a)
    BY <1>5, <2>1, <2>2, <2>3 DEF Consumed, Pri, a
  <2> QED  BY <2>2, <2>4
<1> DEFINE r == CtlPacket(Pri, RekeyMsg(SuccSeq(Pri.sseq), FALSE))
<1>6. CASE /\ ~p.msg.err
           /\ \E made \in Created :
                sess' = [sess EXCEPT !["pri"] =
                           SwitchKeys(Advance(Pri), p.msg.num, made)]
           /\ net' = [Taken("pri", p) EXCEPT !["sec"] = @ \cup {r}]
  <2>1. PICK made \in Created :
          sess' = [sess EXCEPT !["pri"] =
                     SwitchKeys(Advance(Pri), p.msg.num, made)]
    BY <1>6
  <2>2. /\ Advance(Pri) \in Sessions /\ Advance(Pri).newkey = Pri.newkey
        /\ Kept(Advance(Pri), Pri) /\ Advance(Pri).sseq = Pri.sseq + 1
    BY <1>1, <1>3, AdvanceFields
  <2>3. p.msg.num \in Seqs  BY <1>1 DEF Packet, Message
  <2> DEFINE a == SwitchKeys(Advance(Pri), p.msg.num, made)
  <2>4. /\ a \in Sessions /\ a.ctx0 = Pri.ctx1 /\ a.ctx1 = CtxOf(Pri.newkey)
        /\ a.rID0 = Pri.rID1 /\ a.rID1 = p.msg.num /\ a.sseq = Pri.sseq + 1
        /\ ~a.rekey
    BY <2>2, <2>3, SwitchFields DEF Kept
  <2>5. /\ r \in Packet /\ r.msg.type = "REKEY" /\ r.msg.num = Pri.sseq + 1
        /\ r.seq = Pri.sseq /\ r.dk = Pri.ctx1.de /\ r.ck = Pri.ctx1.ce
    <3>1. SuccSeq(Pri.sseq) \in Seqs /\ SuccSeq(Pri.sseq) = Pri.sseq + 1
      BY <1>1, <1>3, SuccSeqType, AdvanceFields DEF Sessions
    <3>2. RekeyMsg(SuccSeq(Pri.sseq), FALSE).num = SuccSeq(Pri.sseq)  BY DEF RekeyMsg
    <3> QED  BY <1>1, <3>1, <3>2, RekeyMsgType, CtlPacketType, PacketFields
  <2> HIDE DEF a, r
  <2>6. PriSwitches(p, a, r)
    BY <1>2, <1>6, <2>1, <2>4, <2>5 DEF PriSwitches, a
  <2> QED  BY <2>4, <2>5, <2>6
<1> QED  BY <1>4, <1>5, <1>6 DEF RekeyPrimary, Pri

\* What rekey_session does on the secondary.
LEMMA SecondaryAdopts ==
    ASSUME Benign, TypeOK, NEW p \in net["sec"], RekeySecondary(p)
    PROVE  \E s1 \in Sessions : SecSwitches(p, s1)
<1>1. Sec \in Sessions /\ p \in Packet  BY DEF TypeOK, Sec, Host
<1>2. PICK made \in Created :
        sess' = [sess EXCEPT !["sec"] = SwitchKeys(Sec, p.msg.num, made)]
  BY DEF RekeySecondary, Sec
<1>3. p.msg.num \in Seqs  BY <1>1 DEF Packet, Message
<1> DEFINE a == SwitchKeys(Sec, p.msg.num, made)
<1>4. /\ a \in Sessions /\ a.ctx0 = Sec.ctx1 /\ a.ctx1 = CtxOf(Sec.newkey)
      /\ a.rID0 = Sec.rID1 /\ a.rID1 = p.msg.num /\ a.sseq = Sec.sseq
  BY <1>1, <1>3, SwitchFields
<1> HIDE DEF a
<1>5. SecSwitches(p, a)
  BY <1>2, <1>4 DEF SecSwitches, RekeySecondary, a
<1> QED  BY <1>4, <1>5

\* The network delivers the data packet p a second time, as r.
Copied(h, p, r) ==
    /\ sess' = sess
    /\ net' = [net EXCEPT ![h] = @ \cup {r}]
    /\ p.msg.type = "DATA" /\ r.msg = p.msg /\ r.seq = p.seq /\ r.dk = p.dk

\* Why h takes p and sends nothing: it is data, it is lost, its turn has come
\* and it is a failing exchange or cannot be opened.
Reason(h, p) ==
    \/ p.msg.type = "DATA"
    \/ "lose" \in Env
    \/ p \in Arriving(h) /\ (p.msg.type = "REKEY" => h = "pri" \/ ~CtlOpens(sess[h], p))

\* Every step is one of these.
LEMMA Steps ==
    ASSUME Benign, TypeOK, Low, [Next]_vars
    PROVE  \/ sess' = sess /\ net' = net
           \/ \E h \in Host, s1 \in Sessions, r \in Packet : DataSent(h, s1, r)
           \/ \E s1 \in Sessions, r \in Packet : ReplaceSent(s1, r)
           \/ \E h \in Host : \E p \in net[h], s1 \in Sessions :
                Consumed(h, p, s1) /\ Reason(h, p)
           \/ \E p \in net["sec"], s1 \in Sessions, r \in Packet : Answers(p, s1, r)
           \/ \E p \in net["pri"], s1 \in Sessions, r \in Packet : PriSwitches(p, s1, r)
           \/ \E p \in net["sec"], s1 \in Sessions :
                SecSwitches(p, s1) /\ p \in Arriving("sec")
           \/ \E h \in Host : \E p \in net[h], r \in Packet : Copied(h, p, r)
<1> DEFINE Goal ==
           \/ sess' = sess /\ net' = net
           \/ \E h \in Host, s1 \in Sessions, r \in Packet : DataSent(h, s1, r)
           \/ \E s1 \in Sessions, r \in Packet : ReplaceSent(s1, r)
           \/ \E h \in Host : \E p \in net[h], s1 \in Sessions :
                Consumed(h, p, s1) /\ Reason(h, p)
           \/ \E p \in net["sec"], s1 \in Sessions, r \in Packet : Answers(p, s1, r)
           \/ \E p \in net["pri"], s1 \in Sessions, r \in Packet : PriSwitches(p, s1, r)
           \/ \E p \in net["sec"], s1 \in Sessions :
                SecSwitches(p, s1) /\ p \in Arriving("sec")
           \/ \E h \in Host : \E p \in net[h], r \in Packet : Copied(h, p, r)
<1>1. CASE StartRekeying
  BY <1>1, StartSends DEF Host
<1>2. ASSUME NEW h \in Host, SendData(h) PROVE Goal
  BY <1>2, SendDataSends
<1>3. ASSUME NEW h \in Host, Receive(h) PROVE Goal
  <2>1. PICK p \in Arriving(h) :
          \/ ReceiveData(h, p)
          \/ ReceiveGarbled(h, p)
          \/ h = "sec" /\ ReplaceKey(p)
          \/ h = "pri" /\ RekeyPrimary(p)
          \/ h = "sec" /\ RekeySecondary(p)
    BY <1>3 DEF Receive
  <2>2. p \in net[h]  BY ArrivingInNet
  <2>3. CASE ReceiveData(h, p)
    <3>1. \E s1 \in Sessions : Consumed(h, p, s1)
      BY <2>2, <2>3, TakenConsumes DEF ReceiveData
    <3> QED  BY <2>2, <2>3, <3>1 DEF ReceiveData, Reason
  <2>4. CASE ReceiveGarbled(h, p)
    <3>1. \E s1 \in Sessions : Consumed(h, p, s1)
      BY <2>2, <2>4, TakenConsumes DEF ReceiveGarbled
    <3> QED  BY <2>1, <2>2, <2>4, <3>1 DEF ReceiveGarbled, Reason
  <2>5. CASE h = "sec" /\ ReplaceKey(p)
    <3>1. Reason("sec", p)  BY <2>1, <2>5 DEF ReplaceKey, Reason
    <3> QED  BY <2>2, <2>5, <3>1, ReplaceKeyAnswers DEF Host
  <2>6. CASE h = "pri" /\ RekeyPrimary(p)
    <3>1. Reason("pri", p)  BY <2>1, <2>6 DEF Reason
    <3> QED  BY <2>2, <2>6, <3>1, PrimaryAnswers DEF Host
  <2>7. CASE h = "sec" /\ RekeySecondary(p)
    BY <2>1, <2>2, <2>7, SecondaryAdopts
  <2> QED  BY <2>1, <2>3, <2>4, <2>5, <2>6, <2>7
<1>4. ASSUME NEW h \in Host, Lose(h) PROVE Goal
  <2>1. PICK p \in net[h] :
          /\ "lose" \in Env \/ p.msg.type = "DATA"
          /\ net' = Taken(h, p)
    BY <1>4 DEF Lose
  <2>2. \E s1 \in Sessions : Consumed(h, p, s1)
    BY <1>4, <2>1, TakenConsumes DEF Lose
  <2> QED  BY <2>1, <2>2 DEF Reason
<1>5. ASSUME NEW h \in Host, Duplicate(h) PROVE Goal
  <2>1. PICK p \in net[h] :
          /\ p.msg.type \in Duplicated
          /\ net' = [net EXCEPT ![h] = @ \cup {[p EXCEPT !.copy = TRUE]}]
    BY <1>5 DEF Duplicate
  <2>2. p.msg.type = "DATA"  BY <2>1 DEF Duplicated, Benign
  <2> DEFINE r == [p EXCEPT !.copy = TRUE]
  <2>3. p \in Packet  BY DEF TypeOK
  <2>4. r \in Packet /\ r.msg = p.msg /\ r.seq = p.seq /\ r.dk = p.dk
    BY <2>3 DEF Packet
  <2> HIDE DEF r
  <2>5. Copied(h, p, r)  BY <1>5, <2>1, <2>2, <2>4 DEF Copied, Duplicate, r
  <2> QED  BY <2>4, <2>5
<1>6. CASE UNCHANGED vars  BY <1>6 DEF vars
<1>7. ASSUME NEW h \in Host, DropData(h) PROVE Goal
  BY <1>7 DEF DropData, vars
<1> QED  BY <1>1, <1>2, <1>3, <1>4, <1>5, <1>6, <1>7 DEF Next

-----------------------------------------------------------------------------
(* The ranges are kept                                                     *)

\* The names of the values the invariant is about.
LEMMA Values ==
    ASSUME TypeOK
    PROVE  /\ Pri \in Sessions /\ Sec \in Sessions
           /\ net["sec"] \in SUBSET Packet /\ net["pri"] \in SUBSET Packet
BY DEF TypeOK, Host, Pri, Sec

\* A user's packet from either side.
LEMMA RangeData ==
    ASSUME TypeOK, ExchangeInv, RangeInv,
           NEW h \in Host, NEW s1 \in Sessions, NEW r \in Packet, DataSent(h, s1, r)
    PROVE  RangeInv'
<1> USE Values
<1> DEFINE ns == net["sec"]
           np == net["pri"]
<1>1. RangeOK(Pri, Sec, ns, np)  BY DEF RangeInv
<1>2. r.seq \in Nat /\ Pri.sseq \in Nat /\ Sec.sseq \in Nat /\ Sec.rID1 \in Nat /\ Pri.rID1 \in Nat
  BY PacketNat, SessionNat
<1>3. sess[h].sseq \in Nat /\ s1.sseq \in Nat  BY SessionNat DEF TypeOK
<1>4. sess[h].sseq <= s1.sseq /\ r.seq < s1.sseq
  BY <1>2, <1>3 DEF DataSent
<1>5. CASE h = "pri"
  <2>1. Pri' = s1 /\ Sec' = Sec /\ net'["sec"] = ns \cup {r} /\ net'["pri"] = np
    BY <1>5 DEF DataSent, TypeOK, Host, Pri, Sec, Peer
  <2>2. /\ Kept(s1, Pri) /\ ~Pri.rekey /\ r.msg.type = "DATA" /\ r.dk = Pri.ctx1.de
        /\ Pri.sseq <= s1.sseq /\ Pri.sseq <= r.seq
    BY <1>4, <1>5 DEF DataSent, Pri
  <2>3. /\ \A q \in np : q.msg.type # "REKEY"
        /\ \A q \in ns : q.msg.type # "REPLACE_KEY"
    BY <2>2 DEF ExchangeInv, AnswerInv, ReplaceInv
  <2>4. RangeOK(s1, Sec, ns, np)
    BY <1>1, <1>2, <2>2, <2>3, RangeShrinks DEF Kept
  <2>5. /\ r.dk # Sec.ctx0.dd
        /\ r.dk = Sec.ctx1.dd \/ r.dk = Sec.newkey.d
        /\ \A q \in ns : q.msg.type = "REKEY" => r.dk # Sec.ctx1.dd
    BY <2>2 DEF ExchangeInv, InStep, Ahead, ContextInv, SwitchInv, CtxOf
  <2>6. Sec.rID1 <= r.seq /\ \A q \in ns : q.seq < r.seq
    BY <1>1, <1>2, <2>2, PacketNat DEF RangeOK, Numbered
  <2>7. RangeOK(s1, Sec, ns \cup {r}, np)
    BY <1>4, <2>2, <2>3, <2>4, <2>5, <2>6, PrimarySends
  <2> QED  BY <2>1, <2>7 DEF RangeInv
<1>6. CASE h = "sec"
  <2>1. Pri' = Pri /\ Sec' = s1 /\ net'["sec"] = ns /\ net'["pri"] = np \cup {r}
    BY <1>6 DEF DataSent, TypeOK, Host, Pri, Sec, Peer
  <2>2. /\ Kept(s1, Sec) /\ ~Sec.rekey /\ r.msg.type = "DATA" /\ r.dk = Sec.ctx1.de
        /\ Sec.sseq <= s1.sseq /\ Sec.sseq <= r.seq /\ s1.newkey = Sec.newkey
    BY <1>4, <1>6 DEF DataSent, Sec
  <2>3. \A q \in np : q.msg.type = "REKEY" => q.msg.err
    BY <2>2 DEF ExchangeInv, AnswerInv
  <2>4. Pri.sseq <= Pri.sseq  BY <1>2
  <2>5. RangeOK(Pri, s1, ns, np)
    BY <1>1, <2>2, <2>3, <2>4, RangeShrinks DEF Kept
  <2>6. r.dk = Pri.ctx1.dd /\ r.dk = Sec.ctx1.dd
    BY <2>2 DEF ExchangeInv, InStep, Ahead, ContextInv
  <2>7. \A q \in ns : q.msg.type = "REPLACE_KEY" /\ q.msg.d # NoKey => q.msg.d # r.dk
    BY <2>6 DEF ExchangeInv, ReplaceInv
  <2>8. Pri.rID1 <= r.seq
    BY <1>1, <1>2, <2>2 DEF RangeOK, Numbered
  <2>9. RangeOK(Pri, s1, ns, np \cup {r})
    BY <1>4, <2>2, <2>3, <2>5, <2>6, <2>7, <2>8, SecondarySends
  <2> QED  BY <2>1, <2>9 DEF RangeInv
<1> QED  BY <1>5, <1>6 DEF Host

\* start_rekeying's message.
LEMMA RangeReplace ==
    ASSUME TypeOK, ExchangeInv, RangeInv,
           NEW s1 \in Sessions, NEW r \in Packet, ReplaceSent(s1, r)
    PROVE  RangeInv'
<1> USE Values
<1> DEFINE ns == net["sec"]
           np == net["pri"]
<1>1. RangeOK(Pri, Sec, ns, np)  BY DEF RangeInv
<1>2. r.seq \in Nat /\ Pri.sseq \in Nat /\ Sec.sseq \in Nat  BY PacketNat, SessionNat
<1>3. Pri' = s1 /\ Sec' = Sec /\ net'["sec"] = ns \cup {r} /\ net'["pri"] = np
  BY DEF ReplaceSent, TypeOK, Host, Pri, Sec
<1>4. /\ Kept(s1, Pri) /\ ~Pri.rekey /\ r.msg.type = "REPLACE_KEY" /\ r.dk = Pri.ctx1.de
      /\ Pri.sseq <= s1.sseq /\ r.seq < s1.sseq /\ r.seq = Pri.sseq
  BY <1>2 DEF ReplaceSent
<1>5. /\ \A q \in np : q.msg.type # "REKEY"
      /\ \A q \in ns : q.msg.type # "REPLACE_KEY"
  BY <1>4 DEF ExchangeInv, AnswerInv, ReplaceInv
<1>6. Sec.sseq <= Sec.sseq  BY <1>2
<1>7. RangeOK(s1, Sec, ns, np)
  BY <1>1, <1>4, <1>5, <1>6, RangeShrinks DEF Kept
<1>8. /\ r.dk # Sec.ctx0.dd
      /\ r.dk = Sec.ctx1.dd \/ r.dk = Sec.newkey.d
      /\ \A q \in ns : q.msg.type = "REKEY" => r.dk # Sec.ctx1.dd
  BY <1>4 DEF ExchangeInv, InStep, Ahead, ContextInv, SwitchInv, CtxOf
<1>9. Sec.rID1 <= r.seq /\ \A q \in ns : q.seq < r.seq
  BY <1>1, <1>4 DEF RangeOK, Numbered
<1>10. r.msg.d # NoKey => \A q \in ns \cup np \cup {r} : q.dk # r.msg.d
  BY DEF ReplaceSent, Host
<1>11. RangeOK(s1, Sec, ns \cup {r}, np)
  BY <1>4, <1>5, <1>7, <1>8, <1>9, <1>10, PrimarySends
<1> QED  BY <1>3, <1>11 DEF RangeInv

\* A REPLACE_KEY the secondary can open: the two ends are in step.
LEMMA OpenedInStep ==
    ASSUME ExchangeInv, NEW p \in net["sec"], p.msg.type = "REPLACE_KEY", CtlOpens(Sec, p)
    PROVE  /\ InStep
           /\ \A q \in net["sec"] : q.msg.type # "REKEY"
           /\ \A q \in net["sec"] \ {p} : q.msg.type # "REPLACE_KEY"
           /\ \A q \in net["pri"] : q.msg.type # "REKEY"
<1>1. p.dk \in {Sec.ctx0.dd, Sec.ctx1.dd}  BY DEF CtlOpens, DataOpens, Slot
<1>2. ~Ahead /\ InStep
  BY <1>1 DEF ExchangeInv, ReplaceInv, Ahead, CtxOf
<1> QED  BY <1>2 DEF ExchangeInv, ReplaceInv, SwitchInv

\* A packet is taken.
LEMMA RangeConsumed ==
    ASSUME TypeOK, ExchangeInv, RangeInv,
           NEW h \in Host, NEW p \in net[h], NEW s1 \in Sessions, Consumed(h, p, s1)
    PROVE  RangeInv'
<1> USE Values
<1> DEFINE ns == net["sec"]
           np == net["pri"]
<1>1. RangeOK(Pri, Sec, ns, np)  BY DEF RangeInv
<1>2. Pri.sseq <= Pri.sseq /\ Sec.sseq <= Sec.sseq  BY SessionNat
<1>3. CASE h = "pri"
  <2>1. Pri' = s1 /\ Sec' = Sec /\ net'["sec"] = ns /\ net'["pri"] = np \ {p}
    BY <1>3 DEF Consumed, Taken, TypeOK, Host, Pri, Sec
  <2>2. Kept(s1, Pri) /\ Pri.sseq <= s1.sseq /\ s1.newkey = Pri.newkey
    BY <1>3 DEF Consumed, Pri
  <2>3. RangeOK(s1, Sec, ns, np \ {p})
    BY <1>1, <1>2, <2>2, RangeShrinks DEF Kept
  <2> QED  BY <2>1, <2>3 DEF RangeInv
<1>4. CASE h = "sec"
  <2>1. Pri' = Pri /\ Sec' = s1 /\ net'["sec"] = ns \ {p} /\ net'["pri"] = np
    BY <1>4 DEF Consumed, Taken, TypeOK, Host, Pri, Sec
  <2>2. Kept(s1, Sec) /\ Sec.sseq <= s1.sseq
    BY <1>4 DEF Consumed, Sec
  <2>3. \/ s1.sseq = Sec.sseq /\ s1.newkey = Sec.newkey
        \/ \A q \in ns \cup np : q.msg.type # "REKEY"
    BY <1>4, OpenedInStep DEF Consumed, Sec
  <2>4. RangeOK(Pri, s1, ns \ {p}, np)
    BY <1>1, <1>2, <2>2, <2>3, RangeShrinks DEF Kept
  <2> QED  BY <2>1, <2>4 DEF RangeInv
<1> QED  BY <1>3, <1>4 DEF Host

\* replace_key's answer.
LEMMA RangeAnswers ==
    ASSUME TypeOK, ExchangeInv, RangeInv,
           NEW p \in net["sec"], NEW s1 \in Sessions, NEW r \in Packet, Answers(p, s1, r)
    PROVE  RangeInv'
<1> USE Values
<1> DEFINE ns == net["sec"]
           np == net["pri"]
<1>1. RangeOK(Pri, Sec, ns, np)  BY DEF RangeInv
<1>2. /\ r.seq \in Nat /\ Sec.sseq \in Nat /\ Pri.sseq \in Nat
  BY PacketNat, SessionNat
<1>3. Pri' = Pri /\ Sec' = s1 /\ net'["sec"] = ns \ {p} /\ net'["pri"] = np \cup {r}
  BY DEF Answers, Taken, TypeOK, Host, Pri, Sec
<1>4. /\ Kept(s1, Sec) /\ r.msg.type = "REKEY" /\ r.dk = Sec.ctx1.de
      /\ r.seq = Sec.sseq /\ r.seq + 1 = s1.sseq /\ r.msg.num = s1.sseq
      /\ p.msg.type = "REPLACE_KEY" /\ r.msg.err = (NoKey \in {p.msg.d, p.msg.c})
  BY DEF Answers
<1>5. /\ InStep
      /\ \A q \in ns : q.msg.type # "REKEY"
      /\ \A q \in ns \ {p} : q.msg.type # "REPLACE_KEY"
      /\ \A q \in np : q.msg.type # "REKEY"
  BY OpenedInStep DEF Answers
<1>6. Sec.sseq <= s1.sseq /\ r.seq < s1.sseq /\ Pri.sseq <= Pri.sseq
  BY <1>2, <1>4
<1>7. RangeOK(Pri, s1, ns \ {p}, np)
  BY <1>1, <1>4, <1>5, <1>6, RangeShrinks DEF Kept
<1>8. r.dk = Pri.ctx1.dd /\ r.dk = Sec.ctx1.dd
  BY <1>4, <1>5 DEF ExchangeInv, InStep, ContextInv
<1>9. Pri.rID1 <= r.seq /\ \A q \in np : q.seq < r.seq
  BY <1>1, <1>4 DEF RangeOK, Numbered
<1>10. CASE r.msg.err
  <2>1. RangeOK(Pri, s1, ns \ {p}, np \cup {r})
    BY <1>5, <1>6, <1>7, <1>8, <1>9, <1>10, SecondarySends
  <2> QED  BY <1>3, <2>1 DEF RangeInv
<1>11. CASE ~r.msg.err
  <2>1. p.msg.d # NoKey /\ p.msg.d = Pri.newkey.d /\ p.msg.d # Sec.ctx1.dd
    BY <1>4, <1>11 DEF ExchangeInv, ReplaceInv
  <2>2. \A q \in ns \cup np : q.dk # p.msg.d
    BY <1>1, <1>4, <2>1 DEF RangeOK, Offered
  <2>3. \A q \in (ns \ {p}) \cup np \cup {r} : q.dk # Pri.newkey.d
    BY <1>8, <2>1, <2>2
  <2>4. RangeOK(Pri, s1, ns \ {p}, np \cup {r})
    BY <1>4, <1>5, <1>7, <1>8, <1>9, <2>3, SecondaryAnswers
  <2> QED  BY <1>3, <2>4 DEF RangeInv
<1> QED  BY <1>10, <1>11

\* What an answer without error says of the two ends.
LEMMA AnswerInStep ==
    ASSUME ExchangeInv, NEW p \in net["pri"], p.msg.type = "REKEY"
    PROVE  /\ InStep /\ Pri.rekey
           /\ ~p.msg.err => /\ Sec.newkey = Pri.newkey
                            /\ Pri.newkey.d \notin {Sec.ctx0.dd, Sec.ctx1.dd}
           /\ \A q \in net["pri"] \ {p} : q.msg.type # "REKEY"
           /\ \A q \in net["sec"] : q.msg.type \notin {"REKEY", "REPLACE_KEY"}
           /\ Pri.ctx1.de = Pri.ctx1.dd /\ Pri.ctx1.ce = Pri.ctx1.cd
BY DEF ExchangeInv, ReplaceInv, AnswerInv, SwitchInv, InStep, Ahead, CtxOf, ContextInv

\* rekey_session on the primary.
LEMMA RangePrimary ==
    ASSUME TypeOK, ExchangeInv, RangeInv,
           NEW p \in net["pri"], NEW s1 \in Sessions, NEW r \in Packet, PriSwitches(p, s1, r)
    PROVE  RangeInv'
<1> USE Values
<1> DEFINE ns == net["sec"]
           np == net["pri"]
<1>1. RangeOK(Pri, Sec, ns, np)  BY DEF RangeInv
<1>2. Pri' = s1 /\ Sec' = Sec /\ net'["sec"] = ns \cup {r} /\ net'["pri"] = np \ {p}
  BY DEF PriSwitches, Taken, TypeOK, Host, Pri, Sec
<1>3. /\ p.msg.type = "REKEY" /\ ~p.msg.err
      /\ s1.ctx0 = Pri.ctx1 /\ s1.ctx1.dd = Pri.newkey.d
      /\ s1.rID0 = Pri.rID1 /\ s1.rID1 = p.msg.num
      /\ r.msg.type = "REKEY" /\ r.dk = Pri.ctx1.de
      /\ r.seq = Pri.sseq /\ s1.sseq = Pri.sseq + 1 /\ r.msg.num = Pri.sseq + 1
  BY DEF PriSwitches, CtxOf
<1>4. Sec.ctx0.dd # Sec.ctx1.dd  BY DEF ExchangeInv, ContextInv
<1>5. Pri.ctx1 = Sec.ctx1 /\ r.dk = Pri.ctx1.dd
  BY <1>3, AnswerInStep DEF InStep
<1>6. RangeOK(s1, Sec, ns \cup {r}, np \ {p})
  BY <1>1, <1>3, <1>4, <1>5, AnswerInStep, PrimaryRange
<1> QED  BY <1>2, <1>6 DEF RangeInv

\* What the primary's answer says of the two ends.
LEMMA SwitchAhead ==
    ASSUME ExchangeInv, NEW p \in net["sec"], p.msg.type = "REKEY"
    PROVE  /\ Ahead /\ ~InStep
           /\ \A q \in net["pri"] : q.msg.type # "REKEY"
           /\ \A q \in net["sec"] \ {p} : q.msg.type # "REKEY"
BY DEF ExchangeInv, AnswerInv, SwitchInv, InStep, Ahead, CtxOf

\* rekey_session on the secondary.
LEMMA RangeSecondary ==
    ASSUME TypeOK, ExchangeInv, RangeInv,
           NEW p \in net["sec"], NEW s1 \in Sessions, SecSwitches(p, s1)
    PROVE  RangeInv'
<1> USE Values
<1> DEFINE ns == net["sec"]
           np == net["pri"]
<1>1. RangeOK(Pri, Sec, ns, np)  BY DEF RangeInv
<1>2. Pri' = Pri /\ Sec' = s1 /\ net'["sec"] = ns \ {p} /\ net'["pri"] = np
  BY DEF SecSwitches, Taken, TypeOK, Host, Pri, Sec
<1>3. /\ p.msg.type = "REKEY"
      /\ s1.ctx0 = Sec.ctx1 /\ s1.ctx1.dd = Sec.newkey.d /\ s1.sseq = Sec.sseq
      /\ s1.rID0 = Sec.rID1 /\ s1.rID1 = p.msg.num
  BY DEF SecSwitches, CtxOf
<1>4. RangeOK(Pri, s1, ns \ {p}, np)
  BY <1>1, <1>3, SwitchAhead, SecondaryRange
<1> QED  BY <1>2, <1>4 DEF RangeInv

\* A copy of a data packet.
LEMMA RangeCopy ==
    ASSUME TypeOK, RangeInv, NEW h \in Host, NEW p \in net[h], NEW r \in Packet, Copied(h, p, r)
    PROVE  RangeInv'
<1> USE Values
<1>1. p \in Packet  BY DEF TypeOK
<1>2. CASE h = "sec"
  <2>1. /\ Pri' = Pri /\ Sec' = Sec
        /\ net'["sec"] = net["sec"] \cup {r} /\ net'["pri"] = net["pri"]
    BY <1>2 DEF Copied, TypeOK, Host, Pri, Sec
  <2>2. RangeOK(Pri, Sec, net["sec"] \cup {r}, net["pri"])
    BY <1>1, <1>2, RangeCopies DEF Copied, RangeInv
  <2> QED  BY <2>1, <2>2 DEF RangeInv
<1>3. CASE h = "pri"
  <2>1. /\ Pri' = Pri /\ Sec' = Sec
        /\ net'["pri"] = net["pri"] \cup {r} /\ net'["sec"] = net["sec"]
    BY <1>3 DEF Copied, TypeOK, Host, Pri, Sec
  <2>2. RangeOK(Pri, Sec, net["sec"], net["pri"] \cup {r})
    BY <1>1, <1>3, RangeCopies DEF Copied, RangeInv
  <2> QED  BY <2>1, <2>2 DEF RangeInv
<1> QED  BY <1>2, <1>3 DEF Host

\* At first nothing is on its way.
LEMMA RangeInit == Init => RangeInv
<1> SUFFICES ASSUME Init PROVE RangeInv
  OBVIOUS
<1>1. /\ Pri = InitSession /\ Sec = InitSession
      /\ net["sec"] = {} /\ net["pri"] = {}
  BY DEF Init, Pri, Sec, Host
<1>2. /\ InitSession.ctx0.dd # InitSession.ctx1.dd
      /\ InitSession.rID1 = 0 /\ InitSession.sseq = 1
  BY KeyAssumption DEF InitSession, NoContexts, CtxOf
<1> QED  BY <1>1, <1>2 DEF RangeInv, RangeOK, Numbered, Ranged, Offered, AnswerLast, AnswerParts

\* Every step keeps the ranges.
LEMMA RangeStep ==
    ASSUME Benign, TypeOK, Low, ExchangeInv, RangeInv, [Next]_vars PROVE RangeInv'
<1>1. CASE sess' = sess /\ net' = net
  BY <1>1 DEF RangeInv, Pri, Sec
<1> QED
  BY <1>1, Steps, RangeData, RangeReplace, RangeConsumed, RangeAnswers, RangePrimary,
     RangeSecondary, RangeCopy

(* Every packet whose key its receiver still holds, as the present or the  *)
(* previous one, is in the range of numbers that selects it.               *)
THEOREM RangeInvariance == ASSUME Benign PROVE Spec /\ []Low => []RangeInv
<1>1. TypeOK /\ Low /\ ExchangeInv /\ RangeInv /\ [Next]_vars => RangeInv'
  BY RangeStep
<1> QED  BY <1>1, RangeInit, TypeCorrect, ExchangeInvariance, PTL DEF Spec

(* Until the number wraps, packet_handler opens a packet that was lost     *)
(* sight of for however long, as long as the receiver keeps its key: rID0  *)
(* and rID1 separate the two generations.                                  *)
THEOREM LateOpensThm == ASSUME Benign PROVE Spec /\ []Low => []LateOpens
BY RangeInvariance, TypeCorrect, RangeOpens, PTL

-----------------------------------------------------------------------------
(* Packets in order                                                        *)

\* A difference below the modulus.
LEMMA SmallDiff ==
    ASSUME NEW a \in Nat, NEW b \in Nat, b <= a, a < SeqMod
    PROVE  (a - b) % SeqMod = a - b
<1>1. a - b \in Nat /\ a - b < SeqMod /\ SeqMod \in Nat \ {0}  BY SeqAssumption
<1> DEFINE d == a - b
<1>2. d \in Nat /\ d < SeqMod  BY <1>1
<1> HIDE DEF d
<1>3. d % SeqMod = d  BY <1>1, <1>2
<1> QED  BY <1>3 DEF d

\* Before a wrap, the older packet has the smaller number.
LEMMA OlderIsLower ==
    ASSUME TypeOK, RangeInv, NEW h \in Host, NEW p \in net[h], NEW q \in net[h],
           Age(h, q) <= Age(h, p)
    PROVE  p.seq <= q.seq
<1>1. Numbered(sess[h], sess[Peer(h)], net[h])
  BY DEF RangeInv, RangeOK, Pri, Sec, Host, Peer
<1>2. sess[Peer(h)] \in Sessions /\ p \in Packet /\ q \in Packet
  BY DEF TypeOK, Host, Peer
<1>3. PICK n \in Nat : n = sess[Peer(h)].sseq /\ n < SeqMod
  BY <1>2, SeqNat DEF Sessions
<1>4. PICK a \in Nat : a = p.seq  BY <1>2, PacketNat
<1>5. PICK b \in Nat : b = q.seq  BY <1>2, PacketNat
<1>6. a < n /\ b < n  BY <1>1, <1>3, <1>4, <1>5 DEF Numbered
<1>7. Age(h, p) = n - a /\ Age(h, q) = n - b
  BY <1>3, <1>4, <1>5, <1>6, SmallDiff DEF Age
<1> QED  BY <1>4, <1>5, <1>6, <1>7

\* A packet sealed with the receiver's present keys is opened.
LEMMA SealedOpens ==
    ASSUME TypeOK, RangeInv, NEW h \in Host, NEW p \in net[h], SealedBy(p, sess[h].ctx1)
    PROVE  Opens(h, p) /\ (p.msg.type # "DATA" => CtlOpens(sess[h], p))
<1>1. Ranged(sess[h], net[h])
  BY DEF RangeInv, RangeOK, Host, Pri, Sec
<1>2. sess[h].rID1 <= p.seq  BY <1>1 DEF Ranged, SealedBy
<1> QED  BY <1>2 DEF SealedBy, Opens, CtlOpens, DataOpens, Slot, InNewRange

\* The step changes the sessions, so it has taken an oldest packet.
LEMMA TookOldest ==
    ASSUME TypeOK, RangeInv, KeepsOrder, NEW p \in net["pri"], sess' # sess,
           p \notin net'["pri"]
    PROVE  \A q \in net["pri"] : p.seq <= q.seq
<1>1. p \in Oldest("pri")  BY DEF KeepsOrder, Host
<1> QED  BY <1>1, OlderIsLower DEF Oldest, Host

\* Every step that keeps the order keeps what is sealed for the primary.
LEMMA PriOrderStep ==
    ASSUME Benign, TypeOK, Low, ExchangeInv, RangeInv, [Next]_vars, KeepsOrder,
           PriOK(Pri, Sec, net["pri"])
    PROVE  PriOK(Pri, Sec, net["pri"])'
<1> USE Values
<1> DEFINE np == net["pri"]
<1>1. CASE sess' = sess /\ net' = net
  BY <1>1 DEF Pri, Sec
<1>2. ASSUME NEW h \in Host, NEW s1 \in Sessions, NEW r \in Packet, DataSent(h, s1, r)
      PROVE  PriOK(Pri, Sec, net["pri"])'
  <2>1. CASE h = "pri"
    <3>1. Pri' = s1 /\ Sec' = Sec /\ net'["pri"] = np /\ s1.ctx1 = Pri.ctx1
      BY <1>2, <2>1 DEF DataSent, Kept, TypeOK, Host, Pri, Sec, Peer
    <3> QED  BY <3>1 DEF PriOK
  <2>2. CASE h = "sec"
    <3>1. Pri' = Pri /\ Sec' = s1 /\ net'["pri"] = np \cup {r} /\ s1.ctx1 = Sec.ctx1
      BY <1>2, <2>2 DEF DataSent, Kept, TypeOK, Host, Pri, Sec, Peer
    <3>2. ~Sec.rekey /\ r.dk = Sec.ctx1.de /\ r.msg.type = "DATA"
      BY <1>2, <2>2 DEF DataSent, Sec
    <3>3. InStep /\ r.dk = Pri.ctx1.dd
      BY <3>2 DEF ExchangeInv, InStep, Ahead, ContextInv
    <3> QED  BY <3>1, <3>2, <3>3 DEF PriOK, InStep, SealedBy
  <2> QED  BY <2>1, <2>2 DEF Host
<1>3. ASSUME NEW s1 \in Sessions, NEW r \in Packet, ReplaceSent(s1, r)
      PROVE  PriOK(Pri, Sec, net["pri"])'
  <2>1. Pri' = s1 /\ Sec' = Sec /\ net'["pri"] = np /\ s1.ctx1 = Pri.ctx1
    BY <1>3 DEF ReplaceSent, Kept, TypeOK, Host, Pri, Sec
  <2> QED  BY <2>1 DEF PriOK
<1>4. ASSUME NEW h \in Host, NEW p \in net[h], NEW s1 \in Sessions, Consumed(h, p, s1)
      PROVE  PriOK(Pri, Sec, net["pri"])'
  <2>1. /\ Pri'.ctx1 = Pri.ctx1 /\ Sec'.ctx1 = Sec.ctx1
        /\ net'["pri"] \subseteq np
    BY <1>4 DEF Consumed, Kept, Taken, TypeOK, Host, Pri, Sec
  <2> QED  BY <2>1 DEF PriOK
<1>5. ASSUME NEW p \in net["sec"], NEW s1 \in Sessions, NEW r \in Packet, Answers(p, s1, r)
      PROVE  PriOK(Pri, Sec, net["pri"])'
  <2>1. Pri' = Pri /\ Sec' = s1 /\ net'["pri"] = np \cup {r} /\ s1.ctx1 = Sec.ctx1
    BY <1>5 DEF Answers, Kept, Taken, TypeOK, Host, Pri, Sec
  <2>2. InStep /\ r.dk = Sec.ctx1.de /\ r.ck = Sec.ctx1.ce
    BY <1>5, OpenedInStep DEF Answers
  <2>3. SealedBy(r, Pri.ctx1)
    BY <2>2 DEF ExchangeInv, InStep, ContextInv, SealedBy
  <2> QED  BY <2>1, <2>2, <2>3 DEF PriOK, InStep
<1>6. ASSUME NEW p \in net["pri"], NEW s1 \in Sessions, NEW r \in Packet, PriSwitches(p, s1, r)
      PROVE  PriOK(Pri, Sec, net["pri"])'
  <2>1. net'["pri"] = np \ {p} /\ Pri' = s1
    BY <1>6 DEF PriSwitches, Taken, TypeOK, Host, Pri
  <2>2. p.msg.type = "REKEY" /\ ~p.msg.err /\ ~s1.rekey  BY <1>6 DEF PriSwitches
  <2>3. sess' # sess  BY <2>1, <2>2, AnswerInStep DEF Pri
  <2>4. \A q \in np : p.seq <= q.seq
    BY <2>1, <2>3, TookOldest
  <2>5. PICK n \in Nat : n = Sec.sseq  BY SessionNat
  <2>6. /\ p.seq + 1 = n /\ \A q \in np : q.seq = p.seq => q = p
        /\ \A q \in np : q.seq < n
    BY <2>2, <2>5 DEF RangeInv, RangeOK, AnswerLast, Numbered
  <2>7. \A q \in np : q = p
    <3> SUFFICES ASSUME NEW q \in np PROVE q.seq = p.seq
      BY <2>6
    <3>1. q.seq \in Nat /\ p.seq \in Nat  BY PacketNat
    <3>2. p.seq <= q.seq /\ q.seq < n /\ p.seq + 1 = n  BY <2>4, <2>6
    <3> QED  BY <3>1, <3>2
  <2>8. net'["pri"] = {}  BY <2>1, <2>7
  <2> QED  BY <2>8 DEF PriOK
<1>7. ASSUME NEW p \in net["sec"], NEW s1 \in Sessions, SecSwitches(p, s1)
      PROVE  PriOK(Pri, Sec, net["pri"])'
  <2>1. net'["pri"] = np  BY <1>7 DEF SecSwitches, Taken, TypeOK, Host
  <2>2. ~InStep  BY <1>7, SwitchAhead DEF SecSwitches
  <2>3. np = {}  BY <2>2 DEF PriOK, InStep
  <2> QED  BY <2>1, <2>3 DEF PriOK
<1>8. ASSUME NEW h \in Host, NEW p \in net[h], NEW r \in Packet, Copied(h, p, r)
      PROVE  PriOK(Pri, Sec, net["pri"])'
  <2>1. Pri' = Pri /\ Sec' = Sec  BY <1>8 DEF Copied, Pri, Sec
  <2>2. \A q \in net'["pri"] : q \in np \/ (p \in np /\ q = r)
    BY <1>8 DEF Copied, TypeOK, Host
  <2>3. r.msg = p.msg /\ r.dk = p.dk /\ p.msg.type = "DATA"  BY <1>8 DEF Copied
  <2>4. \A q \in net'["pri"] : SealedBy(q, Pri.ctx1)
    BY <2>2, <2>3 DEF PriOK, SealedBy
  <2>5. Pri.ctx1 # Sec.ctx1 => net'["pri"] = {}
    BY <2>2 DEF PriOK
  <2> QED  BY <2>1, <2>4, <2>5 DEF PriOK
<1> QED
  BY <1>1, <1>2, <1>3, <1>4, <1>5, <1>6, <1>7, <1>8, Steps

\* A behaviour with the history variable is one of the session.
LEMMA HistorySpec == MCSpec => Spec
<1>1. MCInit => Init  BY DEF MCInit
<1>2. [MCNext]_<<vars, inorder>> => [Next]_vars  BY DEF MCNext
<1> QED  BY <1>1, <1>2, PTL DEF MCSpec, Spec

(* Until the number wraps, whatever reaches the primary in order is opened *)
(* by packet_handler, data and control messages, whichever messages were   *)
(* lost or could not be sent.                                              *)
THEOREM PrimaryOpensInOrderThm ==
    ASSUME Benign PROVE MCSpec /\ []Low => []PrimaryOpensInOrder
<1>1. MCInit => PriOrder
  BY DEF MCInit, Init, PriOrder, PriOK, Host, InitSession, Pri, Sec
<1>2. ASSUME TypeOK, Low, ExchangeInv, RangeInv, PriOrder, [MCNext]_<<vars, inorder>>
      PROVE  PriOrder'
  <2>1. CASE UNCHANGED <<vars, inorder>>
    <3>1. Pri' = Pri /\ Sec' = Sec /\ net' = net /\ inorder' = inorder
      BY <2>1 DEF vars, Pri, Sec
    <3> QED  BY <1>2, <3>1 DEF PriOrder
  <2>2. CASE MCNext
    <3> SUFFICES ASSUME inorder' PROVE PriOK(Pri, Sec, net["pri"])'
      BY DEF PriOrder
    <3>1. inorder /\ KeepsOrder /\ Next  BY <2>2 DEF MCNext
    <3> QED  BY <1>2, <3>1, PriOrderStep DEF PriOrder
  <2> QED  BY <1>2, <2>1, <2>2
<1>3. TypeOK /\ RangeInv /\ PriOrder => PrimaryOpensInOrder
  <2> SUFFICES ASSUME TypeOK, RangeInv, PriOrder, inorder, NEW p \in Oldest("pri")
               PROVE  Opens("pri", p)
    BY DEF PrimaryOpensInOrder
  <2>1. p \in net["pri"] /\ SealedBy(p, sess["pri"].ctx1)
    BY DEF PriOrder, PriOK, Oldest, Pri
  <2> QED  BY <2>1, SealedOpens DEF Host
<1>4. MCSpec /\ []Low => []PriOrder
  BY <1>1, <1>2, HistorySpec, TypeCorrect, ExchangeInvariance, RangeInvariance, PTL DEF MCSpec
<1> QED  BY <1>3, <1>4, HistorySpec, TypeCorrect, RangeInvariance, PTL

\* A network that keeps the order delivers the lowest number first.
LEMMA OldestArrives ==
    ASSUME Env \cap {"lose", "reorder"} = {}, TypeOK, RangeInv, NEW p \in Arriving("sec")
    PROVE  \A q \in net["sec"] : p.seq <= q.seq
<1>1. p \in net["sec"] /\ \A q \in net["sec"] :
        Age("sec", q) < Age("sec", p) \/ Age("sec", q) = Age("sec", p)
  BY DEF Arriving
<1>2. \A q \in net["sec"] : Age("sec", q) \in Int
  <2> SUFFICES ASSUME NEW q \in net["sec"] PROVE Age("sec", q) \in Int
    OBVIOUS
  <2>1. Pri.sseq \in Nat /\ q.seq \in Nat  BY Values, SessionNat, PacketNat
  <2>2. Age("sec", q) = (Pri.sseq - q.seq) % SeqMod  BY DEF Age, Peer, Pri
  <2> QED  BY <2>1, <2>2, SeqAssumption
<1>3. \A q \in net["sec"] : Age("sec", q) <= Age("sec", p)
  BY <1>1, <1>2
<1> QED  BY <1>1, <1>3, OlderIsLower DEF Host

\* Every step of a network that delivers in order and loses no control
\* message keeps what is sealed for the secondary.
LEMMA SecOrderStep ==
    ASSUME Benign, Env \cap {"lose", "reorder"} = {},
           TypeOK, Low, ExchangeInv, RangeInv, [Next]_vars, SecOrder
    PROVE  SecOrder'
<1> USE Values
<1> DEFINE ns == net["sec"]
<1>0. SecOK(Pri, Sec, ns)  BY DEF SecOrder
<1>1. CASE sess' = sess /\ net' = net
  BY <1>1 DEF SecOrder, Pri, Sec
<1>2. ASSUME NEW s1 \in Sessions, NEW r \in Packet,
             Pri' = s1, Sec' = Sec, net'["sec"] = ns \cup {r}, s1.ctx1 = Pri.ctx1,
             r.dk = Pri.ctx1.de, r.msg.type # "DATA" => r.ck = Pri.ctx1.ce,
             Pri.sseq <= r.seq
      PROVE  SecOrder'
  <2>1. CASE InStep
    <3>1. SealedBy(r, Sec.ctx1)
      BY <1>2, <2>1 DEF ExchangeInv, InStep, ContextInv, SealedBy
    <3>2. SecOK(s1, Sec, ns \cup {r})
      BY <1>0, <1>2, <2>1, <3>1 DEF SecOK, InStep
    <3> QED  BY <1>2, <3>2 DEF SecOrder
  <2>2. CASE ~InStep
    <3>1. PICK q \in ns :
            /\ q.msg.type = "REKEY"
            /\ \A p \in ns : SealedBy(p, IF p.seq <= q.seq THEN Sec.ctx1 ELSE CtxOf(Sec.newkey))
      BY <1>0, <2>2 DEF SecOK, InStep
    <3>2. SealedBy(r, CtxOf(Sec.newkey))
      BY <1>2, <2>2 DEF ExchangeInv, Ahead, CtxOf, SealedBy
    <3>3. ~(r.seq <= q.seq)
      <4>1. q.seq < Pri.sseq  BY DEF RangeInv, RangeOK, Numbered
      <4> QED  BY <1>2, <4>1, PacketNat, SessionNat
    <3>4. SecOK(s1, Sec, ns \cup {r})
      BY <1>2, <2>2, <3>1, <3>2, <3>3 DEF SecOK, InStep
    <3> QED  BY <1>2, <3>4 DEF SecOrder
  <2> QED  BY <2>1, <2>2
<1>3. ASSUME NEW h \in Host, NEW s1 \in Sessions, NEW r \in Packet, DataSent(h, s1, r)
      PROVE  SecOrder'
  <2>1. CASE h = "pri"
    <3>1. /\ Pri' = s1 /\ Sec' = Sec /\ net'["sec"] = ns \cup {r} /\ s1.ctx1 = Pri.ctx1
      BY <1>3, <2>1 DEF DataSent, Kept, TypeOK, Host, Pri, Sec, Peer
    <3>2. r.dk = Pri.ctx1.de /\ r.msg.type = "DATA" /\ Pri.sseq <= r.seq
      BY <1>3, <2>1 DEF DataSent, Pri
    <3> QED  BY <1>2, <3>1, <3>2
  <2>2. CASE h = "sec"
    <3>1. /\ Pri' = Pri /\ Sec' = s1 /\ net'["sec"] = ns
          /\ s1.ctx1 = Sec.ctx1 /\ s1.newkey = Sec.newkey
      BY <1>3, <2>2 DEF DataSent, Kept, TypeOK, Host, Pri, Sec, Peer
    <3>2. SecOK(Pri, s1, ns)  BY <1>0, <3>1 DEF SecOK
    <3> QED  BY <3>1, <3>2 DEF SecOrder
  <2> QED  BY <2>1, <2>2 DEF Host
<1>4. ASSUME NEW s1 \in Sessions, NEW r \in Packet, ReplaceSent(s1, r) PROVE SecOrder'
  <2>1. /\ Pri' = s1 /\ Sec' = Sec /\ net'["sec"] = ns \cup {r} /\ s1.ctx1 = Pri.ctx1
    BY <1>4 DEF ReplaceSent, Kept, TypeOK, Host, Pri, Sec
  <2>2. r.dk = Pri.ctx1.de /\ r.ck = Pri.ctx1.ce /\ Pri.sseq <= r.seq
    BY <1>4, SessionNat DEF ReplaceSent
  <2> QED  BY <1>2, <2>1, <2>2
<1>5. ASSUME NEW h \in Host, NEW p \in net[h], NEW s1 \in Sessions,
             Consumed(h, p, s1), Reason(h, p)
      PROVE  SecOrder'
  <2>1. CASE h = "pri"
    <3>1. Pri' = s1 /\ Sec' = Sec /\ net'["sec"] = ns /\ s1.ctx1 = Pri.ctx1
      BY <1>5, <2>1 DEF Consumed, Kept, Taken, TypeOK, Host, Pri, Sec
    <3>2. SecOK(s1, Sec, ns)  BY <1>0, <3>1 DEF SecOK
    <3> QED  BY <3>1, <3>2 DEF SecOrder
  <2>2. CASE h = "sec"
    <3>1. Pri' = Pri /\ Sec' = s1 /\ net'["sec"] = ns \ {p} /\ s1.ctx1 = Sec.ctx1
      BY <1>5, <2>2 DEF Consumed, Kept, Taken, TypeOK, Host, Pri, Sec
    <3>2. CASE InStep
      <4>1. SecOK(Pri, s1, ns \ {p})  BY <1>0, <3>1, <3>2 DEF SecOK, InStep
      <4> QED  BY <3>1, <4>1 DEF SecOrder
    <3>3. CASE ~InStep
      <4>1. s1.newkey = Sec.newkey
        BY <1>5, <2>2, <3>3, OpenedInStep DEF Consumed, Sec
      <4>2. PICK q \in ns :
              /\ q.msg.type = "REKEY"
              /\ \A t \in ns : SealedBy(t, IF t.seq <= q.seq THEN Sec.ctx1 ELSE CtxOf(Sec.newkey))
        BY <1>0, <3>3 DEF SecOK, InStep
      <4>3. q # p
        <5>1. SealedBy(q, Sec.ctx1)  BY <4>2 DEF ExchangeInv, SwitchInv, SealedBy
        <5>2. CtlOpens(Sec, q)  BY <4>2, <5>1, SealedOpens DEF Host, Sec
        <5> QED  BY <1>5, <2>2, <4>2, <5>2 DEF Reason, Sec
      <4>4. SecOK(Pri, s1, ns \ {p})
        BY <3>1, <3>3, <4>1, <4>2, <4>3 DEF SecOK, InStep
      <4> QED  BY <3>1, <4>4 DEF SecOrder
    <3> QED  BY <3>2, <3>3
  <2> QED  BY <2>1, <2>2 DEF Host
<1>6. ASSUME NEW p \in net["sec"], NEW s1 \in Sessions, NEW r \in Packet, Answers(p, s1, r)
      PROVE  SecOrder'
  <2>1. Pri' = Pri /\ Sec' = s1 /\ net'["sec"] = ns \ {p} /\ s1.ctx1 = Sec.ctx1
    BY <1>6 DEF Answers, Kept, Taken, TypeOK, Host, Pri, Sec
  <2>2. InStep  BY <1>6, OpenedInStep DEF Answers
  <2>3. SecOK(Pri, s1, ns \ {p})  BY <1>0, <2>1, <2>2 DEF SecOK, InStep
  <2> QED  BY <2>1, <2>3 DEF SecOrder
<1>7. ASSUME NEW p \in net["pri"], NEW s1 \in Sessions, NEW r \in Packet, PriSwitches(p, s1, r)
      PROVE  SecOrder'
  <2>1. Pri' = s1 /\ Sec' = Sec /\ net'["sec"] = ns \cup {r}
    BY <1>7 DEF PriSwitches, Taken, TypeOK, Host, Pri, Sec
  <2>2. /\ p.msg.type = "REKEY" /\ ~p.msg.err /\ s1.ctx1 = CtxOf(Pri.newkey)
        /\ r.msg.type = "REKEY" /\ r.dk = Pri.ctx1.de /\ r.ck = Pri.ctx1.ce
        /\ r.seq = Pri.sseq
    BY <1>7 DEF PriSwitches
  <2>3. InStep /\ s1.ctx1 # Sec.ctx1
    BY <2>2, AnswerInStep DEF CtxOf
  <2>4. SealedBy(r, Sec.ctx1)
    BY <2>2, <2>3, AnswerInStep DEF InStep, SealedBy
  <2>5. \A q \in ns \cup {r} : q.seq <= r.seq
    BY <2>2, PacketNat, SessionNat DEF RangeInv, RangeOK, Numbered
  <2>6. SecOK(s1, Sec, ns \cup {r})
    BY <1>0, <2>2, <2>3, <2>4, <2>5 DEF SecOK, InStep
  <2> QED  BY <2>1, <2>6 DEF SecOrder
<1>8. ASSUME NEW p \in net["sec"], NEW s1 \in Sessions, SecSwitches(p, s1),
             p \in Arriving("sec")
      PROVE  SecOrder'
  <2>1. Pri' = Pri /\ Sec' = s1 /\ net'["sec"] = ns \ {p}
    BY <1>8 DEF SecSwitches, Taken, TypeOK, Host, Pri, Sec
  <2>2. p.msg.type = "REKEY" /\ s1.ctx1 = CtxOf(Sec.newkey)  BY <1>8 DEF SecSwitches
  <2>3. Ahead /\ ~InStep /\ \A q \in ns \ {p} : q.msg.type # "REKEY"
    BY <2>2, SwitchAhead
  <2>4. \A t \in ns : SealedBy(t, IF t.seq <= p.seq THEN Sec.ctx1 ELSE CtxOf(Sec.newkey))
    BY <1>0, <2>3 DEF SecOK, InStep
  <2>5. \A t \in ns : p.seq <= t.seq
    BY <1>8, OldestArrives
  <2>6. \A t \in ns : t.seq = p.seq => t = p
    BY <2>2 DEF RangeInv, RangeOK, AnswerParts
  <2>7. \A t \in ns \ {p} : ~(t.seq <= p.seq)
    BY <2>5, <2>6, PacketNat
  <2>8. SecOK(Pri, s1, ns \ {p})
    BY <2>2, <2>3, <2>4, <2>7 DEF SecOK, Ahead
  <2> QED  BY <2>1, <2>8 DEF SecOrder
<1>9. ASSUME NEW h \in Host, NEW p \in net[h], NEW r \in Packet, Copied(h, p, r)
      PROVE  SecOrder'
  <2>1. Pri' = Pri /\ Sec' = Sec  BY <1>9 DEF Copied, Pri, Sec
  <2>2. r.msg = p.msg /\ r.dk = p.dk /\ p.msg.type = "DATA" /\ r.seq = p.seq
    BY <1>9 DEF Copied
  <2>3. CASE h = "pri"
    <3>1. net'["sec"] = ns  BY <1>9, <2>3 DEF Copied, TypeOK, Host
    <3> QED  BY <1>0, <2>1, <3>1 DEF SecOrder
  <2>4. CASE h = "sec"
    <3>1. net'["sec"] = ns \cup {r}  BY <1>9, <2>4 DEF Copied, TypeOK, Host
    <3>2. \A c : SealedBy(p, c) => SealedBy(r, c)  BY <2>2 DEF SealedBy
    <3>3. SecOK(Pri, Sec, ns \cup {r})
      BY <1>0, <2>2, <2>4, <3>2 DEF SecOK
    <3> QED  BY <2>1, <3>1, <3>3 DEF SecOrder
  <2> QED  BY <2>3, <2>4 DEF Host
<1> QED
  BY <1>1, <1>3, <1>4, <1>5, <1>6, <1>7, <1>8, <1>9, Steps

(* Until the number wraps, whatever reaches the secondary in order is      *)
(* opened by packet_handler, data and control messages, if no control      *)
(* message is lost: a lost REKEY leaves the secondary a key behind.        *)
THEOREM SecondaryOpensThm ==
    ASSUME Benign, Env \cap {"lose", "reorder"} = {}
    PROVE  Spec /\ []Low => []SecondaryOpens
<1>1. Init => SecOrder
  BY DEF Init, SecOrder, SecOK, Host, Pri, Sec
<1>2. TypeOK /\ Low /\ ExchangeInv /\ RangeInv /\ SecOrder /\ [Next]_vars => SecOrder'
  BY SecOrderStep
<1>3. TypeOK /\ RangeInv /\ SecOrder => SecondaryOpens
  <2> SUFFICES ASSUME TypeOK, RangeInv, SecOrder, NEW p \in Arriving("sec")
               PROVE  Opens("sec", p)
    BY DEF SecondaryOpens
  <2>1. p \in net["sec"]  BY ArrivingInNet DEF Host
  <2>2. \A q \in net["sec"] : p.seq <= q.seq  BY OldestArrives
  <2>3. SealedBy(p, sess["sec"].ctx1)
    BY <2>1, <2>2 DEF SecOrder, SecOK, Sec
  <2> QED  BY <2>1, <2>3, SealedOpens DEF Host
<1>4. Spec /\ []Low => []SecOrder
  BY <1>1, <1>2, TypeCorrect, ExchangeInvariance, RangeInvariance, PTL DEF Spec
<1> QED  BY <1>3, <1>4, TypeCorrect, RangeInvariance, PTL
=============================================================================
