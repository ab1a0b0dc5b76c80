----------------------------- MODULE P3SessionSMP -----------------------------
(***************************************************************************)
(* The session of P3Session with its handlers split into the steps that    *)
(* the CPUs of a gateway interleave.  packet_handler runs in the netfilter *)
(* hooks: in a softirq of each CPU for received and forwarded packets, and *)
(* in process context for packets the gateway itself sends, where a        *)
(* softirq of the same CPU can interrupt it at any point (spin_lock does   *)
(* not mask softirqs).                                                     *)
(*                                                                         *)
(* A step reads or writes the session at one point; what lies between two  *)
(* p3lock and p3unlock calls is one step that ends with the lock held.     *)
(* With one softirq per gateway the handlers are the atomic actions of     *)
(* P3Session: that is ImplementsSession.                                   *)
(***************************************************************************)
EXTENDS P3Session, Sequences

CONSTANT
    Thread  \* the contexts packet_handler runs in: <<host, CPU, "soft"/"proc">>

ASSUME ThreadAssumption == Thread \subseteq Host \X Nat \X {"soft", "proc"}

VARIABLES
    thr,   \* thr[t]: where t is in packet_handler, and its local variables
    slock  \* slock[h]: the thread that holds the session lock of host h

smpVars == <<sess, net, used, thr, slock>>

HostOf(t) == t[1]
CpuOf(t) == t[2]
IsSoftirq(t) == t[3] = "soft"
NoThread == <<>>

NoPacket == [seq |-> 0, dk |-> NoKey, ck |-> NoKey, msg |-> DataMsg, copy |-> FALSE]

(* pc: the next step; job: what a control message is sent for; pkt: the    *)
(* received packet; new: the generation of keys chosen for it; out: the    *)
(* packet being built; iv: the number the control message was encrypted    *)
(* with; sent: whether a packet has left.  was is a history variable, the  *)
(* session when the handler began.                                         *)
Idle == [pc |-> "idle", job |-> "none", pkt |-> NoPacket, new |-> TRUE,
         out |-> NoPacket, iv |-> 0, sent |-> FALSE,
         was |-> [sess |-> InitSession, used |-> 0]]

Begin(h, pc) ==
    [Idle EXCEPT !.pc = pc, !.was = [sess |-> sess[h], used |-> used[h]]]

-----------------------------------------------------------------------------
(* Threads and the session lock                                            *)

Active(t) == thr[t].pc # "idle" \/ slock[HostOf(t)] = t

Interrupted(t) ==
    /\ ~IsSoftirq(t)
    /\ \E u \in Thread : /\ HostOf(u) = HostOf(t) /\ CpuOf(u) = CpuOf(t)
                         /\ IsSoftirq(u) /\ Active(u)

At(t, pc) == thr[t].pc = pc /\ slock[HostOf(t)] # t /\ ~Interrupted(t)

Goto(t, pc) == thr' = [thr EXCEPT ![t].pc = pc]

Return(t) == thr' = [thr EXCEPT ![t] = Idle]

\* p3lock spins until the lock is free.
p3lock(t) ==
    /\ slock[HostOf(t)] = NoThread
    /\ slock' = [slock EXCEPT ![HostOf(t)] = t]

\* Mutant: the lock is not released before an early return.
p3unlockNotOnReturn(t) ==
    /\ slock[HostOf(t)] = t
    /\ thr[t].pc # "idle"
    /\ ~Interrupted(t)
    /\ slock' = [slock EXCEPT ![HostOf(t)] = NoThread]
    /\ UNCHANGED <<sess, net, used, thr>>

p3unlock(t) ==
    /\ slock[HostOf(t)] = t
    /\ ~Interrupted(t)
    /\ slock' = [slock EXCEPT ![HostOf(t)] = NoThread]
    /\ UNCHANGED <<sess, net, used, thr>>

SetRekey(h, flag) == sess' = [sess EXCEPT ![h].rekey = flag]

-----------------------------------------------------------------------------
(* Sending a data packet                                                   *)

\* The bound on the packets in flight, with those the peer is handling.
RoomInHands(h) ==
    /\ Room(h)
    /\ Cardinality(net[Peer(h)])
         + Cardinality({t \in Thread : HostOf(t) = Peer(h) /\ thr[t].pkt # NoPacket})
       < MaxNet

\* p3_lookup reads the sequence number and the Rekey flag without the lock.
Lookup(t) ==
    LET h == HostOf(t)
    IN  /\ At(t, "idle")
        /\ RoomInHands(h)
        /\ thr' = [thr EXCEPT ![t] =
                     Begin(h, IF h = "pri" /\ RekeyDue(sess[h])
                              THEN "build" ELSE "take")]
        /\ UNCHANGED <<sess, net, used, slock>>

PacketKeys(p) == {p.dk, p.ck, p.msg.d, p.msg.c}
SessionKeys(s) == {s.newkey.d, s.newkey.c} \cup CtxKeys(s.ctx0) \cup CtxKeys(s.ctx1)

\* Every key in the session, in flight or in a handler's hands, and those its
\* session had when it began: a key that was seen in any of these is not new.
HeldKeys ==
    LiveKeys \cup UNION { PacketKeys(thr[t].pkt) \cup PacketKeys(thr[t].out)
                             \cup (IF thr[t].pc = "idle" THEN {}
                                   ELSE SessionKeys(thr[t].was.sess)) : t \in Thread }

\* build_newkey_message fills the new key fields, without the lock; or fails,
\* and start_rekeying returns.
BuildNewKeys(t) ==
    LET s == sess["pri"]
    IN  /\ At(t, "build")
        /\ \E fresh \in Key \ HeldKeys, didx, cidx \in UseIndex :
           \E dk \in GetKey(s.newkey.d, fresh), ck \in GetKey(s.newkey.c, fresh) :
             /\ sess' = [sess EXCEPT !["pri"] = NewKeys(s, dk, ck, didx, cidx)]
             /\ \/ thr' = [thr EXCEPT ![t].pc = "setrekey", ![t].job = "start",
                              ![t].out.msg = NewKeyMsg(dk, ck, didx, cidx)]
                \/ "sendfail" \in Env /\ Goto(t, "take")
        /\ UNCHANGED <<net, used, slock>>

\* Mutant: the flag is not tested under the lock.
SetRekeyFlagTwice(t) ==
    /\ At(t, "setrekey")
    /\ p3lock(t)
    /\ SetRekey("pri", TRUE) /\ Goto(t, "control")
    /\ UNCHANGED <<net, used>>

\* Mutant: the message is sent before the flag is set.
SetRekeyFlagLate(t) ==
    /\ At(t, "setrekey")
    /\ p3lock(t)
    /\ Goto(t, IF sess["pri"].rekey THEN "take" ELSE "control")
    /\ UNCHANGED <<sess, net, used>>

\* "Only set the Rekey flag once"
SetRekeyFlag(t) ==
    /\ At(t, "setrekey")
    /\ p3lock(t)
    /\ \/ sess["pri"].rekey /\ Goto(t, "take") /\ UNCHANGED sess
       \/ ~sess["pri"].rekey /\ Goto(t, "control") /\ SetRekey("pri", TRUE)
    /\ UNCHANGED <<net, used>>

\* The packet gets its number, or is dropped while the session is rekeyed.
TakeNumber(t) ==
    LET h == HostOf(t)
    IN  /\ At(t, "take")
        /\ p3lock(t)
        /\ \/ sess[h].rekey /\ Return(t) /\ UNCHANGED <<sess, used>>
           \/ /\ ~sess[h].rekey
              /\ used' = [used EXCEPT ![h] = @ + 1]
              /\ thr' = [thr EXCEPT ![t].pc = "data",
                            ![t].out = [NoPacket EXCEPT !.seq = sess[h].sseq]]
              /\ sess' = [sess EXCEPT ![h] = Advance(@)]
        /\ UNCHANGED net

\* It is encrypted with the key that is current now, and leaves.
EncryptData(t) ==
    LET h == HostOf(t)
    IN  /\ At(t, "data")
        /\ net' = [net EXCEPT ![Peer(h)] =
                     @ \cup {[thr[t].out EXCEPT !.dk = sess[h].ctx1.de]}]
        /\ Return(t)
        /\ UNCHANGED <<sess, used, slock>>

-----------------------------------------------------------------------------
(* p3send_control.  It reads session->sseq for the encryption of the       *)
(* message, for the header and for the encryption of the packet, and only  *)
(* then increments it.  A different number in the header garbles the first *)
(* block of what was encrypted.                                            *)

EncryptControl(t) ==
    LET s == sess[HostOf(t)]
    IN  /\ At(t, "control")
        /\ thr' = [thr EXCEPT ![t].pc = "header", ![t].iv = s.sseq,
                              ![t].out.ck = s.ctx1.ce]
        /\ UNCHANGED <<sess, net, used, slock>>

BuildHeader(t) ==
    LET s == sess[HostOf(t)]
    IN  /\ At(t, "header")
        /\ thr' = [thr EXCEPT ![t].pc = "packet", ![t].out.seq = s.sseq,
                              ![t].out.ck = IF s.sseq = thr[t].iv THEN @ ELSE NoKey]
        /\ UNCHANGED <<sess, net, used, slock>>

EncryptPacket(t) ==
    LET s == sess[HostOf(t)]
    IN  /\ At(t, "packet")
        /\ thr' = [thr EXCEPT ![t].pc = "number",
                     ![t].out.dk = IF s.sseq = thr[t].out.seq THEN s.ctx1.de
                                   ELSE NoKey]
        /\ UNCHANGED <<sess, net, used, slock>>

Number(t) ==
    /\ At(t, "number")
    /\ p3lock(t)
    /\ sess' = [sess EXCEPT ![HostOf(t)] = Advance(@)]
    /\ used' = [used EXCEPT ![HostOf(t)] = @ + 1]
    /\ Goto(t, "send")
    /\ UNCHANGED net

\* Where start_rekeying, replace_key and rekey_session go on.
AfterSending(t) ==
    CASE thr[t].job = "start" -> "take"
      [] thr[t].job = "replace" -> "hold"
      [] thr[t].job = "rekey" -> "switch"

SendPacket(t) ==
    LET h == HostOf(t)
    IN  /\ At(t, "send")
        /\ net' = [net EXCEPT ![Peer(h)] = @ \cup {thr[t].out}]
        /\ used' = [used EXCEPT ![h] = IF thr[t].job = "rekey" THEN 0 ELSE @]
        /\ thr' = [thr EXCEPT ![t].pc = AfterSending(t), ![t].sent = TRUE]
        /\ UNCHANGED <<sess, slock>>

\* An allocation, an encryption or p3send_packet fails.
SendFails(t) ==
    /\ "sendfail" \in Env
    /\ \E pc \in {"control", "packet", "send"} : At(t, pc)
    /\ Goto(t, IF thr[t].job = "replace" THEN "giveup" ELSE "clear")
    /\ UNCHANGED <<sess, net, used, slock>>

\* The end of start_rekeying on an error, and of both rekey_session functions.
ClearRekey(t) ==
    /\ At(t, "clear")
    /\ p3lock(t)
    /\ SetRekey(HostOf(t), FALSE)
    /\ IF thr[t].job = "start" THEN Goto(t, "take") ELSE Return(t)
    /\ UNCHANGED <<net, used>>

\* "Clear rekeying just in case": packet_handler, without the lock.
GiveUp(t) ==
    /\ At(t, "giveup")
    /\ SetRekey(HostOf(t), FALSE)
    /\ Return(t)
    /\ UNCHANGED <<net, used, slock>>

-----------------------------------------------------------------------------
(* Receiving                                                               *)

ChooseKey(t) ==
    LET h == HostOf(t)
    IN  /\ At(t, "idle")
        /\ IsSoftirq(t)
        /\ \E p \in Arriving(h) :
             /\ net' = Taken(h, p)
             /\ thr' = [thr EXCEPT ![t] =
                          [Begin(h, "decrypt") EXCEPT
                             !.pkt = p, !.new = InNewRange(sess[h], p.seq)]]
        /\ UNCHANGED <<sess, used, slock>>

Chosen(t) == IF thr[t].new THEN sess[HostOf(t)].ctx1 ELSE sess[HostOf(t)].ctx0

\* A user's packet goes to the stack.  A control packet that is opened with
\* the wrong key is not recognised.
Decrypt(t) ==
    LET p == thr[t].pkt
    IN  /\ At(t, "decrypt")
        /\ \/ p.msg.type = "DATA" /\ Return(t)
           \/ p.msg.type # "DATA" /\ Chosen(t).dd # p.dk /\ Return(t)
           \/ p.msg.type # "DATA" /\ Chosen(t).dd = p.dk /\ Goto(t, "message")
        /\ UNCHANGED <<sess, net, used, slock>>

\* A message opened with the wrong key is an unknown command, or one that
\* does nothing.
DecryptGarbled(t) ==
    /\ At(t, "message")
    /\ Chosen(t).cd # thr[t].pkt.ck
    /\ Return(t) \/ Goto(t, "giveup")
    /\ UNCHANGED <<sess, net, used, slock>>

\* parse_ctl_message, and the first part of replace_key.
DecryptReplace(t) ==
    LET m == thr[t].pkt.msg
    IN  /\ At(t, "message")
        /\ Chosen(t).cd = thr[t].pkt.ck
        /\ m.type = "REPLACE_KEY"
        /\ sess' = [sess EXCEPT !["sec"] =
                      NewKeys(@, m.d, m.c, m.d = NoKey, m.c = NoKey)]
        /\ thr' = [thr EXCEPT ![t].pc = "announce", ![t].job = "replace"]
        /\ UNCHANGED <<net, used, slock>>

\* parse_ctl_message, and the test of the error flag in rekey_session.
DecryptRekey(t) ==
    LET m == thr[t].pkt.msg
    IN  /\ At(t, "message")
        /\ Chosen(t).cd = thr[t].pkt.ck
        /\ m.type = "REKEY"
        /\ thr' = [thr EXCEPT ![t].job = "rekey",
                     ![t].pc = IF m.err THEN "clear"
                               ELSE IF HostOf(t) = "pri" THEN "announce"
                               ELSE "switch"]
        /\ UNCHANGED <<sess, net, used, slock>>

RekeyError(t) ==
    thr[t].job = "replace" /\ NoKey \in {thr[t].pkt.msg.d, thr[t].pkt.msg.c}

\* Mutant: the answer's own number is announced.
AnnounceOwn(t) ==
    /\ At(t, "announce")
    /\ thr' = [thr EXCEPT ![t].pc = "control",
                 ![t].out.msg = RekeyMsg(sess[HostOf(t)].sseq, RekeyError(t))]
    /\ UNCHANGED <<sess, net, used, slock>>

\* newseq: the number after the answer's, read without the lock.
Announce(t) ==
    /\ At(t, "announce")
    /\ thr' = [thr EXCEPT ![t].pc = "control",
                 ![t].out.msg = RekeyMsg(SuccSeq(sess[HostOf(t)].sseq), RekeyError(t))]
    /\ UNCHANGED <<sess, net, used, slock>>

\* The end of replace_key: data is held back from here on.
Hold(t) ==
    /\ At(t, "hold")
    /\ p3lock(t)
    /\ SetRekey("sec", TRUE)
    /\ IF RekeyError(t) THEN Goto(t, "giveup") ELSE Return(t)
    /\ UNCHANGED <<net, used>>

\* p3_rekey, under the crypto lock.
SwitchContexts(t) ==
    LET h == HostOf(t)
    IN  /\ At(t, "switch")
        /\ \E made \in Created : sess' = [sess EXCEPT ![h] = p3_rekey(@, made)]
        /\ used' = [used EXCEPT ![h] = 0]
        /\ Goto(t, "rID0")
        /\ UNCHANGED <<net, slock>>

SetRID0(t) ==
    LET h == HostOf(t)
    IN  /\ At(t, "rID0")
        /\ sess' = [sess EXCEPT ![h].rID0 = sess[h].rID1]
        /\ Goto(t, "rID1")
        /\ UNCHANGED <<net, used, slock>>

SetRID1(t) ==
    /\ At(t, "rID1")
    /\ sess' = [sess EXCEPT ![HostOf(t)].rID1 = thr[t].pkt.msg.num]
    /\ Goto(t, "clear")
    /\ UNCHANGED <<net, used, slock>>

-----------------------------------------------------------------------------
(* The specification                                                       *)

SMPInit ==
    /\ Init
    /\ thr = [t \in Thread |-> Idle]
    /\ slock = [h \in Host |-> NoThread]

\* A thread goes on with the packet it is handling.
Continue(t) ==
    \/ BuildNewKeys(t) \/ SetRekeyFlag(t) \/ TakeNumber(t) \/ EncryptData(t)
    \/ EncryptControl(t) \/ BuildHeader(t) \/ EncryptPacket(t) \/ Number(t)
    \/ SendPacket(t) \/ SendFails(t) \/ ClearRekey(t) \/ GiveUp(t)
    \/ Decrypt(t) \/ DecryptGarbled(t) \/ DecryptReplace(t) \/ DecryptRekey(t)
    \/ Announce(t) \/ Hold(t) \/ SwitchContexts(t) \/ SetRID0(t) \/ SetRID1(t)
    \/ p3unlock(t)

SMPNext ==
    \/ \E t \in Thread : Lookup(t) \/ ChooseKey(t) \/ Continue(t)
    \/ \E h \in Host : Lose(h) /\ UNCHANGED <<thr, slock>>

SMPSpec == SMPInit /\ [][SMPNext]_smpVars

\* A CPU that is not interrupted executes its code, and gets a lock that is
\* free again and again: spinlocks are ticket locks.
SMPFairSpec == SMPSpec /\ \A t \in Thread : SF_smpVars(Continue(t))

-----------------------------------------------------------------------------
(* Properties                                                              *)

\* With one softirq per host: the handler that runs there.
HandlerOf(h) == CHOOSE t \in Thread : HostOf(t) = h

\* A handler takes effect when its packet leaves, else when it returns.
Pending(h) == thr[HandlerOf(h)].pc # "idle" /\ ~thr[HandlerOf(h)].sent

\* What remains to be done once the packet has left.
Finished(h) ==
    LET s == sess[h]
        t == HandlerOf(h)
        num == thr[t].pkt.msg.num
    IN  CASE thr[t].job = "replace" -> [s EXCEPT !.rekey = ~RekeyError(t)]
          [] thr[t].job = "rekey" /\ thr[t].pc = "switch" -> SwitchKeys(s, num, 4)
          [] thr[t].job = "rekey" /\ thr[t].pc = "rID0" ->
                [s EXCEPT !.rID0 = s.rID1, !.rID1 = num, !.rekey = FALSE]
          [] thr[t].job = "rekey" /\ thr[t].pc = "rID1" ->
                [s EXCEPT !.rID1 = num, !.rekey = FALSE]
          [] thr[t].job = "rekey" /\ thr[t].pc = "clear" ->
                [s EXCEPT !.rekey = FALSE]
          [] OTHER -> s

AtomicSess ==
    [h \in Host |-> IF Pending(h) THEN thr[HandlerOf(h)].was.sess ELSE Finished(h)]

AtomicUsed ==
    [h \in Host |-> IF Pending(h) THEN thr[HandlerOf(h)].was.used ELSE used[h]]

AtomicNet ==
    [h \in Host |->
       net[h] \cup (IF Pending(h) THEN {thr[HandlerOf(h)].pkt} \ {NoPacket}
                    ELSE {})]

Atomic ==
    INSTANCE P3Session WITH sess <- AtomicSess, net <- AtomicNet, used <- AtomicUsed

(* On a gateway whose handlers run one after the other, packet_handler and *)
(* what it calls take effect as the single steps of P3Session, although    *)
(* the other gateway sees its packets before it has returned.              *)
ImplementsSession == Atomic!Spec

(* Whatever the CPUs do, one of them at a time sends REPLACE_KEY messages  *)
(* ("Only set the Rekey flag once").                                       *)
OneStart ==
    \A t, u \in Thread :
        /\ thr[t].job = "start" /\ thr[t].pc \in {"control", "header", "packet", "number", "send"}
        /\ thr[u].job = "start" /\ thr[u].pc \in {"control", "header", "packet", "number", "send"}
        => t = u

\* The data packet that h is about to decrypt was encrypted with that key.
ChoosesRight(h) ==
    \A t \in Thread :
        HostOf(t) = h /\ thr[t].pc = "decrypt" /\ thr[t].pkt.msg.type = "DATA"
            => Chosen(t).dd = thr[t].pkt.dk

(* The primary decrypts every data packet with the key it was encrypted    *)
(* with: the announced number is "The packet ID of the first packet to use *)
(* the new key", rID1 the "Sequence start for data received using key 1".  *)
PrimaryChooses == ChoosesRight("pri")

\* The same for the secondary.
SecondaryChooses == ChoosesRight("sec")

(* A control packet and the message inside are encrypted with the number   *)
(* the packet carries: the parameter of p3_encrypt is "The ID of the P3    *)
(* packet".                                                                *)
EncryptedWithID ==
    \A h \in Host : \A p \in net[h] :
        p.msg.type # "DATA" => NoKey \notin {p.dk, p.ck}

(* The keys the primary switches to are those the secondary was sent: "the *)
(* data and control new key fields must contain the new keys to be used"   *)
(* when p3_rekey is called.                                                *)
NewKeysShared ==
    sess["pri"].ctx1 \in {sess["sec"].ctx1, CtxOf(sess["sec"].newkey)}

(* A handler that takes part in a rekeying returns: keys change "during    *)
(* encrypted sessions (no need to restart)".                               *)
RekeyingReturns == \A t \in Thread : thr[t].job # "none" ~> thr[t].pc = "idle"

\* Every handler returns: no CPU spins for ever.
HandlersReturn == \A t \in Thread : thr[t].pc # "idle" ~> thr[t].pc = "idle"

=============================================================================
