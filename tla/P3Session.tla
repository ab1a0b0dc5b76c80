------------------------------ MODULE P3Session ------------------------------
(***************************************************************************)
(* One P3 session between a primary and a secondary gateway: the data and  *)
(* control traffic the two kernel modules exchange, and the REPLACE_KEY /  *)
(* REKEY / REKEY exchange that replaces the session keys while data flows. *)
(*                                                                         *)
(* Every action is one complete run of a handler: packet_handler on an     *)
(* outgoing packet (which starts the rekeying when it is due), or          *)
(* packet_handler on an incoming one down to replace_key and               *)
(* rekey_session.  This is the behaviour of a gateway whose handlers do    *)
(* not overlap (one CPU, forwarded traffic); P3SessionSMP splits the       *)
(* handlers into the steps that CPUs interleave.                           *)
(*                                                                         *)
(* The transport is IP: Env says what it, the key server and the kernel's  *)
(* allocator may do besides the best case.                                 *)
(***************************************************************************)
EXTENDS Integers, FiniteSets

CONSTANTS
    SeqMod,      \* number of values of the 32-bit sequence number (2^32)
    RekeyEvery,  \* the primary rekeys when sseq is a multiple of this (64)
    Key,         \* the keys the key server can hand out
    InitKey,     \* the key both sides are configured with
    NoKey,       \* no key: an empty context, or an index in a message
    MaxNet,      \* bound: data packets are sent while fewer are in flight
    MaxPerKey,   \* bound: sequence numbers a host takes under one key
    MaxSeq,      \* bound: nothing new is sent from this sequence number on
    Env          \* which misfortunes can happen, a subset of Misfortunes

Misfortunes ==
    { "lose",     \* a packet disappears in the network
      "losedata", \* a data packet disappears in the network
      "dup",      \* a data packet arrives twice
      "dupctl",   \* a control packet arrives twice
      "reorder",  \* a packet overtakes another one
      "sendfail", \* a control message cannot be built, encrypted or queued
      "nomem",    \* CreateAESCtx fails
      "index",    \* the index-key timer has expired: an index is sent
      "nokey" }   \* the key server has no new key

ASSUME SeqAssumption ==
    /\ RekeyEvery \in Nat \ {0, 1}
    /\ SeqMod \in Nat /\ SeqMod > RekeyEvery
ASSUME KeyAssumption == InitKey \in Key /\ NoKey \notin Key
ASSUME BoundAssumption == MaxNet \in Nat /\ MaxPerKey \in Nat /\ MaxSeq \in Nat
ASSUME EnvAssumption == Env \subseteq Misfortunes

VARIABLES
    sess,  \* sess[h]: host h's p3session structure with its p3keymgmt
    net,   \* net[h]: the packets on their way to host h
    used   \* used[h]: sequence numbers h took under its current key

vars == <<sess, net, used>>

Host == {"pri", "sec"}
Peer(h) == IF h = "pri" THEN "sec" ELSE "pri"

-----------------------------------------------------------------------------
(* Sequence numbers, keys and packets                                      *)

Seqs == 0 .. (SeqMod - 1)

\* Mutant: the sequence number does not wrap around.
SuccSeqEndless(n) == n + 1

\* sseq++; if (!sseq) sseq++
SuccSeq(n) == IF n + 1 = SeqMod THEN 1 ELSE n + 1

KeyOrNone == Key \cup {NoKey}

\* The new data key and the new control key (dnewkey, cnewkey).
KeyPair == [d : Key, c : Key]

\* The contexts of one generation: data and control, encrypt and decrypt.
Contexts == [de : KeyOrNone, dd : KeyOrNone, ce : KeyOrNone, cd : KeyOrNone]

CtxOf(k) == [de |-> k.d, dd |-> k.d, ce |-> k.c, cd |-> k.c]

NoContexts == [de |-> NoKey, dd |-> NoKey, ce |-> NoKey, cd |-> NoKey]

Sessions == [sseq : Seqs, rID0 : Seqs, rID1 : Seqs, rekey : BOOLEAN,
             newkey : KeyPair, ctx0 : Contexts, ctx1 : Contexts]

(* A message: a user's packet, new keys for the secondary (NoKey stands    *)
(* for an index into the key array), or the packet ID a host's packets     *)
(* use the new keys from, with the secondary's error flag.                 *)
Message == [type : {"DATA", "REPLACE_KEY", "REKEY"},
            d : KeyOrNone, c : KeyOrNone, num : Seqs, err : BOOLEAN]

DataMsg == [type |-> "DATA", d |-> NoKey, c |-> NoKey, num |-> 0, err |-> FALSE]
ReplaceMsg(d, c) ==
    [type |-> "REPLACE_KEY", d |-> d, c |-> c, num |-> 0, err |-> FALSE]
RekeyMsg(num, err) ==
    [type |-> "REKEY", d |-> NoKey, c |-> NoKey, num |-> num, err |-> err]

\* A packet shows its sequence number; the keys are those it is sealed with.
\* The network's copy of a packet is told from the original.
Packet == [seq : Seqs, dk : KeyOrNone, ck : KeyOrNone, msg : Message,
           copy : BOOLEAN]

DataPacket(s) ==
    [seq |-> s.sseq, dk |-> s.ctx1.de, ck |-> NoKey, msg |-> DataMsg,
     copy |-> FALSE]
CtlPacket(s, m) ==
    [seq |-> s.sseq, dk |-> s.ctx1.de, ck |-> s.ctx1.ce, msg |-> m,
     copy |-> FALSE]

Advance(s) == [s EXCEPT !.sseq = SuccSeq(@)]

-----------------------------------------------------------------------------
(* Key management                                                          *)

CtxKeys(c) == {c.de, c.dd, c.ce, c.cd}

\* Every key a context, a new-key field, a message or a packet still holds.
LiveKeys ==
    UNION { {sess[h].newkey.d, sess[h].newkey.c}
              \cup CtxKeys(sess[h].ctx0) \cup CtxKeys(sess[h].ctx1)
              \cup UNION { {p.dk, p.ck, p.msg.d, p.msg.c} : p \in net[h] }
            : h \in Host }

\* p3_get_key hands out a key not seen before; if there is none, it leaves
\* the key field as it is and build_newkey_message goes on with that.
GetKey(old, fresh) == IF "nokey" \in Env THEN {old, fresh} ELSE {fresh}

\* build_newkey_message: an index if the index time has passed, else a key.
UseIndex == IF "index" \in Env THEN BOOLEAN ELSE {FALSE}

(* p3_rekey: the current contexts become the previous ones and the new     *)
(* ones are created in the order data encrypt, data decrypt, control       *)
(* encrypt, control decrypt; the creation stops at the first that fails.   *)
Created == IF "nomem" \in Env THEN 0 .. 4 ELSE {4}

p3_rekey(s, made) ==
    [s EXCEPT !.ctx0 = s.ctx1,
              !.ctx1 = [de |-> IF made >= 1 THEN s.newkey.d ELSE s.ctx1.de,
                        dd |-> IF made >= 2 THEN s.newkey.d ELSE s.ctx1.dd,
                        ce |-> IF made >= 3 THEN s.newkey.c ELSE s.ctx1.ce,
                        cd |-> IF made >= 4 THEN s.newkey.c ELSE s.ctx1.cd]]

\* Mutant: the Rekey flag is not cleared at the end.
SwitchKeysStillRekeying(s, num, made) ==
    [p3_rekey(s, made) EXCEPT !.rID0 = s.rID1, !.rID1 = num]

\* The common end of both rekey_session functions (p3_rekey's status is not
\* looked at): the next range of packet IDs, and data may flow again.
SwitchKeys(s, num, made) ==
    [p3_rekey(s, made) EXCEPT !.rID0 = s.rID1, !.rID1 = num, !.rekey = FALSE]

\* Mutants: the announced packet itself is taken for an old one; every packet
\* is taken for a new one.
InNewRangeOffByOne(s, seq) == s.rID1 < seq \/ seq < s.rID0
InNewRangeAlways(s, seq) == TRUE

\* packet_handler: choose the generation of contexts for a sequence number.
InNewRange(s, seq) == s.rID1 <= seq \/ seq < s.rID0

Slot(s, seq) == IF InNewRange(s, seq) THEN s.ctx1 ELSE s.ctx0

\* The decryption yields the packet that was sent ...
DataOpens(s, p) == Slot(s, p.seq).dd = p.dk
\* ... and that of the control message inside the message.
CtlOpens(s, p) == DataOpens(s, p) /\ Slot(s, p.seq).cd = p.ck

Opens(h, p) ==
    IF p.msg.type = "DATA" THEN DataOpens(sess[h], p) ELSE CtlOpens(sess[h], p)

(* p3send_control: the message leaves; or it fails before (allocation,     *)
(* encryption) or after (p3send_packet) the sequence number has advanced.  *)
SendResult ==
    IF "sendfail" \in Env THEN {"sent", "unsent", "advanced"} ELSE {"sent"}

AfterSend(s, res) == IF res = "unsent" THEN s ELSE Advance(s)

-----------------------------------------------------------------------------
(* Initial state: init_session and p3_init_crypto on both sides            *)

InitSession ==
    LET k == [d |-> InitKey, c |-> InitKey]
    IN  [sseq |-> 1, rID0 |-> 0, rID1 |-> 0, rekey |-> FALSE,
         newkey |-> k, ctx0 |-> NoContexts, ctx1 |-> CtxOf(k)]

Init ==
    /\ sess = [h \in Host |-> InitSession]
    /\ net = [h \in Host |-> {}]
    /\ used = [h \in Host |-> 0]

-----------------------------------------------------------------------------
(* Sending                                                                 *)

\* p3_lookup: the primary's test, on a packet to the secondary's subnet.
RekeyDue(s) == s.sseq % RekeyEvery = 0 /\ ~s.rekey

\* The bounds of the model.
Room(h) ==
    /\ Cardinality(net[Peer(h)]) < MaxNet
    /\ used[h] < MaxPerKey
    /\ sess[h].sseq < MaxSeq

Count(h, s) == used[h] + (IF s.sseq = sess[h].sseq THEN 0 ELSE 1)

\* The data part of packet_handler, from the session state s.
Transmit(h, s) ==
    /\ ~s.rekey
    /\ Room(h)
    /\ sess' = [sess EXCEPT ![h] = Advance(s)]
    /\ net' = [net EXCEPT ![Peer(h)] = @ \cup {DataPacket(s)}]
    /\ used' = [used EXCEPT ![h] = Count(h, s) + 1]

\* A data packet is sent.
SendData(h) ==
    /\ ~(h = "pri" /\ RekeyDue(sess[h]))
    /\ Transmit(h, sess[h])

\* "If rekeying, do not send data packets": the packet is dropped.
DropData(h) ==
    /\ sess[h].rekey
    /\ UNCHANGED vars

\* build_newkey_message: s with its new key fields filled, and the message.
NewKeys(s, dk, ck, didx, cidx) ==
    [s EXCEPT !.newkey = [d |-> IF didx THEN s.newkey.d ELSE dk,
                          c |-> IF cidx THEN s.newkey.c ELSE ck]]
NewKeyMsg(dk, ck, didx, cidx) ==
    ReplaceMsg(IF didx THEN NoKey ELSE dk, IF cidx THEN NoKey ELSE ck)

(* start_rekeying.  Once the message is sent the packet that started it is *)
(* dropped; if it could not be, the Rekey flag is cleared again and the    *)
(* packet goes out under the old key.                                      *)
start_rekeying(dk, ck, didx, cidx, res) ==
    LET b == NewKeys(sess["pri"], dk, ck, didx, cidx)
        a == [AfterSend(b, res) EXCEPT !.rekey = (res = "sent")]
    IN  \/ /\ res = "sent"
           /\ sess' = [sess EXCEPT !["pri"] = a]
           /\ net' = [net EXCEPT !["sec"] =
                        @ \cup {CtlPacket(b, NewKeyMsg(dk, ck, didx, cidx))}]
           /\ used' = [used EXCEPT !["pri"] = @ + 1]
        \/ /\ res # "sent"
           /\ Transmit("pri", a)

\* A packet to the secondary starts the rekeying.
StartRekeying ==
    LET s == sess["pri"]
    IN  /\ RekeyDue(s)
        /\ \E fresh \in Key \ LiveKeys, didx, cidx \in UseIndex, res \in SendResult :
           \E dk \in GetKey(s.newkey.d, fresh), ck \in GetKey(s.newkey.c, fresh) :
             start_rekeying(dk, ck, didx, cidx, res)

-----------------------------------------------------------------------------
(* Receiving                                                               *)

\* How long ago h's peer numbered the packet p.
Age(h, p) == (sess[Peer(h)].sseq - p.seq) % SeqMod

\* The packets the network may deliver to h next; a copy follows its original.
Arriving(h) ==
    IF "reorder" \in Env THEN net[h]
    ELSE { p \in net[h] : \A q \in net[h] :
             \/ Age(h, q) < Age(h, p)
             \/ Age(h, q) = Age(h, p) /\ (p.copy => q.copy) }

Taken(h, p) == [net EXCEPT ![h] = @ \ {p}]

\* A user's packet is returned to the stack (as garbage if the key is wrong).
ReceiveData(h, p) ==
    /\ p.msg.type = "DATA"
    /\ net' = Taken(h, p)
    /\ UNCHANGED <<sess, used>>

(* A control packet is decrypted with a wrong data key and then is not     *)
(* recognised as one; or with a wrong control key, and parse_ctl_message   *)
(* finds an unknown command, whereupon packet_handler clears the Rekey     *)
(* flag, or one that does nothing.                                         *)
ReceiveGarbled(h, p) ==
    /\ p.msg.type # "DATA"
    /\ ~CtlOpens(sess[h], p)
    /\ net' = Taken(h, p)
    /\ \/ UNCHANGED sess
       \/ /\ DataOpens(sess[h], p)
          /\ sess' = [sess EXCEPT ![h].rekey = FALSE]
    /\ UNCHANGED used

\* Mutant of ReplaceKey: data is not held back.
ReplaceKeyNoHold(p) ==
    LET s == sess["sec"]
        err == NoKey \in {p.msg.d, p.msg.c}
        b == NewKeys(s, p.msg.d, p.msg.c, p.msg.d = NoKey, p.msg.c = NoKey)
    IN  /\ p.msg.type = "REPLACE_KEY"
        /\ CtlOpens(s, p)
        /\ sess' = [sess EXCEPT !["sec"] = Advance(b)]
        /\ net' = [Taken("sec", p) EXCEPT !["pri"] =
                     @ \cup {CtlPacket(s, RekeyMsg(SuccSeq(s.sseq), err))}]
        /\ used' = [used EXCEPT !["sec"] = @ + 1]

(* replace_key on the secondary: the new keys are noted (an index is an    *)
(* error, the key array is never set), the packet ID after the answer is   *)
(* announced, and data is held back until the primary's answer.            *)
ReplaceKey(p) ==
    LET s == sess["sec"]
        err == NoKey \in {p.msg.d, p.msg.c}
        b == NewKeys(s, p.msg.d, p.msg.c, p.msg.d = NoKey, p.msg.c = NoKey)
    IN  /\ p.msg.type = "REPLACE_KEY"
        /\ CtlOpens(s, p)
        /\ \E res \in SendResult :
             /\ sess' = [sess EXCEPT !["sec"] =
                           [AfterSend(b, res) EXCEPT
                              !.rekey = (res = "sent" /\ ~err)]]
             /\ net' = [Taken("sec", p) EXCEPT !["pri"] =
                          @ \cup (IF res = "sent"
                                  THEN {CtlPacket(s, RekeyMsg(SuccSeq(s.sseq), err))}
                                  ELSE {})]
             /\ used' = [used EXCEPT !["sec"] = Count("sec", AfterSend(b, res))]

\* Mutant of RekeyPrimary: switch first, then answer.
RekeyPrimarySwapped(p) ==
    LET s == sess["pri"]
        new == SwitchKeys(s, p.msg.num, 4)
    IN  /\ p.msg.type = "REKEY"
        /\ CtlOpens(s, p)
        /\ net' = [Taken("pri", p) EXCEPT !["sec"] =
                     IF p.msg.err THEN @
                     ELSE @ \cup {CtlPacket(new, RekeyMsg(SuccSeq(s.sseq), FALSE))}]
        /\ sess' = [sess EXCEPT !["pri"] =
                      IF p.msg.err THEN [s EXCEPT !.rekey = FALSE] ELSE Advance(new)]
        /\ used' = [used EXCEPT !["pri"] = IF p.msg.err THEN @ ELSE 0]

(* rekey_session on the primary: announce the packet ID after the answer   *)
(* under the old key, then switch.                                         *)
RekeyPrimary(p) ==
    LET s == sess["pri"]
    IN  /\ p.msg.type = "REKEY"
        /\ CtlOpens(s, p)
        /\ \/ /\ p.msg.err
              /\ sess' = [sess EXCEPT !["pri"].rekey = FALSE]
              /\ net' = Taken("pri", p)
              /\ UNCHANGED used
           \/ /\ ~p.msg.err
              /\ \E made \in Created :
                   sess' = [sess EXCEPT !["pri"] =
                              SwitchKeys(Advance(s), p.msg.num, made)]
              /\ net' = [Taken("pri", p) EXCEPT !["sec"] =
                           @ \cup {CtlPacket(s, RekeyMsg(SuccSeq(s.sseq), FALSE))}]
              /\ used' = [used EXCEPT !["pri"] = 0]
           \/ /\ ~p.msg.err
              /\ \E res \in SendResult \ {"sent"} :
                   /\ sess' = [sess EXCEPT !["pri"] =
                                [AfterSend(s, res) EXCEPT !.rekey = FALSE]]
                   /\ used' = [used EXCEPT !["pri"] = Count("pri", AfterSend(s, res))]
              /\ net' = Taken("pri", p)

\* rekey_session on the secondary: switch, and let data flow again.  (The
\* primary's answer never carries an error flag.)
RekeySecondary(p) ==
    LET s == sess["sec"]
    IN  /\ p.msg.type = "REKEY"
        /\ CtlOpens(s, p)
        /\ net' = Taken("sec", p)
        /\ \E made \in Created :
             sess' = [sess EXCEPT !["sec"] = SwitchKeys(s, p.msg.num, made)]
        /\ used' = [used EXCEPT !["sec"] = 0]

Receive(h) ==
    \E p \in Arriving(h) :
        \/ ReceiveData(h, p)
        \/ ReceiveGarbled(h, p)
        \/ h = "sec" /\ ReplaceKey(p)
        \/ h = "pri" /\ RekeyPrimary(p)
        \/ h = "sec" /\ RekeySecondary(p)

\* The network loses a packet.
Lose(h) ==
    /\ \E p \in net[h] :
         /\ "lose" \in Env \/ ("losedata" \in Env /\ p.msg.type = "DATA")
         /\ net' = Taken(h, p)
    /\ UNCHANGED <<sess, used>>

\* The network delivers a packet twice.
Duplicated ==
    (IF "dup" \in Env THEN {"DATA"} ELSE {})
      \cup (IF "dupctl" \in Env THEN {"REPLACE_KEY", "REKEY"} ELSE {})

Duplicate(h) ==
    /\ \E p \in net[h] :
         /\ p.msg.type \in Duplicated /\ ~p.copy
         /\ net' = [net EXCEPT ![h] = @ \cup {[p EXCEPT !.copy = TRUE]}]
    /\ UNCHANGED <<sess, used>>

Next ==
    \/ StartRekeying
    \/ \E h \in Host :
         \/ SendData(h) \/ DropData(h) \/ Receive(h)
         \/ Lose(h) \/ Duplicate(h)

Spec == Init /\ [][Next]_vars

\* Packets that are not lost arrive, and the receive handlers run.
Fairness == \A h \in Host : WF_vars(Receive(h))

FairSpec == Spec /\ Fairness

-----------------------------------------------------------------------------
(* Properties                                                              *)

\* Types of the session structures and of the packets in flight.
TypeOK ==
    /\ sess \in [Host -> Sessions]
    /\ net \in [Host -> SUBSET Packet]
    /\ used \in [Host -> Nat]

(* The two ends are never more than one key apart: either both encrypt and *)
(* decrypt with the same keys, or the primary has switched and the         *)
(* secondary holds exactly these keys as its new ones and sends no data    *)
(* (replace_key, both rekey_session functions).                            *)
KeysInStep ==
    \/ sess["pri"].ctx1 = sess["sec"].ctx1
    \/ /\ sess["pri"].ctx1 = CtxOf(sess["sec"].newkey)
       /\ sess["sec"].rekey

(* Whatever reaches the secondary in order is decrypted with the key it    *)
(* was encrypted with (packet_handler's choice of a key by sequence         *)
(* number); it needs the primary's REKEY message.  For the primary see      *)
(* PrimaryOpensInOrder in MCSessionFaults.                                  *)
SecondaryOpens == \A p \in Arriving("sec") : Opens("sec", p)

(* A packet that arrives late, after the receiver has changed keys, is     *)
(* still decrypted with the key it was encrypted with as long as the       *)
(* receiver keeps that key (rID0 and rID1 in packet_handler).              *)
LateOpens ==
    \A h \in Host : \A p \in net[h] :
        (p.dk = sess[h].ctx0.dd \/ p.dk = sess[h].ctx1.dd)
            => DataOpens(sess[h], p)

(* A host changes its keys only while its Rekey flag holds back its data,  *)
(* so no packet ID is taken between the announcement and the switch.       *)
SwitchOnlyInRekey ==
    [][\A h \in Host :
         <<sess'[h].ctx0, sess'[h].ctx1>> # <<sess[h].ctx0, sess[h].ctx1>>
            => sess[h].rekey]_vars

\* Every rekeying ends: a host that holds back its data sends again.
RekeyEnds == \A h \in Host : sess[h].rekey ~> ~sess[h].rekey

\* When the primary has new keys, the secondary gets them.
KeysConverge ==
    sess["pri"].ctx1 # sess["sec"].ctx1 ~> sess["pri"].ctx1 = sess["sec"].ctx1

=============================================================================
