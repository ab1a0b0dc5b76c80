---------------------------- MODULE KeyRingProofs ----------------------------
(***************************************************************************)
(* Proofs that the two sides of the key ring, which share no lock, stay    *)
(* within the buffer and out of each other's way, for every buffer of at   *)
(* least 64 bytes and every mixture of AES-128 and AES-256 sessions.       *)
(***************************************************************************)
EXTENDS KeyRing, TLAPS

(* All indexes are multiples of a piece, so that the unsigned subtraction  *)
(* in buffer_handler's loop condition does not wrap around.                *)
Aligned ==
    /\ head % p3MIN_KSIZE = 0
    /\ tail % p3MIN_KSIZE = 0
    /\ ctail % p3MIN_KSIZE = 0

(* What buffer_handler's test leaves true until the piece is in place: the *)
(* head may move on, rewind, or skip to the end of the first key.          *)
ProducerInv ==
    ppc \in {"write", "bump"} =>
        /\ tail + p3MIN_KSIZE <= CbufSz
        /\ \/ head <= tail
           \/ tail + p3MIN_KSIZE < head
           \/ tail + p3MIN_KSIZE <= head /\ head <= 32

(* What the value of tail that the consumer has loaded still says of tail: *)
(* with the tail wrapped around, the producer has only come closer to the  *)
(* head; otherwise it has gone on, or has wrapped around since.            *)
TestInv ==
    cpc = "test" =>
        /\ ctail < head =>
             /\ ctail <= tail
             /\ \/ tail < head
                \/ tail = head /\ head <= 32 /\ ppc \in {"check", "wrap"}
        /\ head <= ctail =>
             /\ ctail <= tail \/ tail <= head
             /\ ppc \in {"write", "bump"} =>
                  ctail <= tail \/ tail + p3MIN_KSIZE <= head

RewoundInv ==
    cpc = "rewound" =>
        /\ head = 0
        /\ ctail <= tail \/ (tail = 0 /\ ppc = "check")

\* The key being copied, or just copied, is not in the producer's way.
CopyInv ==
    cpc \in {"copy", "advance"} =>
        /\ head + csize <= CbufSz
        /\ head + csize <= tail \/ tail <= head
        /\ ppc \in {"write", "bump"} =>
             head + csize <= tail \/ tail + p3MIN_KSIZE <= head

\* The inductive invariant.
IInv == TypeOK /\ Aligned /\ ProducerInv /\ TestInv /\ RewoundInv /\ CopyInv

-----------------------------------------------------------------------------
(* Facts used throughout                                                   *)

\* A session asks for 16 or 32 bytes.
LEMMA Sizes == ASSUME TypeOK PROVE csize \in {16, 32} /\ csize \in KeySize
BY SizeAssumption DEF TypeOK

\* Unsigned subtraction does not wrap around when the result is positive.
LEMMA USubExact ==
    ASSUME NEW a \in Offset, NEW b \in Offset, b <= a
    PROVE  USub(a, b) = a - b
BY SizeAssumption DEF Offset, USub

\* With aligned indexes, buffer_handler's loop condition means what it says.
LEMMA RoomMeaning ==
    ASSUME TypeOK, Aligned, HasRoom
    PROVE  \/ head < tail /\ tail + p3MIN_KSIZE <= CbufSz
           \/ tail + p3MIN_KSIZE < head /\ tail + p3MIN_KSIZE <= CbufSz
<1>1. CASE head < tail /\ tail <= CbufSz - p3MIN_KSIZE
  BY <1>1, SizeAssumption DEF TypeOK, Offset, p3MIN_KSIZE
<1>2. CASE 0 < head /\ tail < USub(head, p3MIN_KSIZE)
  <2>1. head >= p3MIN_KSIZE
    BY <1>2 DEF TypeOK, Offset, Aligned, p3MIN_KSIZE
  <2>2. USub(head, p3MIN_KSIZE) = head - p3MIN_KSIZE
    BY <2>1 DEF USub
  <2> QED  BY <1>2, <2>2, SizeAssumption DEF TypeOK, Offset, p3MIN_KSIZE
<1> QED  BY <1>1, <1>2 DEF HasRoom

\* A key that fits leaves the head inside the buffer.
LEMMA HeadMoves ==
    ASSUME TypeOK, Aligned, head + csize <= CbufSz
    PROVE  NextHead = head + csize /\ NextHead \in Offset
           /\ NextHead % p3MIN_KSIZE = 0
BY Sizes, SizeAssumption DEF TypeOK, Offset, NextHead, Aligned, p3MIN_KSIZE

-----------------------------------------------------------------------------
(* The inductive invariant                                                 *)

\* The invariant holds once buffer_handler has made its first key.
LEMMA InitIInv == Init => IInv
BY SizeAssumption DEF Init, IInv, TypeOK, Offset, Aligned, ProducerInv,
    TestInv, RewoundInv, CopyInv, p3MIN_KSIZE

\* Each step of buffer_handler's loop keeps it.
LEMMA ProducerStep == ASSUME IInv, Producer PROVE IInv'
<1> USE SizeAssumption DEF IInv, TypeOK, Offset, Aligned, p3MIN_KSIZE
<1>1. CASE Check
  <2>1. \/ head < tail /\ tail + p3MIN_KSIZE <= CbufSz
        \/ tail + p3MIN_KSIZE < head /\ tail + p3MIN_KSIZE <= CbufSz
    BY <1>1, RoomMeaning DEF Check
  <2>2. ppc = "check" /\ ppc' = "write"
        /\ UNCHANGED <<head, tail, fresh, cpc, csize, ctail, stat>>
    BY <1>1 DEF Check, consumerVars
  <2>3. ProducerInv'  BY <2>1, <2>2 DEF ProducerInv
  <2>4. TestInv'      BY <2>1, <2>2 DEF TestInv
  <2>5. RewoundInv'   BY <2>1, <2>2 DEF RewoundInv
  <2>6. CopyInv'      BY <2>1, <2>2, Sizes DEF CopyInv
  <2> QED  BY <2>2, <2>3, <2>4, <2>5, <2>6
<1>2. CASE Write
  <2>1. ppc = "write" /\ ppc' = "bump"
        /\ UNCHANGED <<head, tail, cpc, csize, ctail, stat>>
    BY <1>2 DEF Write, consumerVars
  <2>2. fresh' \subseteq Offset  BY <1>2 DEF Write
  <2>3. ProducerInv'  BY <2>1 DEF ProducerInv
  <2>4. TestInv'      BY <2>1 DEF TestInv
  <2>5. RewoundInv'   BY <2>1 DEF RewoundInv
  <2>6. CopyInv'      BY <2>1, Sizes DEF CopyInv
  <2> QED  BY <2>1, <2>2, <2>3, <2>4, <2>5, <2>6
<1>3. CASE Bump
  <2>1. ppc = "bump" /\ ppc' = "wrap" /\ tail' = tail + p3MIN_KSIZE
        /\ UNCHANGED <<head, fresh, cpc, csize, ctail, stat>>
    BY <1>3 DEF Bump, consumerVars
  <2>2. tail + p3MIN_KSIZE <= CbufSz  BY <2>1 DEF ProducerInv
  <2>3. ProducerInv'  BY <2>1 DEF ProducerInv
  <2>4. TestInv'      BY <2>1 DEF TestInv, ProducerInv
  <2>5. RewoundInv'   BY <2>1 DEF RewoundInv
  <2>6. CopyInv'      BY <2>1, Sizes DEF CopyInv
  <2> QED  BY <2>1, <2>2, <2>3, <2>4, <2>5, <2>6
<1>4. CASE Wrap
  <2>1. ppc = "wrap" /\ ppc' = "check"
        /\ tail' = (IF tail > CbufSz - p3MIN_KSIZE THEN 0 ELSE tail)
        /\ UNCHANGED <<head, fresh, cpc, csize, ctail, stat>>
    BY <1>4 DEF Wrap, consumerVars
  <2>2. ProducerInv'  BY <2>1 DEF ProducerInv
  <2>3. TestInv'      BY <2>1 DEF TestInv
  <2>4. RewoundInv'   BY <2>1 DEF RewoundInv
  <2>5. CopyInv'      BY <2>1, Sizes DEF CopyInv
  <2> QED  BY <2>1, <2>2, <2>3, <2>4, <2>5
<1> QED  BY <1>1, <1>2, <1>3, <1>4 DEF Producer

\* So does the start of p3_get_key.
LEMMA LoadStep == ASSUME IInv, NEW size \in KeySize, Load(size) PROVE IInv'
<1> USE SizeAssumption DEF IInv, TypeOK, Offset, Aligned, p3MIN_KSIZE
<1>1. cpc' = "test" /\ csize' = size /\ ctail' = tail
      /\ UNCHANGED <<head, tail, fresh, ppc, stat>>
  BY DEF Load, producerVars
<1>2. ProducerInv'  BY <1>1 DEF ProducerInv
<1>3. TestInv'      BY <1>1 DEF TestInv, ProducerInv
<1>4. RewoundInv' /\ CopyInv'  BY <1>1 DEF RewoundInv, CopyInv
<1> QED  BY <1>1, <1>2, <1>3, <1>4

\* So does every later step of p3_get_key.
LEMMA ConsumerStep == ASSUME IInv, Consumer PROVE IInv'
<1> USE SizeAssumption DEF IInv, TypeOK, Offset, Aligned, p3MIN_KSIZE
<1>1. CASE Unavailable
  <2>1. cpc' = "idle" /\ stat' = 1
        /\ UNCHANGED <<head, tail, fresh, ppc, csize, ctail>>
    BY <1>1 DEF Unavailable, Return, producerVars
  <2> QED  BY <2>1 DEF ProducerInv, TestInv, RewoundInv, CopyInv
<1>2. CASE Available
  <2>1. cpc = "test" /\ cpc' = "copy"
        /\ UNCHANGED <<head, tail, fresh, ppc, csize, ctail, stat>>
    BY <1>2 DEF Available, producerVars
  <2>2. ProducerInv' /\ TestInv' /\ RewoundInv'
    BY <2>1 DEF ProducerInv, TestInv, RewoundInv
  <2>3. CopyInv'
    <3>1. CASE Wrapped /\ head + csize <= CbufSz
      BY <2>1, <3>1, Sizes DEF Wrapped, TestInv, CopyInv, ProducerInv
    <3>2. CASE ~Empty /\ ~Wrapped /\ USub(ctail, head) >= csize
      <4>1. head <= ctail  BY <3>2 DEF Wrapped
      <4>2. USub(ctail, head) = ctail - head  BY <4>1, USubExact
      <4>3. head + csize <= ctail  BY <3>2, <4>2, Sizes
      <4> QED  BY <2>1, <4>1, <4>3, Sizes DEF TestInv, CopyInv
    <3> QED  BY <1>2, <3>1, <3>2 DEF Available
  <2> QED  BY <2>1, <2>2, <2>3
<1>3. CASE Rewind
  <2>1. cpc = "test" /\ cpc' = "rewound" /\ head' = 0 /\ ctail < head
        /\ UNCHANGED <<tail, fresh, ppc, csize, ctail, stat>>
    BY <1>3 DEF Rewind, Wrapped, producerVars
  <2>2. ProducerInv'  BY <2>1 DEF ProducerInv
  <2>3. RewoundInv'   BY <2>1 DEF RewoundInv, TestInv
  <2>4. TestInv' /\ CopyInv'  BY <2>1 DEF TestInv, CopyInv
  <2> QED  BY <2>1, <2>2, <2>3, <2>4
<1>4. CASE AvailableAtStart
  <2>1. cpc = "rewound" /\ cpc' = "copy" /\ USub(ctail, head) >= csize
        /\ UNCHANGED <<head, tail, fresh, ppc, csize, ctail, stat>>
    BY <1>4 DEF AvailableAtStart, producerVars
  <2>2. head = 0 /\ ctail >= csize
    BY <2>1, USubExact DEF RewoundInv
  <2>3. CopyInv'  BY <2>1, <2>2, Sizes DEF CopyInv, RewoundInv
  <2>4. ProducerInv' /\ TestInv' /\ RewoundInv'
    BY <2>1 DEF ProducerInv, TestInv, RewoundInv
  <2> QED  BY <2>1, <2>3, <2>4
<1>5. CASE Skip
  <2>1. cpc = "rewound" /\ cpc' = "idle" /\ head' = NextHead /\ stat' = 1
        /\ UNCHANGED <<tail, fresh, ppc, csize, ctail>>
    BY <1>5 DEF Skip, Return, producerVars
  <2>2. head' = csize /\ head' \in Offset /\ head' % p3MIN_KSIZE = 0
    BY <2>1, HeadMoves, Sizes DEF RewoundInv
  <2>3. ProducerInv'  BY <2>1, <2>2, Sizes DEF ProducerInv
  <2>4. TestInv' /\ RewoundInv' /\ CopyInv'
    BY <2>1 DEF TestInv, RewoundInv, CopyInv
  <2> QED  BY <2>1, <2>2, <2>3, <2>4
<1>6. CASE Copy
  <2>1. cpc = "copy" /\ cpc' = "advance" /\ fresh' \subseteq fresh
        /\ UNCHANGED <<head, tail, ppc, csize, ctail, stat>>
    BY <1>6 DEF Copy, producerVars
  <2> QED  BY <2>1 DEF ProducerInv, TestInv, RewoundInv, CopyInv
<1>7. CASE Advance
  <2>1. cpc = "advance" /\ cpc' = "idle" /\ head' = NextHead /\ stat' = 0
        /\ UNCHANGED <<tail, fresh, ppc, csize, ctail>>
    BY <1>7 DEF Advance, Return, producerVars
  <2>2. head' = head + csize /\ head' \in Offset /\ head' % p3MIN_KSIZE = 0
    BY <2>1, HeadMoves DEF CopyInv
  <2>3. ProducerInv'  BY <2>1, <2>2, Sizes DEF ProducerInv, CopyInv
  <2>4. TestInv' /\ RewoundInv' /\ CopyInv'
    BY <2>1 DEF TestInv, RewoundInv, CopyInv
  <2> QED  BY <2>1, <2>2, <2>3, <2>4
<1> QED  BY <1>1, <1>2, <1>3, <1>4, <1>5, <1>6, <1>7 DEF Consumer

(* The invariant holds: it relates the value of tail the consumer works    *)
(* with to where the producer may have got in the meantime.                *)
THEOREM Invariance == Spec => []IInv
<1>1. Init => IInv  BY InitIInv
<1>2. IInv /\ [Next]_vars => IInv'
  <2> SUFFICES ASSUME IInv, [Next]_vars PROVE IInv'
    OBVIOUS
  <2>1. CASE UNCHANGED vars
    BY <2>1 DEF vars, IInv, TypeOK, Offset, Aligned, ProducerInv, TestInv,
        RewoundInv, CopyInv
  <2>2. CASE Next
    BY <2>2, ProducerStep, ConsumerStep, LoadStep DEF Next
  <2> QED  BY <2>1, <2>2
<1> QED  BY <1>1, <1>2, PTL DEF Spec

-----------------------------------------------------------------------------
(* What follows from it                                                    *)

\* The indexes of the ring stay in the buffer.
THEOREM TypeCorrect == Spec => []TypeOK
<1>1. IInv => TypeOK  BY DEF IInv
<1> QED  BY <1>1, Invariance, PTL

\* Neither buffer_handler nor p3_get_key reaches beyond the buffer's end.
THEOREM Bounded == Spec => []InBounds
<1>1. IInv => InBounds
  BY SizeAssumption DEF IInv, TypeOK, ProducerInv, CopyInv, InBounds
<1> QED  BY <1>1, Invariance, PTL

\* No key is written to while p3_get_key copies it.
THEOREM Untorn == Spec => []NoTornKey
<1>1. IInv => NoTornKey  BY DEF IInv, CopyInv, NoTornKey
<1> QED  BY <1>1, Invariance, PTL

=============================================================================
