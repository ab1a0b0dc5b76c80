---------------------------- MODULE P3PacketProofs ----------------------------
(***************************************************************************)
(* Proofs about P3Packet, for every size, clock value and packet content:  *)
(* the cutting, padding and sorting of a packet's blocks lose nothing and  *)
(* stay inside the buffers.                                                *)
(***************************************************************************)
EXTENDS P3Packet, FiniteSetTheorems, WellFoundedInduction, TLAPS

Kinds == {"data", "syn", "addmss", "control"}
Pcs == {"new", "cut", "refused", "failed", "move", "pad", "sort", "join", "done"}

\* The size that packet_handler or p3send_control chose leaves room for two
\* block headers, but for the SYN whose length field is wrong.
Sized ==
    /\ pc \in Pcs
    /\ pkt.psize \in Nat /\ pkt.newlen \in Nat /\ pkt.size \in Nat
    /\ pkt.written \in Nat /\ pkt.room \in Nat /\ pkt.written <= pkt.room
    /\ pc # "new" => /\ pkt.kind \in Kinds /\ pkt.psize >= 20
                     /\ pkt.kind # "addmss" => Dlen >= pkt.psize + 6 /\ Dlen % 16 = 0
                     /\ pkt.kind = "addmss" => Dlen < pkt.psize
    /\ pc = "failed" => pkt.kind = "addmss"
    /\ pc = "refused" => pkt.size > MSSV4 + 40

\* Before obfuscate, and before deobfuscate, nothing is written.
Fresh ==
    /\ pc = "new" => pkt.psize = 0
    /\ pc \in {"new", "cut"} => hdrs = <<>> /\ segs = <<>>
    /\ pc \notin {"sort", "join", "done"} => dloc = <<>> /\ nsort = 0

AfterCut == pc \in {"move", "pad", "sort", "join", "done"}
Blocks == 0 .. (blks - 1)

\* The length of a block before it is moved, and with the pad data behind it.
Whole(k) == IF k = blks - 1 THEN pkt.psize - bloc[k] ELSE bloc[k + 1] - bloc[k]
Total(k) == Whole(k) + (IF k = blks - 1 THEN PadSize ELSE 0)

\* The blocks: at least 2 bytes each, and 4 in the first one.
Cut ==
    AfterCut =>
      /\ pkt.kind # "addmss" /\ blks \in 2 .. 7 /\ PadSize >= 0
      /\ now \in Nat /\ bct \in Nat \ {0} /\ cur \in Blocks /\ idx \in Nat
      /\ bloc \in [Blocks -> Nat] /\ bloc[0] = 0 /\ Whole(0) >= 4
      /\ \A k \in Blocks : Whole(k) >= 2
      /\ blen \in [Blocks -> Nat]
      /\ \A k \in Blocks : blen[k] \in {0, Whole(k)}
      /\ pc = "pad" => idx > 0
      /\ pc = "move" /\ idx = 0 => cur # 0 /\ \A k \in Blocks : blen[k] # 0

\* Where the data written so far, and the pad data under way, end.
End == CASE pc = "move" -> idx [] pc = "pad" -> idx + pad.left [] OTHER -> Dlen

\* The bytes that block k still needs.
Needs(k) == IF k \in Blocks THEN IF blen[k] # 0 THEN 3 + Total(k) ELSE 0 ELSE 0

\* What is written and what is missing make up the data's length.
Filled ==
    AfterCut =>
      End + Needs(0) + Needs(1) + Needs(2) + Needs(3) + Needs(4) + Needs(5) + Needs(6) = Dlen

\* Every header is followed by its block and then by the next header.
Headers ==
    AfterCut =>
      /\ DOMAIN hdrs \subseteq Nat
      /\ \A o \in DOMAIN hdrs :
           /\ hdrs[o].id \in Blocks /\ hdrs[o].len = Total(hdrs[o].id)
           /\ o + 3 \in DOMAIN segs /\ segs[o + 3] = bloc[hdrs[o].id]
           /\ o + 3 + hdrs[o].len <= End
           /\ o + 3 + hdrs[o].len = End \/ o + 3 + hdrs[o].len \in DOMAIN hdrs
      /\ \A o, q \in DOMAIN hdrs : o < q => o + 3 + hdrs[o].len <= q
      /\ End = 0 \/ (0 \in DOMAIN hdrs /\ hdrs[0].id # 0
                     /\ \E o \in DOMAIN hdrs : o + 3 + hdrs[o].len = End)

\* A block that has been moved has one header.
Moved ==
    AfterCut =>
      /\ \A o, q \in DOMAIN hdrs : hdrs[o].id = hdrs[q].id => o = q
      /\ \A k \in Blocks : blen[k] = 0 <=> \E o \in DOMAIN hdrs : hdrs[o].id = k
      /\ pc \in {"sort", "join", "done"} => \A k \in Blocks : blen[k] = 0

\* The pad data comes from the packet.
Padding ==
    /\ pad \in [left : Int, loc : Int, dl : Int, at : Int, n : Int] /\ PadInside
    /\ pc = "pad" => /\ pad.left >= 0 /\ pad.dl >= 0
                     /\ -3 <= pad.loc /\ pad.loc <= pkt.psize + 14
                     /\ pad.dl = 0 \/ pad.dl + 48 <= pkt.psize

\* deobfuscate has read the headers up to idx.
Sorted ==
    pc \in {"sort", "join"} =>
      /\ idx \in DOMAIN hdrs \/ idx = Dlen
      /\ IF pc = "sort" THEN idx < Dlen ELSE idx = Dlen
      /\ DOMAIN dloc = {hdrs[o].id : o \in {q \in DOMAIN hdrs : q < idx}}
      /\ \A o \in DOMAIN hdrs :
           o < idx => dloc[hdrs[o].id] = [at |-> o + 3, len |-> hdrs[o].len]
      /\ IsFiniteSet(DOMAIN dloc) /\ nsort = Cardinality(DOMAIN dloc)

PacketInv == /\ Sized /\ Fresh /\ Cut /\ Filled /\ Headers /\ Moved /\ Padding /\ Sorted
             /\ RoundTrip

-----------------------------------------------------------------------------
(* Arithmetic of the size classes, the block count and the borders.         *)

\* Rounding up to 16, as p3send_control does.
LEMMA AlignFacts ==
    \A n \in Nat : /\ Align(n) \in Nat /\ Align(n) >= n /\ Align(n) <= n + 15
                   /\ Align(n) % 16 = 0
BY DEF Align

\* The size class holds the packet, is a multiple of 16, and the largest one
\* that MAXPKT allows is reached by packets of 1472 bytes only.
LEMMA FixedSizeFacts ==
    \A n \in Nat : /\ FixedSize(n) \in Nat /\ FixedSize(n) >= n
                   /\ FixedSize(n) % 16 = 0
                   /\ FixedSize(n) > 1472 => n > 1472
                   /\ n <= SMALL => FixedSize(n) = SMALL
BY AlignFacts DEF FixedSize, SMALL, MED, LARGE, Align

\* obfuscate's block count: the block headers fit into the padding, and the
\* blocks do not get shorter than 10 bytes.
LEMMA NumBlocksFacts ==
    ASSUME NEW psize \in Nat, psize >= 20, NEW usec \in Nat,
           Dlen \in Int, Dlen >= psize + 6
    PROVE  /\ NumBlocks(psize, usec) \in 2 .. 7
           /\ 3 * NumBlocks(psize, usec) <= Dlen - psize
           /\ psize \div NumBlocks(psize, usec) >= 10
  <1> DEFINE d == Dlen - psize
             want == CASE psize < 40 -> 2
                  [] psize >= 40 /\ psize < MED ->
                        IF (usec \div 2) % 2 = 1 THEN 2 ELSE 3
                  [] OTHER -> CASE usec % 8 = 0 -> 4
                                [] usec % 8 = 1 -> 6
                                [] OTHER -> usec % 8
             b == IF want * 3 > d THEN d \div 3 ELSE want
  <1>1. NumBlocks(psize, usec) = b
    BY DEF NumBlocks
  <1>2. /\ want \in 2 .. 7
        /\ psize < 40 => want = 2
        /\ psize < 640 => want <= 3
    <2>1. usec % 8 \in 0 .. 7
      OBVIOUS
    <2> QED BY <2>1 DEF MED
  <1>3. d \in Int /\ d >= 6
    OBVIOUS
  <1> HIDE DEF want, d
  <1>4. b \in 2 .. want /\ 3 * b <= d
    BY <1>2, <1>3
  <1>5. d = Dlen - psize
    BY DEF d
  <1> HIDE DEF b
  <1>6. psize \div b >= 10
    <2>1. CASE b = 2
      BY <2>1
    <2>2. CASE b = 3
      BY <2>2, <1>2, <1>4
    <2>3. CASE b = 4
      BY <2>3, <1>2, <1>4
    <2>4. CASE b = 5
      BY <2>4, <1>2, <1>4
    <2>5. CASE b = 6
      BY <2>5, <1>2, <1>4
    <2>6. CASE b = 7
      BY <2>6, <1>2, <1>4
    <2> QED BY <1>2, <1>4, <2>1, <2>2, <2>3, <2>4, <2>5, <2>6
  <1> QED BY <1>1, <1>2, <1>4, <1>5, <1>6

\* With a length field behind the end of the data there is no block at all.
LEMMA NoBlocks ==
    ASSUME NEW psize \in Nat, NEW usec \in Nat, Dlen \in Int, Dlen < psize
    PROVE  NumBlocks(psize, usec) <= 0
  <1> DEFINE d == Dlen - psize
             want == CASE psize < 40 -> 2
                  [] psize >= 40 /\ psize < MED ->
                        IF (usec \div 2) % 2 = 1 THEN 2 ELSE 3
                  [] OTHER -> CASE usec % 8 = 0 -> 4
                                [] usec % 8 = 1 -> 6
                                [] OTHER -> usec % 8
  <1>1. NumBlocks(psize, usec) = IF want * 3 > d THEN d \div 3 ELSE want
    BY DEF NumBlocks
  <1>2. want \in 2 .. 7
    <2>1. usec % 8 \in 0 .. 7
      OBVIOUS
    <2> QED BY <2>1 DEF MED
  <1>3. d \in Int /\ d < 0
    OBVIOUS
  <1> HIDE DEF want, d
  <1> QED BY <1>1, <1>2, <1>3

\* A border moves by less than half a block.
LEMMA BorderFacts ==
    ASSUME NEW n \in Nat, n >= 10, NEW k \in Nat, NEW byte \in Nat
    PROVE  /\ Mask(n) \in Nat /\ n >= 2 * Mask(n) + 2 /\ n >= Mask(n) + 4
           /\ Border(n, k, byte) \in Int
           /\ n * k - Mask(n) <= Border(n, k, byte)
           /\ Border(n, k, byte) <= n * k + Mask(n)
  <1>1. Mask(n) \in Nat /\ n >= 2 * Mask(n) + 2 /\ n >= Mask(n) + 4
    BY DEF Mask
  <1>2. byte % (Mask(n) + 1) \in 0 .. Mask(n)
    <2>1. Mask(n) \in {3, 7, 15, 31}
      BY DEF Mask
    <2> QED BY <2>1
  <1>3. n * k \in Int
    OBVIOUS
  <1> QED BY <1>1, <1>2, <1>3 DEF Border

\* The remainder of what lies less than two rounds ahead.
LEMMA Around ==
    \A b \in 2 .. 7 : \A x \in 0 .. (2 * b - 1) : x % b = IF x < b THEN x ELSE x - b
  <1> SUFFICES ASSUME NEW b \in 2 .. 7, NEW x \in 0 .. (2 * b - 1)
               PROVE  x % b = IF x < b THEN x ELSE x - b
    OBVIOUS
  <1>2. CASE b = 2
    BY <1>2
  <1>3. CASE b = 3
    BY <1>3
  <1>4. CASE b = 4
    BY <1>4
  <1>5. CASE b = 5
    BY <1>5
  <1>6. CASE b = 6
    BY <1>6
  <1>7. CASE b = 7
    BY <1>7
  <1> QED BY <1>2, <1>3, <1>4, <1>5, <1>6, <1>7

\* The first of several numbers.
LEMMA Smallest ==
    ASSUME NEW T \in SUBSET Nat, T # {}
    PROVE  \E x \in T : \A y \in T : x <= y
  <1> DEFINE R == OpToRel(<, Nat)
  <1>1. PICK x \in T : \A y \in T : ~ (<<y, x>> \in R)
    BY NatLessThanWellFounded, WFMin
  <1>2. R = {ss \in Nat \X Nat : ss[1] < ss[2]}
    BY Zenon DEF OpToRel
  <1> HIDE DEF R
  <1>3. \A y \in T : /\ x \in Nat /\ y \in Nat
                     /\ <<y, x>> \in Nat \X Nat /\ <<y, x>>[1] = y /\ <<y, x>>[2] = x
    OBVIOUS
  <1>4. \A y \in T : ~(y < x)
    BY <1>1, <1>2, <1>3
  <1> QED BY <1>3, <1>4

\* obfuscate's search for an unused block finds one, if there is one.
LEMMA UnusedFound ==
    ASSUME blks \in 2 .. 7, NEW c \in Blocks, NEW k \in Blocks, blen[k] # 0
    PROVE  Unused(c) \in Blocks /\ blen[Unused(c)] # 0
  <1> DEFINE T == {s \in 0 .. (blks - 1) : blen[(c + s) % blks] # 0}
             Found(s) == /\ blen[(c + s) % blks] # 0
                         /\ \A t \in 0 .. (s - 1) : blen[(c + t) % blks] = 0
  <1>1. \A s \in 0 .. (blks - 1) : (c + s) % blks \in Blocks
    BY Around DEF Blocks
  <1>2. (IF k >= c THEN k - c ELSE k - c + blks) \in T
    <2> DEFINE s == IF k >= c THEN k - c ELSE k - c + blks
    <2>1. s \in 0 .. (blks - 1) /\ (c + s) % blks = k
      BY Around DEF Blocks
    <2> QED BY <2>1
  <1>3. PICK x \in T : \A y \in T : x <= y
    <2>1. T # {} /\ T \in SUBSET Nat
      BY <1>2
    <2> HIDE DEF T
    <2> QED BY <2>1, Smallest
  <1>4. x \in 0 .. (blks - 1) /\ Found(x)
    BY <1>3
  <1> DEFINE s == CHOOSE y \in 0 .. (blks - 1) : Found(y)
  <1>5. s \in 0 .. (blks - 1) /\ Found(s)
    <2> HIDE DEF Found
    <2> QED BY <1>4
  <1>6. Unused(c) = (c + s) % blks
    BY DEF Unused
  <1> HIDE DEF s
  <1> QED BY <1>1, <1>5, <1>6

-----------------------------------------------------------------------------
(* Choosing the size.                                                       *)

\* The invariant holds before a packet arrives.
LEMMA InitInv == Init => PacketInv
  <1> SUFFICES ASSUME Init PROVE PacketInv
    OBVIOUS
  <1>1. Sized /\ Fresh /\ Padding /\ RoundTrip /\ Sorted
    BY DEF Init, Sized, Fresh, Padding, PadInside, RoundTrip, Sorted, Pcs, HDR, MSSV4
  <1>2. ~AfterCut
    BY DEF Init, AfterCut
  <1> QED BY <1>1, <1>2 DEF PacketInv, Cut, Filled, Headers, Moved

\* What the three ways to choose the size have in common.
LEMMA Prepared ==
    ASSUME PacketInv, pc = "new", pc' \in {"cut", "refused", "failed"}, Sized',
           UNCHANGED <<now, obfvars, deobfvars>>
    PROVE  PacketInv'
  <1>1. Fresh'
    BY DEF PacketInv, Fresh, obfvars, deobfvars
  <1>2. Padding'
    <2>1. pad' = pad /\ pkt.psize = 0 /\ pkt'.psize \in Nat /\ pc' # "pad"
      BY DEF PacketInv, Fresh, obfvars, Sized
    <2> QED BY <2>1 DEF PacketInv, Padding, PadInside, HDR
  <1>3. Sorted' /\ RoundTrip'
    BY DEF Sorted, RoundTrip
  <1>4. ~AfterCut'
    BY DEF AfterCut
  <1> QED BY <1>1, <1>2, <1>3, <1>4 DEF PacketInv, Cut, Filled, Headers, Moved

\* packet_handler's copy of a packet behind the P3 header.
LEMMA PrepareDataInv ==
    ASSUME PacketInv, NEW kind \in {"data", "syn"}, NEW size \in Nat, size >= 20,
           PrepareData(kind, size)
    PROVE  PacketInv'
  <1> DEFINE fs == FixedSize(size + 6)
  <1>1. fs \in Nat /\ fs >= size + 6 /\ fs % 16 = 0 /\ (fs > 1472 => size > 1466)
    BY FixedSizeFacts
  <1>2. /\ pc = "new" /\ pc' = IF fs + HDR > MAXPKT THEN "refused" ELSE "cut"
        /\ pkt' = [kind |-> kind, size |-> size, psize |-> size,
                   newlen |-> fs + HDR, room |-> 2 * (fs + HDR + 4),
                   written |-> HDR + (fs + HDR)]
        /\ UNCHANGED <<now, obfvars, deobfvars>>
    BY DEF PrepareData, WorkRoom
  <1> HIDE DEF fs
  <1>3. Sized'
    BY <1>1, <1>2 DEF Sized, Pcs, Kinds, Dlen, HDR, MAXPKT, MSSV4
  <1> QED BY <1>2, <1>3, Prepared

\* packet_handler's SYN with an added MSS option.
LEMMA PrepareSynInv ==
    ASSUME PacketInv, NEW size \in Nat, size >= 40, size <= 100, PrepareSyn(size)
    PROVE  PacketInv'
  <1>1. FixedSize(size + 6 + 4) = 176 /\ FixedSize(size + 6) = 176
    BY FixedSizeFacts DEF SMALL
  <1>2. /\ pc = "new" /\ pc' \in {"cut", "failed"}
        /\ pkt' = [kind |-> "addmss", size |-> size + 4, psize |-> 208,
                   newlen |-> 208, room |-> 416, written |-> 236]
        /\ UNCHANGED <<now, obfvars, deobfvars>>
    BY <1>1 DEF PrepareSyn, WorkRoom, HDR, MAXPKT, SetChecksum
  <1>3. Sized'
    BY <1>2 DEF Sized, Pcs, Kinds, Dlen, HDR
  <1> QED BY <1>2, <1>3, Prepared

\* p3send_control's message.
LEMMA PrepareControlInv ==
    ASSUME PacketInv, NEW len \in Nat, len >= 1, PrepareControl(len)
    PROVE  PacketInv'
  <1> DEFINE a == Align(len)
             n == Align(a + HDR)
             class == CASE n + 16 <= SMALL -> SMALL
                        [] n + 16 > SMALL /\ n + 16 <= MED -> MED
                        [] OTHER -> LARGE
  <1>1. a \in Nat /\ a >= 1
    BY AlignFacts
  <1>2. n \in Nat /\ n >= a + HDR
    <2> HIDE DEF a
    <2>1. a + HDR \in Nat
      BY <1>1 DEF HDR
    <2> QED BY <2>1, AlignFacts
  <1>3. /\ pc = "new" /\ pc' = "cut" /\ n + 16 <= LARGE
        /\ pkt' = [kind |-> "control", size |-> a + HDR, psize |-> a + HDR,
                   newlen |-> HDR + class, room |-> 2 * (HDR + class),
                   written |-> 2 * HDR + a]
        /\ UNCHANGED <<now, obfvars, deobfvars>>
    BY DEF PrepareControl
  <1> HIDE DEF a, n
  <1>4. class \in {176, 640, 1440} /\ class >= n + 16
    BY <1>2, <1>3 DEF SMALL, MED, LARGE
  <1> HIDE DEF class
  <1>5. a + 28 <= class - 16 /\ class % 16 = 0
    BY <1>1, <1>2, <1>4 DEF HDR
  <1>6. Sized'
    BY <1>1, <1>3, <1>4, <1>5 DEF Sized, Pcs, Kinds, Dlen, HDR
  <1> QED BY <1>3, <1>6, Prepared

-----------------------------------------------------------------------------
(* Cutting the packet into blocks.                                          *)

\* A block that is not the last one ends where the next one begins.
LEMMA TotalInside ==
    ASSUME blks' \in 2 .. 7, bloc' \in [Blocks' -> Nat]
    PROVE  \A k \in Blocks' : k # blks' - 1 => Total(k)' = bloc'[k + 1] - bloc'[k]
  <1> SUFFICES ASSUME NEW k \in Blocks', k # blks' - 1
               PROVE  Total(k)' = bloc'[k + 1] - bloc'[k]
    OBVIOUS
  <1>1. PICK b \in 2 .. 7 : b = blks'
    OBVIOUS
  <1>2. k \in 0 .. (b - 1) /\ k # b - 1 /\ Blocks' = 0 .. (b - 1)
    BY <1>1 DEF Blocks
  <1>3. k + 1 \in 0 .. (b - 1)
    BY <1>2
  <1>4. bloc'[k] \in Nat /\ bloc'[k + 1] \in Nat
    BY <1>2, <1>3
  <1> QED BY <1>4 DEF Total, Whole

\* The blocks, their headers and the padding fill the data's length.
LEMMA AllNeeded ==
    ASSUME blks' \in 2 .. 7, bloc' \in [Blocks' -> Nat], bloc'[0] = 0,
           pkt'.psize \in Nat, pkt'.newlen \in Nat,
           \A k \in Blocks' : blen'[k] = Whole(k)' /\ Whole(k)' >= 2
    PROVE  (0 + Needs(0) + Needs(1) + Needs(2) + Needs(3) + Needs(4) + Needs(5)
              + Needs(6) = Dlen)'
  <1>0. \A k \in Blocks' : Needs(k)' = 3 + Total(k)'
    BY DEF Needs
  <1>1. \A k \in Blocks' : k # blks' - 1 => Total(k)' = bloc'[k + 1] - bloc'[k]
    BY TotalInside
  <1>2. Total(blks - 1)' = pkt'.psize - bloc'[blks' - 1] + (Dlen' - (pkt'.psize + blks' * 3))
    BY DEF Total, Whole, PadSize
  <1>3. \A k \in Int : k \notin Blocks' => Needs(k)' = 0
    BY DEF Needs
  <1>4. Dlen' \in Int
    BY DEF Dlen, HDR
  <1>5. CASE blks' = 2
    <2>1. Blocks' = {0, 1}
      BY <1>5 DEF Blocks
    <2> QED BY <2>1, <1>5, <1>0, <1>1, <1>2, <1>3, <1>4
  <1>6. CASE blks' = 3
    <2>1. Blocks' = {0, 1, 2}
      BY <1>6 DEF Blocks
    <2> QED BY <2>1, <1>6, <1>0, <1>1, <1>2, <1>3, <1>4
  <1>7. CASE blks' = 4
    <2>1. Blocks' = {0, 1, 2, 3}
      BY <1>7 DEF Blocks
    <2> QED BY <2>1, <1>7, <1>0, <1>1, <1>2, <1>3, <1>4
  <1>8. CASE blks' = 5
    <2>1. Blocks' = {0, 1, 2, 3, 4}
      BY <1>8 DEF Blocks
    <2> QED BY <2>1, <1>8, <1>0, <1>1, <1>2, <1>3, <1>4
  <1>9. CASE blks' = 6
    <2>1. Blocks' = {0, 1, 2, 3, 4, 5}
      BY <1>9 DEF Blocks
    <2> QED BY <2>1, <1>9, <1>0, <1>1, <1>2, <1>3, <1>4
  <1>10. CASE blks' = 7
    <2>1. Blocks' = {0, 1, 2, 3, 4, 5, 6}
      BY <1>10 DEF Blocks
    <2> QED BY <2>1, <1>10, <1>0, <1>1, <1>2, <1>3, <1>4
  <1> QED BY <1>5, <1>6, <1>7, <1>8, <1>9, <1>10

\* obfuscate up to the loop that moves the blocks.
LEMMA CutBlocksInv ==
    ASSUME PacketInv, NEW usec \in Usecs, CutBlocks(usec)
    PROVE  PacketInv'
  <1> DEFINE b == NumBlocks(pkt.psize, usec)
             p == pkt.psize
  <1>1. usec \in Nat /\ Bytes \subseteq Nat
    BY SizesFit
  <1>2. /\ pc = "cut" /\ p \in Nat /\ p >= 20 /\ pkt.newlen \in Nat /\ Dlen \in Int
        /\ pkt.kind # "addmss" => Dlen >= p + 6
        /\ pkt.kind = "addmss" => Dlen < p
        /\ pkt' = pkt /\ Dlen' = Dlen /\ hdrs' = hdrs /\ hdrs = <<>> /\ pad' = pad
        /\ dloc' = dloc /\ nsort' = nsort
        /\ now' = usec /\ blks' = b /\ idx' = 0 /\ bct' = 1
    BY DEF PacketInv, Sized, Fresh, CutBlocks, Dlen, HDR, deobfvars
  <1>3. CASE pkt.kind = "addmss"
    <2>1. b <= 0
      BY <1>1, <1>2, <1>3, NoBlocks
    <2>2. pc' = "failed"
      BY <2>1 DEF CutBlocks
    <2>3. ~AfterCut'
      BY <2>2 DEF AfterCut
    <2>4. Sized'
      BY <1>2, <1>3, <2>2 DEF PacketInv, Sized, Pcs
    <2>5. Fresh'
      BY <1>2, <2>2 DEF PacketInv, Fresh
    <2>6. Padding' /\ Sorted' /\ RoundTrip'
      BY <1>2, <2>2 DEF PacketInv, Padding, PadInside, Sorted, RoundTrip
    <2> QED BY <2>3, <2>4, <2>5, <2>6 DEF PacketInv, Cut, Filled, Headers, Moved
  <1>4. CASE pkt.kind # "addmss"
    <2>1. b \in 2 .. 7 /\ 3 * b <= Dlen - p /\ p \div b >= 10
      BY <1>1, <1>2, <1>4, NumBlocksFacts
    <2>2. PICK bytes \in [1 .. (b - 1) -> Bytes] :
             bloc' = [k \in 0 .. (b - 1) |-> IF k = 0 THEN 0 ELSE Border(p \div b, k, bytes[k])]
      BY <2>1 DEF CutBlocks
    <2>3. /\ pc' = "move" /\ cur' = IF b < 3 THEN 1 ELSE b - 1
          /\ blen' = [k \in 0 .. (b - 1) |->
                        IF k = b - 1 THEN p - bloc'[k] ELSE bloc'[k + 1] - bloc'[k]]
      BY <2>1 DEF CutBlocks
    <2> HIDE DEF b, p
    <2>4. p \div b \in Nat /\ b * (p \div b) <= p
      <3>1. b \in {2, 3, 4, 5, 6, 7}
        BY <2>1
      <3>2. CASE b = 2
        BY <3>2, <1>2
      <3>3. CASE b = 3
        BY <3>3, <1>2
      <3>4. CASE b = 4
        BY <3>4, <1>2
      <3>5. CASE b = 5
        BY <3>5, <1>2
      <3>6. CASE b = 6
        BY <3>6, <1>2
      <3>7. CASE b = 7
        BY <3>7, <1>2
      <3> QED BY <3>1, <3>2, <3>3, <3>4, <3>5, <3>6, <3>7
    <2>5. /\ bloc' \in [0 .. (b - 1) -> Nat] /\ bloc'[0] = 0 /\ bloc'[1] >= 4
          /\ \A k \in 0 .. (b - 1) :
                (IF k = b - 1 THEN p - bloc'[k] ELSE bloc'[k + 1] - bloc'[k]) >= 2
      <3>1. bytes \in [1 .. (b - 1) -> Nat]
        BY <1>1
      <3>2. b * (p \div b) <= p /\ p \div b \in Nat /\ p \div b >= 10
        BY <2>1, <2>4
      <3> DEFINE n == p \div b
      <3>3. n \in Nat /\ n >= 10 /\ b * n <= p /\ p \in Nat
        BY <3>2, <1>2
      <3>4. bloc'[0] = 0 /\ \A k \in 1 .. (b - 1) : bloc'[k] = Border(n, k, bytes[k])
        BY <2>1, <2>2
      <3>0. b \in 2 .. 7
        BY <2>1
      <3> HIDE DEF n
      <3> DEFINE loc == bloc'
      <3>7. loc[0] = 0 /\ \A k \in 1 .. (b - 1) : loc[k] = Border(n, k, bytes[k])
        BY <3>4
      <3> HIDE DEF loc
      <3>8. /\ \A k \in 0 .. (b - 1) : loc[k] \in Nat
            /\ loc[1] >= 4
            /\ \A k \in 0 .. (b - 1) :
                  (IF k = b - 1 THEN p - loc[k] ELSE loc[k + 1] - loc[k]) >= 2
        <4> USE <3>0, <3>1, <3>3, <3>7
        <4> DEFINE m == Mask(n)
        <4>1. m \in Nat /\ n >= 2 * m + 2 /\ n >= m + 4
          BY BorderFacts, 0 \in Nat
        <4>2. \A k \in 1 .. (b - 1) : loc[k] \in Int /\ n * k - m <= loc[k] /\ loc[k] <= n * k + m
          <5> TAKE k \in 1 .. (b - 1)
          <5>1. k \in Nat /\ bytes[k] \in Nat /\ loc[k] = Border(n, k, bytes[k])
            OBVIOUS
          <5> QED BY <5>1, BorderFacts
        <4>3. loc[0] = 0
          OBVIOUS
        <4> HIDE DEF m
        <4>4. \A k \in 1 .. (b - 1) : n * k >= n /\ n * k \in Nat
          <5> TAKE k \in 1 .. (b - 1)
          <5> QED BY k \in {1, 2, 3, 4, 5, 6}
        <4>5. \A k \in 1 .. (b - 1) : loc[k] >= 4
          <5> TAKE k \in 1 .. (b - 1)
          <5> DEFINE x == n * k
          <5>1. x \in Nat /\ x >= n /\ loc[k] \in Int /\ x - m <= loc[k]
            BY <4>2, <4>4
          <5> HIDE DEF x
          <5> QED BY <5>1, <4>1
        <4>6. \A k \in 0 .. (b - 1) : loc[k] \in Nat
          <5> TAKE k \in 0 .. (b - 1)
          <5>1. CASE k = 0
            BY <5>1, <4>3
          <5>2. CASE k # 0
            <6>1. k \in 1 .. (b - 1)
              BY <5>2
            <6>2. loc[k] \in Int /\ loc[k] >= 4
              BY <6>1, <4>2, <4>5
            <6> QED BY <6>2
          <5> QED BY <5>1, <5>2
        <4>7. \A k \in 1 .. (b - 2) : loc[k + 1] - loc[k] >= 2
          <5> TAKE k \in 1 .. (b - 2)
          <5> DEFINE x == n * k
                     y == n * (k + 1)
          <5>1. y = x + n /\ x \in Nat
            BY <4>4
          <5>2. k \in 1 .. (b - 1) /\ k + 1 \in 1 .. (b - 1)
            OBVIOUS
          <5>3. loc[k] \in Int /\ loc[k] <= x + m /\ loc[k + 1] \in Int /\ x + n - m <= loc[k + 1]
            <6>1. loc[k] \in Int /\ loc[k] <= x + m
              BY <5>2, <4>2
            <6>2. loc[k + 1] \in Int /\ y - m <= loc[k + 1]
              BY <5>2, <4>2
            <6> HIDE DEF x, y
            <6> QED BY <6>1, <6>2, <5>1, <4>1
          <5> HIDE DEF x
          <5> QED BY <5>1, <5>3, <4>1
        <4>8. p - loc[b - 1] >= 2
          <5>1. n * b = n * (b - 1) + n /\ n * b = b * n
            OBVIOUS
          <5>2. b - 1 \in 1 .. (b - 1)
            OBVIOUS
          <5> QED BY <5>1, <5>2, <4>1, <4>2, <4>4
        <4>9. loc[1] >= 4
          BY <4>5, 1 \in 1 .. (b - 1)
        <4>10. \A k \in 0 .. (b - 1) :
                 (IF k = b - 1 THEN p - loc[k] ELSE loc[k + 1] - loc[k]) >= 2
          <5> TAKE k \in 0 .. (b - 1)
          <5>1. CASE k = b - 1
            BY <5>1, <4>8
          <5>2. CASE k = 0
            BY <5>2, <4>3, <4>9, <4>6
          <5>3. CASE k # 0 /\ k # b - 1
            BY <5>3, <4>7
          <5> QED BY <5>1, <5>2, <5>3
        <4> QED BY <4>3, <4>6, <4>9, <4>10
      <3>5. /\ \A k \in 0 .. (b - 1) : bloc'[k] \in Nat
            /\ bloc'[1] >= 4
            /\ \A k \in 0 .. (b - 1) :
                  (IF k = b - 1 THEN p - bloc'[k] ELSE bloc'[k + 1] - bloc'[k]) >= 2
        BY <3>8 DEF loc
      <3>6. bloc' \in [0 .. (b - 1) -> Nat]
        BY <2>2, <3>5
      <3> QED BY <3>4, <3>5, <3>6
    <2>6. Blocks' = 0 .. (b - 1) /\ pkt'.psize = p /\ blks' = b
      BY <1>2 DEF Blocks, p
    <2>7. \A k \in Blocks' : blen'[k] = Whole(k)' /\ Whole(k)' >= 2
      BY <2>3, <2>5, <2>6 DEF Whole
    <2>8. Whole(0)' >= 4 /\ PadSize' >= 0
      <3>1. Whole(0)' = bloc'[1]
        BY <2>1, <2>5, <2>6 DEF Whole
      <3> QED BY <3>1, <2>1, <2>5, <2>6, <1>2 DEF PadSize
    <2>9. Cut'
      <3>1. pkt'.kind # "addmss" /\ blks' \in 2 .. 7 /\ now' \in Nat /\ bct' \in Nat \ {0}
        BY <1>1, <1>2, <1>4, <2>1, <2>6
      <3>2. cur' \in Blocks' /\ cur' # 0
        BY <2>1, <2>3, <2>6
      <3>3. blen' \in [Blocks' -> Nat]
        BY <1>2, <2>1, <2>3, <2>5, <2>6
      <3>4. idx' \in Nat /\ pc' # "pad" /\ \A k \in Blocks' : blen'[k] # 0
        BY <1>2, <2>1, <2>3, <2>5, <2>6, <2>7
      <3> QED BY <3>1, <3>2, <3>3, <3>4, <2>5, <2>6, <2>7, <2>8 DEF Cut
    <2>10. Filled'
      <3>1. (0 + Needs(0) + Needs(1) + Needs(2) + Needs(3) + Needs(4) + Needs(5)
               + Needs(6) = Dlen)'
        <4>1. /\ blks' \in 2 .. 7 /\ bloc' \in [Blocks' -> Nat] /\ bloc'[0] = 0
              /\ pkt'.psize \in Nat /\ pkt'.newlen \in Nat
          BY <1>2, <2>1, <2>5, <2>6
        <4> QED BY <4>1, <2>7, AllNeeded
      <3>2. End' = 0
        BY <2>3, <1>2 DEF End
      <3> QED BY <3>1, <3>2 DEF Filled
    <2>11. Headers' /\ Moved'
      <3>1. DOMAIN hdrs' = {} /\ End' = 0
        BY <1>2, <2>3 DEF End
      <3>2. \A k \in Blocks' : blen'[k] # 0
        BY <1>2, <2>1, <2>3, <2>5, <2>6, <2>7
      <3> QED BY <3>1, <3>2, <2>3 DEF Headers, Moved
    <2>12. Sized' /\ Fresh' /\ Padding' /\ Sorted' /\ RoundTrip'
      <3>1. Sized'
        BY <1>2, <1>4, <2>3 DEF PacketInv, Sized, Pcs
      <3>2. Fresh'
        BY <1>2, <2>3 DEF PacketInv, Fresh
      <3>3. Padding' /\ Sorted' /\ RoundTrip'
        BY <1>2, <2>3 DEF PacketInv, Padding, PadInside, Sorted, RoundTrip
      <3> QED BY <3>1, <3>2, <3>3
    <2> QED BY <2>9, <2>10, <2>11, <2>12 DEF PacketInv
  <1> QED BY <1>3, <1>4

-----------------------------------------------------------------------------
(* Moving the blocks.                                                       *)

\* The blocks in plain numbers.
LEMMA BlockTypes ==
    ASSUME PacketInv, AfterCut
    PROVE  /\ Dlen \in Int /\ PadSize \in Nat /\ pkt.psize \in Nat
           /\ \A k \in Blocks : /\ k \in 0 .. 6 /\ Whole(k) \in Nat /\ Whole(k) >= 2
                                /\ Total(k) \in Nat /\ Total(k) >= 2
                                /\ bloc[k] \in Nat /\ bloc[k] <= pkt.psize
           /\ \A k : Needs(k) \in Nat
  <1>1. /\ pkt.psize \in Nat /\ pkt.newlen \in Nat /\ blks \in 2 .. 7 /\ PadSize >= 0
        /\ bloc \in [Blocks -> Nat] /\ \A k \in Blocks : Whole(k) >= 2
    BY DEF PacketInv, Sized, Cut
  <1>2. Dlen \in Int /\ PadSize \in Nat
    BY <1>1 DEF Dlen, HDR, PadSize
  <1>3. \A k \in Blocks : k \in 0 .. 6 /\ (k # blks - 1 => k + 1 \in Blocks)
    BY <1>1 DEF Blocks
  <1>4. \A k \in Blocks : bloc[k] \in Nat /\ (k # blks - 1 => bloc[k + 1] \in Nat)
    BY <1>1, <1>3
  <1>5. \A k \in Blocks : Whole(k) \in Nat
    <2> TAKE k \in Blocks
    <2>1. Whole(k) \in Int
      BY <1>1, <1>4 DEF Whole
    <2> QED BY <2>1, <1>1
  <1>6. \A k \in Blocks : Total(k) \in Nat /\ Total(k) >= 2
    BY <1>1, <1>2, <1>5 DEF Total
  <1>7. \A k \in Blocks : bloc[k] <= pkt.psize
    <2>1. blks - 1 \in Blocks
      BY <1>1 DEF Blocks
    <2>2. bloc[blks - 1] <= pkt.psize
      BY <1>1, <1>4, <2>1 DEF Whole
    <2>3. \A k \in Blocks : k # blks - 1 => bloc[k] <= bloc[k + 1]
      BY <1>1, <1>3, <1>4 DEF Whole
    <2>4. CASE blks = 2
      <3>1. Blocks = {0, 1}  BY <2>4 DEF Blocks
      <3> QED BY <3>1, <2>4, <2>2, <2>3, <1>4, <1>1
    <2>5. CASE blks = 3
      <3>1. Blocks = {0, 1, 2}  BY <2>5 DEF Blocks
      <3> QED BY <3>1, <2>5, <2>2, <2>3, <1>4, <1>1
    <2>6. CASE blks = 4
      <3>1. Blocks = {0, 1, 2, 3}  BY <2>6 DEF Blocks
      <3> QED BY <3>1, <2>6, <2>2, <2>3, <1>4, <1>1
    <2>7. CASE blks = 5
      <3>1. Blocks = {0, 1, 2, 3, 4}  BY <2>7 DEF Blocks
      <3> QED BY <3>1, <2>7, <2>2, <2>3, <1>4, <1>1
    <2>8. CASE blks = 6
      <3>1. Blocks = {0, 1, 2, 3, 4, 5}  BY <2>8 DEF Blocks
      <3> QED BY <3>1, <2>8, <2>2, <2>3, <1>4, <1>1
    <2>9. CASE blks = 7
      <3>1. Blocks = {0, 1, 2, 3, 4, 5, 6}  BY <2>9 DEF Blocks
      <3> QED BY <3>1, <2>9, <2>2, <2>3, <1>4, <1>1
    <2> QED BY <1>1, <2>4, <2>5, <2>6, <2>7, <2>8, <2>9
  <1>8. \A k : Needs(k) \in Nat
    BY <1>6 DEF Needs
  <1> QED BY <1>1, <1>2, <1>3, <1>4, <1>5, <1>6, <1>7, <1>8

\* While data is missing, a block is left.
LEMMA BlockLeft ==
    ASSUME PacketInv, pc = "move", idx < Dlen
    PROVE  \E k \in Blocks : blen[k] # 0
  <1> SUFFICES ASSUME \A k \in Blocks : blen[k] = 0
               PROVE  FALSE
    OBVIOUS
  <1>1. \A k : Needs(k) = 0
    BY DEF Needs
  <1>2. AfterCut /\ End = idx
    BY DEF AfterCut, End
  <1>3. idx \in Nat /\ Dlen \in Int
    BY <1>2, BlockTypes DEF PacketInv, Cut
  <1>4. idx + 0 + 0 + 0 + 0 + 0 + 0 + 0 = Dlen
    BY <1>1, <1>2 DEF PacketInv, Filled
  <1> QED BY <1>3, <1>4

\* The block that obfuscate moves next has not been moved yet, and it is not
\* the first one when nothing has been moved.
LEMMA NextBlock ==
    ASSUME PacketInv, MoveBlock
    PROVE  /\ cur' \in Blocks /\ blen[cur'] # 0 /\ (idx = 0 => cur' # 0)
           /\ bct' \in Nat \ {0}
  <1> DEFINE up == IF bct * 2 > now THEN 1 ELSE bct * 2
             c1 == Unused(cur)
             c2 == IF (now \div up) % 2 = 0 THEN Unused((c1 + 1) % blks) ELSE c1
  <1>1. /\ pc = "move" /\ idx < Dlen /\ cur' = IF idx = 0 THEN cur ELSE c2
        /\ bct' = IF idx = 0 THEN bct ELSE up
    BY DEF MoveBlock
  <1>2. AfterCut
    BY <1>1 DEF AfterCut
  <1>3. /\ blks \in 2 .. 7 /\ bct \in Nat \ {0} /\ cur \in Blocks
        /\ idx = 0 => cur # 0 /\ \A k \in Blocks : blen[k] # 0
    BY <1>1, <1>2 DEF PacketInv, Cut
  <1>4. PICK k \in Blocks : blen[k] # 0
    BY <1>1, BlockLeft
  <1>5. c1 \in Blocks /\ blen[c1] # 0
    BY <1>3, <1>4, UnusedFound
  <1>6. (c1 + 1) % blks \in Blocks
    BY <1>3, <1>5, Around DEF Blocks
  <1>7. c2 \in Blocks /\ blen[c2] # 0
    <2> HIDE DEF c1, up
    <2>1. Unused((c1 + 1) % blks) \in Blocks /\ blen[Unused((c1 + 1) % blks)] # 0
      BY <1>3, <1>4, <1>6, UnusedFound
    <2> QED BY <1>5, <2>1
  <1>8. up \in Nat \ {0}
    BY <1>3
  <1> HIDE DEF c2, up
  <1> QED BY <1>1, <1>3, <1>7, <1>8

\* Moving the last block begins the padding.
LEMMA PadIsSet ==
    ASSUME MoveBlock, blen[cur'] \in Nat, blen[cur'] # 0, cur' = blks - 1
    PROVE  \E hdr \in IPHdrs : pad' = [left |-> PadSize, loc |-> bloc[cur'],
                                        dl |-> PadStart(hdr), at |-> 0, n |-> 0]
  <1> DEFINE up == IF bct * 2 > now THEN 1 ELSE bct * 2
             c1 == Unused(cur)
             c2 == IF (now \div up) % 2 = 0 THEN Unused((c1 + 1) % blks) ELSE c1
             c == IF idx = 0 THEN cur ELSE c2
  <1>1. cur' = c
    BY DEF MoveBlock
  <1>2. ~(blen[c] <= 0)
    BY <1>1
  <1>3. /\ c = cur'
        /\ \E hdr \in IPHdrs : pad' = [left |-> PadSize, loc |-> bloc[c],
                                        dl |-> PadStart(hdr), at |-> 0, n |-> 0]
    BY <1>1, <1>2 DEF MoveBlock
  <1> QED BY <1>3

\* No other block does.
LEMMA PadIsKept ==
    ASSUME MoveBlock, blen[cur'] \in Nat, blen[cur'] # 0, cur' # blks - 1
    PROVE  pad' = pad
  <1> DEFINE up == IF bct * 2 > now THEN 1 ELSE bct * 2
             c1 == Unused(cur)
             c2 == IF (now \div up) % 2 = 0 THEN Unused((c1 + 1) % blks) ELSE c1
             c == IF idx = 0 THEN cur ELSE c2
  <1>1. cur' = c
    BY DEF MoveBlock
  <1>2. ~(blen[c] <= 0)
    BY <1>1
  <1>3. c = cur' /\ c # blks - 1
    BY <1>1
  <1> QED BY <1>2, <1>3 DEF MoveBlock

\* Moving a block keeps the blocks.
LEMMA MoveCut ==
    ASSUME PacketInv, MoveBlock
    PROVE  /\ Cut' /\ pc = "move" /\ AfterCut /\ AfterCut' /\ Blocks' = Blocks
           /\ pc' = IF cur' = blks - 1 THEN "pad" ELSE "move"
           /\ idx \in Nat /\ idx' = idx + 3 + Whole(cur') /\ blen[cur'] = Whole(cur')
           /\ blen' = [blen EXCEPT ![cur'] = 0]
           /\ Dlen' = Dlen /\ PadSize' = PadSize /\ bloc' = bloc /\ blks' = blks
           /\ \A k : Whole(k)' = Whole(k) /\ Total(k)' = Total(k)
           /\ End = idx /\ End' = idx + 3 + Total(cur')
           /\ hdrs' = [o \in DOMAIN hdrs \cup {idx} |->
                         IF o = idx THEN [id |-> cur', len |-> Total(cur')] ELSE hdrs[o]]
           /\ segs' = [o \in DOMAIN segs \cup {idx + 3} |->
                         IF o = idx + 3 THEN bloc[cur'] ELSE segs[o]]
           /\ pkt' = pkt /\ dloc' = dloc /\ nsort' = nsort
  <1> DEFINE c == cur'
             padsz == IF c = blks - 1 THEN PadSize ELSE 0
  <1>1. pc = "move" /\ AfterCut
    BY DEF MoveBlock, AfterCut
  <1>2. /\ blks \in 2 .. 7 /\ now \in Nat /\ idx \in Nat /\ blen \in [Blocks -> Nat]
        /\ \A k \in Blocks : blen[k] \in {0, Whole(k)}
        /\ pkt.kind # "addmss" /\ PadSize >= 0
        /\ bloc \in [Blocks -> Nat] /\ bloc[0] = 0 /\ Whole(0) >= 4
        /\ \A k \in Blocks : Whole(k) >= 2
    BY <1>1 DEF PacketInv, Cut
  <1>3. c \in Blocks /\ blen[c] # 0 /\ bct' \in Nat \ {0}
    BY NextBlock
  <1>4. blen[c] = Whole(c) /\ Whole(c) \in Nat /\ Whole(c) >= 2 /\ PadSize \in Nat
    BY <1>1, <1>2, <1>3, BlockTypes
  <1>5. /\ hdrs' = [o \in DOMAIN hdrs \cup {idx} |->
                      IF o = idx THEN [id |-> c, len |-> blen[c] + padsz] ELSE hdrs[o]]
        /\ segs' = [o \in DOMAIN segs \cup {idx + 3} |->
                      IF o = idx + 3 THEN bloc[c] ELSE segs[o]]
        /\ ~(blen[c] <= 0) => /\ idx' = idx + 3 + blen[c]
                              /\ blen' = [blen EXCEPT ![c] = 0]
                              /\ pc' = IF c = blks - 1 THEN "pad" ELSE "move"
        /\ pkt' = pkt /\ now' = now /\ blks' = blks /\ bloc' = bloc
        /\ dloc' = dloc /\ nsort' = nsort
    <2> DEFINE up == IF bct * 2 > now THEN 1 ELSE bct * 2
               c1 == Unused(cur)
               c2 == IF (now \div up) % 2 = 0 THEN Unused((c1 + 1) % blks) ELSE c1
    <2>1. c = (IF idx = 0 THEN cur ELSE c2)
      BY DEF MoveBlock
    <2> HIDE DEF c
    <2> QED BY <1>1, <2>1 DEF MoveBlock, deobfvars
  <1>6. /\ Blocks' = Blocks /\ Dlen' = Dlen /\ PadSize' = PadSize
        /\ \A k : Whole(k)' = Whole(k)
    BY <1>5 DEF Blocks, Dlen, PadSize, Whole
  <1>7. \A k : Total(k)' = Total(k)
    BY <1>5, <1>6 DEF Total
  <1> HIDE DEF c
  <1>8. /\ idx' = idx + 3 + Whole(c) /\ blen' = [blen EXCEPT ![c] = 0]
        /\ pc' = IF c = blks - 1 THEN "pad" ELSE "move"
    BY <1>4, <1>5
  <1>9. Total(c) = blen[c] + padsz
    BY <1>4 DEF Total
  <1>10. End = idx /\ End' = idx + 3 + Total(c) /\ AfterCut'
    <2>1. End = idx /\ AfterCut'
      BY <1>1, <1>8 DEF End, AfterCut
    <2>2. CASE c = blks - 1
      <3>1. pc' = "pad" /\ pad'.left = PadSize
        <4>1. \E hdr \in IPHdrs : pad' = [left |-> PadSize, loc |-> bloc[c],
                                           dl |-> PadStart(hdr), at |-> 0, n |-> 0]
          BY PadIsSet, <1>1, <1>3, <1>4, <2>2 DEF c
        <4> QED BY <4>1, <1>8, <2>2
      <3>2. End' = idx' + pad'.left
        BY <3>1 DEF End
      <3>3. idx' = idx + 3 + blen[c] /\ Total(c) = blen[c] + PadSize /\ blen[c] \in Nat
        BY <2>2, <1>4, <1>8, <1>9
      <3> QED BY <3>1, <3>2, <3>3, <1>2, <1>4, <2>1
    <2>3. CASE c # blks - 1
      <3>1. End' = idx'
        BY <2>3, <1>8 DEF End
      <3>2. idx' = idx + 3 + blen[c] /\ Total(c) = blen[c] + 0 /\ blen[c] \in Nat
        BY <2>3, <1>4, <1>8, <1>9
      <3> QED BY <3>1, <3>2, <2>1
    <2> QED BY <2>1, <2>2, <2>3
  <1>11. Cut'
    <2>1. blen' \in [Blocks -> Nat] /\ \A k \in Blocks : blen'[k] \in {0, Whole(k)}
      BY <1>2, <1>3, <1>8
    <2>2. idx' \in Nat /\ idx' > 0 /\ cur' \in Blocks
      BY <1>2, <1>3, <1>4, <1>8 DEF c
    <2> QED BY <1>2, <1>3, <1>5, <1>6, <2>1, <2>2 DEF Cut
  <1> QED BY <1>1, <1>2, <1>4, <1>5, <1>6, <1>7, <1>8, <1>9, <1>10, <1>11 DEF c

\* What is written and what is missing stays the data's length.
LEMMA MoveFilled ==
    ASSUME PacketInv, MoveBlock
    PROVE  Filled'
  <1> DEFINE c == cur'
  <1>1. /\ AfterCut /\ AfterCut' /\ End = idx /\ End' = idx + 3 + Total(c) /\ idx \in Nat
        /\ blen' = [blen EXCEPT ![c] = 0] /\ Blocks' = Blocks /\ Dlen' = Dlen
        /\ \A k : Total(k)' = Total(k)
    BY MoveCut
  <1>2. c \in Blocks /\ blen[c] # 0
    BY NextBlock
  <1>3. blen \in [Blocks -> Nat]
    BY <1>1 DEF PacketInv, Cut
  <1>4. c \in 0 .. 6 /\ Total(c) \in Nat /\ \A k : Needs(k) \in Nat
    BY <1>1, <1>2, BlockTypes
  <1>5. End + Needs(0) + Needs(1) + Needs(2) + Needs(3) + Needs(4) + Needs(5) + Needs(6) = Dlen
    BY <1>1 DEF PacketInv, Filled
  <1> HIDE DEF c
  <1>6. Needs(c) = 3 + Total(c) /\ \A k : k = c => Needs(k)' = 0
    <2>1. blen'[c] = 0
      BY <1>1, <1>2, <1>3
    <2> QED BY <2>1, <1>1, <1>2 DEF Needs
  <1>7. \A k : k # c => Needs(k)' = Needs(k)
    BY <1>1, <1>3 DEF Needs
  <1>8. (End + Needs(0) + Needs(1) + Needs(2) + Needs(3) + Needs(4) + Needs(5) + Needs(6))' = Dlen
    <2> DEFINE e == End'
               N(k) == Needs(k)
               M(k) == Needs(k)'
    <2>1. /\ e = idx + N(c)
          /\ \A k : M(k) = (IF k = c THEN 0 ELSE N(k)) /\ N(k) \in Nat
      BY <1>1, <1>4, <1>6, <1>7
    <2>2. idx + N(0) + N(1) + N(2) + N(3) + N(4) + N(5) + N(6) = Dlen
      BY <1>1, <1>5
    <2> HIDE DEF e, N, M
    <2>3. c \in {0, 1, 2, 3, 4, 5, 6}
      BY <1>4
    <2>4. e + M(0) + M(1) + M(2) + M(3) + M(4) + M(5) + M(6) = Dlen
      BY <1>1, <2>1, <2>2, <2>3
    <2> QED BY <2>4 DEF e, M
  <1> QED BY <1>1, <1>8 DEF Filled

\* The new header follows the last one's block.
LEMMA MoveHeaders ==
    ASSUME PacketInv, MoveBlock
    PROVE  Headers' /\ Moved'
  <1> DEFINE c == cur'
             t == Total(c)
             E == idx + 3 + t
             H == hdrs'
  <1>1. /\ AfterCut /\ AfterCut' /\ End = idx /\ End' = E /\ idx \in Nat
        /\ blen' = [blen EXCEPT ![c] = 0] /\ Blocks' = Blocks /\ bloc' = bloc
        /\ \A k : Total(k)' = Total(k)
        /\ hdrs' = [o \in DOMAIN hdrs \cup {idx} |->
                      IF o = idx THEN [id |-> c, len |-> t] ELSE hdrs[o]]
        /\ segs' = [o \in DOMAIN segs \cup {idx + 3} |->
                      IF o = idx + 3 THEN bloc[c] ELSE segs[o]]
        /\ pc' \in {"pad", "move"}
    BY MoveCut
  <1>2. c \in Blocks /\ blen[c] # 0 /\ (idx = 0 => c # 0)
    BY NextBlock
  <1>3. blen \in [Blocks -> Nat]
    BY <1>1 DEF PacketInv, Cut
  <1>4. t \in Nat /\ \A k \in Blocks : Total(k) \in Nat
    BY <1>1, <1>2, BlockTypes
  <1>5. /\ DOMAIN hdrs \subseteq Nat
        /\ \A o \in DOMAIN hdrs :
             /\ hdrs[o].id \in Blocks /\ hdrs[o].len = Total(hdrs[o].id)
             /\ o + 3 \in DOMAIN segs /\ segs[o + 3] = bloc[hdrs[o].id]
             /\ o + 3 + hdrs[o].len <= idx
             /\ o + 3 + hdrs[o].len = idx \/ o + 3 + hdrs[o].len \in DOMAIN hdrs
        /\ \A o, q \in DOMAIN hdrs : o < q => o + 3 + hdrs[o].len <= q
        /\ idx = 0 \/ (0 \in DOMAIN hdrs /\ hdrs[0].id # 0)
    BY <1>1 DEF PacketInv, Headers
  <1>6. \A o \in DOMAIN hdrs : o \in Nat /\ hdrs[o].len \in Nat /\ o < idx
    BY <1>1, <1>4, <1>5
  <1> HIDE DEF c, t
  <1>7. /\ DOMAIN H = DOMAIN hdrs \cup {idx}
        /\ \A o \in DOMAIN hdrs : H[o] = hdrs[o]
        /\ H[idx].id = c /\ H[idx].len = t
    BY <1>1, <1>6
  <1>8. /\ \A o \in DOMAIN hdrs : o + 3 \in DOMAIN segs' /\ segs'[o + 3] = bloc[hdrs[o].id]
        /\ idx + 3 \in DOMAIN segs' /\ segs'[idx + 3] = bloc[c]
    BY <1>1, <1>5, <1>6
  <1> HIDE DEF H
  <1>9. E \in Nat /\ E > idx
    BY <1>1, <1>4
  <1>10. Headers'
    <2>1. DOMAIN H \subseteq Nat
      BY <1>1, <1>5, <1>7
    <2>2. \A o \in DOMAIN H :
             /\ H[o].id \in Blocks /\ H[o].len = Total(H[o].id)
             /\ o + 3 \in DOMAIN segs' /\ segs'[o + 3] = bloc[H[o].id]
      BY <1>2, <1>5, <1>7, <1>8 DEF t
    <2>3. \A o \in DOMAIN H : /\ o + 3 + H[o].len <= E
                              /\ o + 3 + H[o].len = E \/ o + 3 + H[o].len \in DOMAIN H
      <3>1. \A o \in DOMAIN hdrs : /\ o + 3 + H[o].len <= E
                                   /\ o + 3 + H[o].len \in DOMAIN H
        BY <1>1, <1>5, <1>6, <1>7, <1>9
      <3>2. idx + 3 + H[idx].len = E
        BY <1>7
      <3> HIDE DEF E
      <3> QED BY <1>7, <1>9, <3>1, <3>2
    <2>4. \A o, q \in DOMAIN H : o < q => o + 3 + H[o].len <= q
      BY <1>1, <1>5, <1>6, <1>7
    <2>5. 0 \in DOMAIN H /\ H[0].id # 0
      BY <1>1, <1>2, <1>5, <1>7
    <2>6. idx \in DOMAIN H /\ idx + 3 + H[idx].len = E
      BY <1>7
    <2> HIDE DEF E
    <2> QED BY <1>1, <2>1, <2>2, <2>3, <2>4, <2>5, <2>6 DEF Headers, H
  <1>11. Moved'
    <2>1. /\ \A o, q \in DOMAIN hdrs : hdrs[o].id = hdrs[q].id => o = q
          /\ \A k \in Blocks : blen[k] = 0 <=> \E o \in DOMAIN hdrs : hdrs[o].id = k
      BY <1>1 DEF PacketInv, Moved
    <2>2. \A o \in DOMAIN hdrs : hdrs[o].id # c
      BY <1>2, <2>1
    <2>3. \A o, q \in DOMAIN H : H[o].id = H[q].id => o = q
      BY <1>7, <2>1, <2>2
    <2>4. \A k \in Blocks : blen'[k] = 0 <=> \E o \in DOMAIN H : H[o].id = k
      <3> TAKE k \in Blocks
      <3>1. CASE k = c
        BY <3>1, <1>1, <1>2, <1>3, <1>7
      <3>2. CASE k # c
        <4>1. blen'[k] = blen[k]
          BY <3>2, <1>1, <1>3
        <4> QED BY <3>2, <4>1, <1>7, <2>1
      <3> QED BY <3>1, <3>2
    <2> QED BY <1>1, <2>3, <2>4 DEF Moved, H
  <1> QED BY <1>10, <1>11

\* A turn of obfuscate's loop.
LEMMA MoveBlockInv ==
    ASSUME PacketInv, MoveBlock
    PROVE  PacketInv'
  <1>1. /\ Cut' /\ pc = "move" /\ AfterCut /\ pc' = IF cur' = blks - 1 THEN "pad" ELSE "move"
        /\ blen[cur'] = Whole(cur') /\ Dlen' = Dlen
        /\ pkt' = pkt /\ dloc' = dloc /\ nsort' = nsort
    BY MoveCut
  <1>2. Filled' /\ Headers' /\ Moved'
    BY MoveFilled, MoveHeaders
  <1>3. Sized'
    BY <1>1 DEF PacketInv, Sized, Pcs
  <1>4. Fresh' /\ Sorted' /\ RoundTrip'
    BY <1>1 DEF PacketInv, Fresh, Sorted, RoundTrip
  <1>5. Padding'
    <2>1. /\ pkt.psize \in Nat /\ cur' \in Blocks /\ blen[cur'] # 0 /\ blen[cur'] \in Nat
          /\ bloc[cur'] \in Nat /\ bloc[cur'] <= pkt.psize /\ PadSize \in Nat
      BY <1>1, NextBlock, BlockTypes
    <2>2. CASE cur' = blks - 1
      <3>1. PICK hdr \in IPHdrs : pad' = [left |-> PadSize, loc |-> bloc[cur'],
                                          dl |-> PadStart(hdr), at |-> 0, n |-> 0]
        BY <2>1, <2>2, PadIsSet
      <3>2. hdr \in Nat
        BY SizesFit
      <3>3. PadStart(hdr) \in Nat /\ (PadStart(hdr) = 0 \/ PadStart(hdr) + 48 <= pkt.psize)
        BY <2>1, <3>2 DEF PadStart
      <3> QED BY <1>1, <2>1, <3>1, <3>3 DEF Padding, PadInside, HDR
    <2>3. CASE cur' # blks - 1
      <3>1. pc' = "move" /\ pad' = pad
        BY <1>1, <2>1, <2>3, PadIsKept
      <3> QED BY <1>1, <3>1 DEF PacketInv, Padding, PadInside
    <2> QED BY <2>2, <2>3
  <1> QED BY <1>1, <1>2, <1>3, <1>4, <1>5 DEF PacketInv

-----------------------------------------------------------------------------
(* Padding, sending, sorting and joining.                                   *)

\* What a step keeps that leaves the blocks and their headers alone.
LEMMA Kept ==
    ASSUME PacketInv, AfterCut, End' = End, pkt' = pkt, now' = now, blks' = blks,
           bloc' = bloc, blen' = blen, hdrs' = hdrs, segs' = segs, bct' = bct,
           cur' = cur, idx' \in Nat, pc' \in {"move", "pad"} => idx' > 0
    PROVE  /\ Cut' /\ Filled' /\ Headers' /\ Dlen' = Dlen /\ Blocks' = Blocks
           /\ \A k : Total(k)' = Total(k)
  <1>1. /\ Blocks' = Blocks /\ Dlen' = Dlen /\ PadSize' = PadSize
        /\ \A k : Whole(k)' = Whole(k)
    BY DEF Blocks, Dlen, PadSize, Whole
  <1>2. \A k : Total(k)' = Total(k)
    BY <1>1 DEF Total
  <1>3. \A k : Needs(k)' = Needs(k)
    BY <1>1, <1>2 DEF Needs
  <1>4. Cut'
    <2>1. /\ pkt.kind # "addmss" /\ blks \in 2 .. 7 /\ PadSize >= 0
          /\ now \in Nat /\ bct \in Nat \ {0} /\ cur \in Blocks
          /\ bloc \in [Blocks -> Nat] /\ bloc[0] = 0 /\ Whole(0) >= 4
          /\ \A k \in Blocks : Whole(k) >= 2
          /\ blen \in [Blocks -> Nat]
          /\ \A k \in Blocks : blen[k] \in {0, Whole(k)}
      BY DEF PacketInv, Cut
    <2>2. pc' \in {"move", "pad"} => idx' # 0
      OBVIOUS
    <2> QED BY <1>1, <2>1, <2>2 DEF Cut
  <1>5. Filled'
    BY <1>1, <1>3 DEF PacketInv, Filled
  <1>6. Headers'
    <2>1. /\ DOMAIN hdrs \subseteq Nat
          /\ \A o \in DOMAIN hdrs :
               /\ hdrs[o].id \in Blocks /\ hdrs[o].len = Total(hdrs[o].id)
               /\ o + 3 \in DOMAIN segs /\ segs[o + 3] = bloc[hdrs[o].id]
               /\ o + 3 + hdrs[o].len <= End
               /\ o + 3 + hdrs[o].len = End \/ o + 3 + hdrs[o].len \in DOMAIN hdrs
          /\ \A o, q \in DOMAIN hdrs : o < q => o + 3 + hdrs[o].len <= q
          /\ End = 0 \/ (0 \in DOMAIN hdrs /\ hdrs[0].id # 0
                         /\ \E o \in DOMAIN hdrs : o + 3 + hdrs[o].len = End)
      BY DEF PacketInv, Headers
    <2> QED BY <2>1, <1>1, <1>2 DEF Headers
  <1> QED BY <1>1, <1>2, <1>4, <1>5, <1>6

\* What the two outcomes of AddPad have in common.
LEMMA PadStep ==
    ASSUME PacketInv, AfterCut, pc = "pad", pc' \in {"pad", "move"}, Padding', End' = End,
           pkt' = pkt, now' = now, blks' = blks, bloc' = bloc, blen' = blen,
           cur' = cur, bct' = bct, hdrs' = hdrs, segs' = segs, dloc' = dloc,
           nsort' = nsort, idx' \in Nat, idx' > 0
    PROVE  PacketInv'
  <1>1. Cut' /\ Filled' /\ Headers' /\ Dlen' = Dlen /\ Blocks' = Blocks
    BY Kept
  <1>2. Moved'
    BY <1>1 DEF PacketInv, Moved
  <1>3. Sized' /\ Fresh' /\ RoundTrip' /\ Sorted'
    BY <1>1 DEF PacketInv, Sized, Fresh, Pcs, RoundTrip, Sorted
  <1> QED BY <1>1, <1>2, <1>3 DEF PacketInv

\* A turn of the loop that adds pad data.
LEMMA AddPadInv ==
    ASSUME PacketInv, AddPad
    PROVE  PacketInv'
  <1> DEFINE by == (now % 4) + 1
             n == IF pad.left < by THEN pad.left ELSE by
             at == IF pad.loc + n > pkt.psize THEN pad.dl + (pad.loc - pkt.psize) ELSE pad.loc
             loc == at + n + (now % 8) + 7
  <1>1. /\ pc = "pad" /\ pkt' = pkt /\ now' = now /\ blks' = blks /\ bloc' = bloc
        /\ blen' = blen /\ cur' = cur /\ bct' = bct /\ hdrs' = hdrs /\ segs' = segs
        /\ dloc' = dloc /\ nsort' = nsort
    BY DEF AddPad, deobfvars
  <1>2. AfterCut
    BY <1>1 DEF AfterCut
  <1>3. /\ now \in Nat /\ idx \in Nat /\ idx > 0 /\ pkt.psize \in Nat /\ pkt.psize >= 20
        /\ pad.left \in Nat /\ pad.loc \in Int /\ pad.dl \in Nat
        /\ -3 <= pad.loc /\ pad.loc <= pkt.psize + 14
        /\ pad.dl = 0 \/ pad.dl + 48 <= pkt.psize
    BY <1>1, <1>2 DEF PacketInv, Cut, Sized, Padding
  <1>4. CASE pad.left > 0
    <2>1. /\ pad' = [pad EXCEPT !.left = @ - n, !.at = at, !.n = n, !.loc = loc]
          /\ idx' = idx + n /\ pc' = "pad"
      BY <1>1, <1>4 DEF AddPad
    <2>2. by \in 1 .. 4 /\ now % 8 \in 0 .. 7
      BY <1>3
    <2> HIDE DEF by
    <2>3. n \in 1 .. 4 /\ n <= pad.left
      BY <1>3, <1>4, <2>2
    <2> HIDE DEF n
    <2>4. at \in Int /\ -3 <= at /\ at + n <= pkt.psize
      BY <1>3, <2>3
    <2> HIDE DEF at
    <2>5. loc \in Int /\ -3 <= loc /\ loc <= pkt.psize + 14
      BY <1>3, <2>2, <2>3, <2>4
    <2> HIDE DEF loc
    <2>6. /\ pad'.left = pad.left - n /\ pad'.at = at /\ pad'.n = n /\ pad'.loc = loc
          /\ pad'.dl = pad.dl
      BY <2>1 DEF PacketInv, Padding
    <2>7. Padding'
      <3>1. pad \in [left : Int, loc : Int, dl : Int, at : Int, n : Int]
        BY DEF PacketInv, Padding
      <3>2. n \in Int /\ pad.left - n \in Int /\ pad.left - n >= 0 /\ at >= -28
        BY <1>3, <2>3, <2>4
      <3>3. pad' \in [left : Int, loc : Int, dl : Int, at : Int, n : Int]
        BY <2>1, <2>4, <2>5, <3>1, <3>2
      <3> QED BY <1>1, <1>3, <2>4, <2>5, <2>6, <3>2, <3>3 DEF Padding, PadInside, HDR
    <2>8. End' = End
      <3>1. End = idx + pad.left /\ End' = idx' + pad'.left
        BY <1>1, <2>1 DEF End
      <3> QED BY <3>1, <1>3, <2>1, <2>3, <2>6
    <2>9. idx' \in Nat /\ idx' > 0
      BY <1>3, <2>1, <2>3
    <2> QED BY <1>1, <1>2, <2>1, <2>7, <2>8, <2>9, PadStep
  <1>5. CASE ~(pad.left > 0)
    <2>1. pc' = "move" /\ pad' = pad /\ idx' = idx
      BY <1>5 DEF AddPad
    <2>2. Padding'
      BY <1>1, <2>1 DEF PacketInv, Padding, PadInside
    <2>3. End' = End
      BY <1>1, <1>3, <1>5, <2>1 DEF End
    <2> QED BY <1>1, <1>2, <1>3, <2>1, <2>2, <2>3, PadStep
  <1> QED BY <1>4, <1>5

\* The packet is sent when all blocks have been moved.
LEMMA TransmitInv ==
    ASSUME PacketInv, Transmit
    PROVE  PacketInv'
  <1>1. /\ pc = "move" /\ idx >= Dlen /\ pc' = "sort" /\ idx' = 0
        /\ pkt' = pkt /\ now' = now /\ blks' = blks /\ bloc' = bloc
        /\ blen' = blen /\ cur' = cur /\ bct' = bct /\ hdrs' = hdrs /\ segs' = segs
        /\ dloc' = dloc /\ nsort' = nsort /\ pad' = pad
    BY DEF Transmit, deobfvars
  <1>2. AfterCut
    BY <1>1 DEF AfterCut
  <1>3. /\ idx \in Nat /\ Dlen \in Int /\ \A k : Needs(k) \in Nat
        /\ \A k \in Blocks : k \in 0 .. 6 /\ Total(k) \in Nat
    BY <1>2, BlockTypes DEF PacketInv, Cut
  <1>4. Dlen >= 26
    BY <1>1, <1>2, <1>3 DEF PacketInv, Cut, Sized
  <1>5. idx + Needs(0) + Needs(1) + Needs(2) + Needs(3) + Needs(4) + Needs(5) + Needs(6) = Dlen
    BY <1>1, <1>2 DEF PacketInv, Filled, End
  <1>6. idx = Dlen /\ \A k \in 0 .. 6 : Needs(k) = 0
    <2> DEFINE N(k) == Needs(k)
    <2>1. idx + N(0) + N(1) + N(2) + N(3) + N(4) + N(5) + N(6) = Dlen /\ \A k : N(k) \in Nat
      BY <1>3, <1>5
    <2> HIDE DEF N
    <2>2. idx = Dlen /\ N(0) = 0 /\ N(1) = 0 /\ N(2) = 0 /\ N(3) = 0 /\ N(4) = 0
          /\ N(5) = 0 /\ N(6) = 0
      BY <1>1, <1>3, <2>1
    <2>3. \A k \in 0 .. 6 : k \in {0, 1, 2, 3, 4, 5, 6}
      OBVIOUS
    <2>4. \A k \in 0 .. 6 : N(k) = 0
      BY <2>2, <2>3
    <2> QED BY <2>2, <2>4 DEF N
  <1>7. \A k \in Blocks : blen[k] = 0
    BY <1>3, <1>6 DEF Needs
  <1>8. End' = End
    BY <1>1, <1>6 DEF End, Dlen
  <1>9. /\ Cut' /\ Filled' /\ Headers' /\ Dlen' = Dlen /\ Blocks' = Blocks
    <2>1. idx' \in Nat /\ (pc' \in {"move", "pad"} => idx' > 0)
      BY <1>1
    <2> QED BY <1>1, <1>2, <1>8, <2>1, Kept
  <1>10. Moved'
    BY <1>1, <1>2, <1>7, <1>9 DEF PacketInv, Moved
  <1>11. Sized' /\ Fresh' /\ RoundTrip' /\ Padding'
    BY <1>1 DEF PacketInv, Sized, Fresh, Pcs, Dlen, RoundTrip, Padding, PadInside
  <1>12. Sorted'
    <2>1. 0 \in DOMAIN hdrs /\ DOMAIN hdrs \subseteq Nat
      BY <1>1, <1>2, <1>4, <1>6 DEF PacketInv, Headers, End
    <2>2. dloc' = <<>> /\ nsort' = 0
      BY <1>1 DEF PacketInv, Fresh
    <2>3. DOMAIN dloc' = {}
      BY <2>2
    <2>4. \A o \in DOMAIN hdrs : ~(o < 0)
      BY <2>1
    <2>5. {hdrs[o].id : o \in {q \in DOMAIN hdrs : q < 0}} = {}
      BY <2>4
    <2>6. IsFiniteSet(DOMAIN dloc') /\ nsort' = Cardinality(DOMAIN dloc')
      BY <2>2, <2>3, FS_EmptySet
    <2> QED BY <1>1, <1>4, <1>9, <2>1, <2>3, <2>4, <2>5, <2>6 DEF Sorted
  <1> QED BY <1>9, <1>10, <1>11, <1>12 DEF PacketInv

\* What deobfuscate has read are blocks, so that it reads at most 7.
LEMMA SortedBlocks ==
    ASSUME PacketInv, pc \in {"sort", "join"}
    PROVE  /\ DOMAIN dloc \subseteq Blocks /\ IsFiniteSet(Blocks) /\ Cardinality(Blocks) = blks
           /\ IsFiniteSet(DOMAIN dloc) /\ nsort = Cardinality(DOMAIN dloc)
           /\ nsort \in Nat /\ nsort <= blks /\ blks \in 2 .. 7
  <1>1. AfterCut
    BY DEF AfterCut
  <1>2. \A o \in DOMAIN hdrs : hdrs[o].id \in Blocks
    BY <1>1 DEF PacketInv, Headers
  <1>3. /\ DOMAIN dloc = {hdrs[o].id : o \in {q \in DOMAIN hdrs : q < idx}}
        /\ IsFiniteSet(DOMAIN dloc) /\ nsort = Cardinality(DOMAIN dloc)
    BY DEF PacketInv, Sorted
  <1>4. DOMAIN dloc \subseteq Blocks
    BY <1>2, <1>3
  <1>5. blks \in 2 .. 7
    BY <1>1 DEF PacketInv, Cut
  <1>6. IsFiniteSet(Blocks) /\ Cardinality(Blocks) = blks
    <2>1. 0 \in Int /\ blks - 1 \in Int /\ ~(0 > blks - 1) /\ (blks - 1) - 0 + 1 = blks
      BY <1>5
    <2>2. /\ IsFiniteSet(0 .. (blks - 1))
          /\ Cardinality(0 .. (blks - 1)) = IF 0 > blks - 1 THEN 0 ELSE (blks - 1) - 0 + 1
      BY <2>1, FS_Interval
    <2> QED BY <2>1, <2>2 DEF Blocks
  <1>7. nsort <= blks /\ nsort \in Nat
    BY <1>3, <1>4, <1>6, FS_Subset, FS_CardinalityType
  <1> QED BY <1>3, <1>4, <1>5, <1>6, <1>7

\* deobfuscate reads one header; it is there, and its block was not read yet.
LEMMA SortBlockInv ==
    ASSUME PacketInv, SortBlock
    PROVE  PacketInv'
  <1> DEFINE h == hdrs[idx]
             e == idx + 3 + h.len
  <1>1. /\ pc = "sort" /\ pkt' = pkt /\ now' = now /\ blks' = blks /\ bloc' = bloc
        /\ blen' = blen /\ cur' = cur /\ bct' = bct /\ hdrs' = hdrs /\ segs' = segs
        /\ pad' = pad /\ out' = out
    BY DEF SortBlock
  <1>2. AfterCut /\ End = Dlen
    BY <1>1 DEF AfterCut, End
  <1>3. /\ idx \in DOMAIN hdrs /\ idx < Dlen
        /\ DOMAIN dloc = {hdrs[o].id : o \in {q \in DOMAIN hdrs : q < idx}}
        /\ \A o \in DOMAIN hdrs :
             o < idx => dloc[hdrs[o].id] = [at |-> o + 3, len |-> hdrs[o].len]
    BY <1>1, <1>2, BlockTypes DEF PacketInv, Sorted
  <1>4. /\ DOMAIN dloc \subseteq Blocks /\ IsFiniteSet(Blocks) /\ Cardinality(Blocks) = blks
        /\ IsFiniteSet(DOMAIN dloc) /\ nsort = Cardinality(DOMAIN dloc)
        /\ nsort \in Nat /\ nsort <= blks /\ blks \in 2 .. 7
    BY <1>1, SortedBlocks
  <1>5. /\ dloc' = [i \in DOMAIN dloc \cup {h.id} |->
                      IF i = h.id THEN [at |-> idx + 3, len |-> h.len] ELSE dloc[i]]
        /\ idx' = e /\ nsort' = nsort + 1
        /\ pc' = IF e >= Dlen \/ nsort + 1 = 8 THEN "join" ELSE "sort"
    BY <1>3 DEF SortBlock
  <1>6. /\ DOMAIN hdrs \subseteq Nat
        /\ \A o \in DOMAIN hdrs :
             /\ hdrs[o].id \in Blocks /\ hdrs[o].len = Total(hdrs[o].id)
             /\ o + 3 + hdrs[o].len <= Dlen
             /\ o + 3 + hdrs[o].len = Dlen \/ o + 3 + hdrs[o].len \in DOMAIN hdrs
        /\ \A o, q \in DOMAIN hdrs : o < q => o + 3 + hdrs[o].len <= q
    BY <1>2 DEF PacketInv, Headers
  <1>7. \A o, q \in DOMAIN hdrs : hdrs[o].id = hdrs[q].id => o = q
    BY <1>2 DEF PacketInv, Moved
  <1>8. /\ Dlen \in Int /\ idx \in Nat /\ \A o \in DOMAIN hdrs : o \in Nat /\ hdrs[o].len \in Nat
    BY <1>2, <1>3, <1>6, BlockTypes
  <1>9. e \in Nat /\ e > idx /\ e <= Dlen /\ (e = Dlen \/ e \in DOMAIN hdrs)
    BY <1>3, <1>6, <1>8
  <1>10. h.id \in Blocks /\ h.id \notin DOMAIN dloc
    <2>1. \A o \in DOMAIN hdrs : o < idx => hdrs[o].id # h.id
      BY <1>3, <1>7, <1>8
    <2> QED BY <2>1, <1>3, <1>6
  <1> HIDE DEF h
  <1>11. /\ DOMAIN dloc' = DOMAIN dloc \cup {h.id} /\ DOMAIN dloc' \subseteq Blocks
         /\ IsFiniteSet(DOMAIN dloc') /\ Cardinality(DOMAIN dloc') = nsort + 1
    <2>1. DOMAIN dloc' = DOMAIN dloc \cup {h.id}
      BY <1>5
    <2>2. /\ IsFiniteSet(DOMAIN dloc \cup {h.id})
          /\ Cardinality(DOMAIN dloc \cup {h.id}) = Cardinality(DOMAIN dloc) + 1
      BY <1>4, <1>10, FS_AddElement
    <2> QED BY <2>1, <2>2, <1>4, <1>10
  <1>12. nsort + 1 <= blks
    <2> DEFINE S == DOMAIN dloc'
    <2>1. S \subseteq Blocks /\ IsFiniteSet(S) /\ Cardinality(S) = nsort + 1
      BY <1>11
    <2> HIDE DEF S
    <2>2. Cardinality(S) <= Cardinality(Blocks)
      BY <2>1, <1>4, FS_Subset
    <2> QED BY <2>1, <2>2, <1>4
  <1>13. pc' = IF e = Dlen THEN "join" ELSE "sort"
    BY <1>4, <1>5, <1>8, <1>9, <1>12
  <1>14. /\ Cut' /\ Filled' /\ Headers' /\ Dlen' = Dlen /\ Blocks' = Blocks
    <2>1. End' = End
      BY <1>1, <1>2, <1>13 DEF End, Dlen
    <2>2. idx' \in Nat /\ (pc' \in {"move", "pad"} => idx' > 0)
      BY <1>5, <1>9, <1>13
    <2> QED BY <1>1, <1>2, <2>1, <2>2, Kept
  <1>15. Moved'
    BY <1>1, <1>2, <1>14 DEF PacketInv, Moved
  <1>16. Sized' /\ Fresh' /\ RoundTrip' /\ Padding'
    BY <1>1, <1>13 DEF PacketInv, Sized, Fresh, Pcs, Dlen, RoundTrip, Padding, PadInside
  <1>17. Sorted'
    <2>1. \A q \in DOMAIN hdrs : q < e <=> (q < idx \/ q = idx)
      <3> TAKE q \in DOMAIN hdrs
      <3>1. q \in Nat /\ (idx < q => e <= q)
        BY <1>3, <1>6, <1>8 DEF h
      <3> QED BY <3>1, <1>8, <1>9
    <2>2. DOMAIN dloc' = {hdrs[o].id : o \in {q \in DOMAIN hdrs : q < e}}
      <3>1. \A i : i \in DOMAIN dloc \cup {h.id} <=>
                   \E o \in DOMAIN hdrs : (o < idx \/ o = idx) /\ hdrs[o].id = i
        BY <1>3 DEF h
      <3>2. \A i : i \in DOMAIN dloc \cup {h.id} <=>
                   i \in {hdrs[o].id : o \in {q \in DOMAIN hdrs : q < e}}
        <4> HIDE DEF e
        <4> QED BY <3>1, <2>1
      <3> QED BY <3>2, <1>11
    <2>3. \A o \in DOMAIN hdrs :
            o < e => dloc'[hdrs[o].id] = [at |-> o + 3, len |-> hdrs[o].len]
      <3> SUFFICES ASSUME NEW o \in DOMAIN hdrs, o < e
                   PROVE  dloc'[hdrs[o].id] = [at |-> o + 3, len |-> hdrs[o].len]
        OBVIOUS
      <3>1. CASE o = idx
        BY <3>1, <1>5 DEF h
      <3>2. CASE o # idx
        <4>1. o < idx
          BY <2>1, <3>2
        <4>2. hdrs[o].id \in DOMAIN dloc /\ hdrs[o].id # h.id
          BY <4>1, <1>3, <1>10
        <4> QED BY <4>1, <4>2, <1>3, <1>5
      <3> QED BY <3>1, <3>2
    <2>4. IF pc' = "sort" THEN e < Dlen ELSE e = Dlen
      BY <1>8, <1>9, <1>13
    <2> HIDE DEF e
    <2>5. idx' \in DOMAIN hdrs' \/ idx' = Dlen'
      BY <1>1, <1>5, <1>9, <1>14
    <2>6. IF pc' = "sort" THEN idx' < Dlen' ELSE idx' = Dlen'
      BY <1>5, <1>14, <2>4
    <2>7. DOMAIN dloc' = {hdrs'[o].id : o \in {q \in DOMAIN hdrs' : q < idx'}}
      BY <1>1, <1>5, <2>2
    <2>8. \A o \in DOMAIN hdrs' :
            o < idx' => dloc'[hdrs'[o].id] = [at |-> o + 3, len |-> hdrs'[o].len]
      BY <1>1, <1>5, <2>3
    <2>9. IsFiniteSet(DOMAIN dloc') /\ nsort' = Cardinality(DOMAIN dloc')
      BY <1>5, <1>11
    <2> QED BY <2>5, <2>6, <2>7, <2>8, <2>9 DEF Sorted
  <1> QED BY <1>14, <1>15, <1>16, <1>17 DEF PacketInv

\* deobfuscate joins the blocks in order.
LEMMA JoinInv ==
    ASSUME PacketInv, Join
    PROVE  PacketInv'
  <1> DEFINE has == {n \in 0 .. 7 : \A i \in 0 .. n : i \in DOMAIN dloc /\ i < nsort}
  <1>1. /\ pc = "join" /\ pc' = "done" /\ pkt' = pkt /\ now' = now /\ blks' = blks
        /\ bloc' = bloc /\ blen' = blen /\ cur' = cur /\ bct' = bct /\ hdrs' = hdrs
        /\ segs' = segs /\ pad' = pad /\ idx' = idx
        /\ out' = [i \in 1 .. Cardinality(has) |-> <<segs[dloc[i - 1].at], dloc[i - 1].len>>]
    BY DEF Join, obfvars
  <1>2. AfterCut /\ End = Dlen
    BY <1>1 DEF AfterCut, End
  <1>3. /\ DOMAIN dloc \subseteq Blocks /\ IsFiniteSet(Blocks) /\ Cardinality(Blocks) = blks
        /\ nsort = Cardinality(DOMAIN dloc) /\ blks \in 2 .. 7
    BY <1>1, SortedBlocks
  <1>4. \A k \in Blocks : \E o \in DOMAIN hdrs : hdrs[o].id = k
    BY <1>1, <1>2 DEF PacketInv, Moved
  <1>5. \A k \in Blocks : /\ k \in DOMAIN dloc /\ dloc[k].len = Total(k)
                          /\ segs[dloc[k].at] = bloc[k]
    <2> TAKE k \in Blocks
    <2>1. PICK o \in DOMAIN hdrs : hdrs[o].id = k
      BY <1>4
    <2>2. /\ o \in Nat /\ hdrs[o].len = Total(k) /\ segs[o + 3] = bloc[k]
          /\ o + 3 + hdrs[o].len <= Dlen
      BY <1>2, <2>1 DEF PacketInv, Headers
    <2>3. o < Dlen
      BY <1>2, <2>2, BlockTypes
    <2>4. /\ idx = Dlen /\ DOMAIN dloc = {hdrs[q].id : q \in {q \in DOMAIN hdrs : q < idx}}
          /\ o < idx => dloc[hdrs[o].id] = [at |-> o + 3, len |-> hdrs[o].len]
      BY <1>1, <2>1 DEF PacketInv, Sorted
    <2> QED BY <2>1, <2>2, <2>3, <2>4
  <1>6. DOMAIN dloc = Blocks /\ nsort = blks
    BY <1>3, <1>5
  <1>7. has = Blocks
    BY <1>3, <1>6 DEF Blocks
  <1>8. /\ DOMAIN out' = 1 .. blks /\ Len(out') = blks
        /\ \A i \in 1 .. blks : out'[i][1] = bloc[i - 1] /\ out'[i][2] = Total(i - 1)
    <2>1. out' = [i \in 1 .. blks |-> <<segs[dloc[i - 1].at], dloc[i - 1].len>>]
      BY <1>1, <1>3, <1>7
    <2>2. \A i \in 1 .. blks : i - 1 \in Blocks
      BY <1>3 DEF Blocks
    <2>3. blks \in Nat
      BY <1>3
    <2> QED BY <2>1, <2>2, <2>3, <1>5
  <1>9. /\ Cut' /\ Filled' /\ Headers' /\ Dlen' = Dlen /\ Blocks' = Blocks
    <2>1. End' = End
      BY <1>1, <1>2 DEF End, Dlen
    <2>2. idx' \in Nat /\ (pc' \in {"move", "pad"} => idx' > 0)
      BY <1>1, <1>2 DEF PacketInv, Cut
    <2> QED BY <1>1, <1>2, <2>1, <2>2, Kept
  <1>10. Moved'
    BY <1>1, <1>2, <1>9 DEF PacketInv, Moved
  <1>11. Sized' /\ Fresh' /\ Padding' /\ Sorted'
    BY <1>1 DEF PacketInv, Sized, Fresh, Pcs, Dlen, Padding, PadInside, Sorted
  <1>12. RoundTrip'
    <2>1. /\ bloc[0] = 0 /\ Whole(0) >= 4 /\ pkt.psize \in Nat /\ PadSize \in Nat
          /\ \A k \in Blocks : bloc[k] \in Nat /\ Whole(k) \in Nat
      BY <1>2, BlockTypes DEF PacketInv, Cut
    <2>2. 0 \in Blocks /\ blks - 1 \in Blocks /\ 0 # blks - 1
      BY <1>3 DEF Blocks
    <2>3. out'[1][1] = 0 /\ out'[1][2] >= 4
      <3>1. out'[1][1] = bloc[0] /\ out'[1][2] = Total(0)
        BY <1>3, <1>8
      <3> QED BY <3>1, <2>1, <2>2 DEF Total
    <2>4. \A i \in 1 .. (blks - 1) : out'[i][1] + out'[i][2] = out'[i + 1][1]
      <3> TAKE i \in 1 .. (blks - 1)
      <3>1. /\ i \in 1 .. blks /\ i + 1 \in 1 .. blks /\ (i + 1) - 1 = i /\ (i - 1) + 1 = i
            /\ i - 1 \in Blocks /\ i \in Blocks /\ i - 1 # blks - 1
        BY <1>3 DEF Blocks
      <3>2. out'[i][1] = bloc[i - 1] /\ out'[i][2] = Total(i - 1) /\ out'[i + 1][1] = bloc[i]
        BY <1>8, <3>1
      <3>3. Total(i - 1) = bloc[i] - bloc[i - 1]
        BY <2>1, <3>1 DEF Total, Whole
      <3> QED BY <3>1, <3>2, <3>3, <2>1
    <2>5. out'[blks][1] + out'[blks][2] >= pkt.psize
      <3>1. out'[blks][1] = bloc[blks - 1] /\ out'[blks][2] = Total(blks - 1)
        BY <1>3, <1>8
      <3>2. Total(blks - 1) = (pkt.psize - bloc[blks - 1]) + PadSize
        BY DEF Total, Whole
      <3> QED BY <2>1, <2>2, <3>1, <3>2
    <2>6. Len(out') > 0 /\ pkt'.psize = pkt.psize
      <3>1. blks > 0
        BY <1>3
      <3> QED BY <1>1, <1>8, <3>1
    <2>7. \A i \in 1 .. (Len(out') - 1) : out'[i][1] + out'[i][2] = out'[i + 1][1]
      BY <1>8, <2>4
    <2>8. out'[Len(out')][1] + out'[Len(out')][2] >= pkt'.psize
      BY <1>8, <2>5, <2>6
    <2> QED BY <2>3, <2>6, <2>7, <2>8 DEF RoundTrip
  <1> QED BY <1>9, <1>10, <1>11, <1>12 DEF PacketInv

-----------------------------------------------------------------------------
(* The theorems.                                                            *)

\* A step that changes nothing.
LEMMA StutterInv ==
    ASSUME PacketInv, UNCHANGED vars
    PROVE  PacketInv'
  <1>1. /\ pc' = pc /\ pkt' = pkt /\ now' = now /\ blks' = blks /\ bloc' = bloc
        /\ blen' = blen /\ idx' = idx /\ cur' = cur /\ bct' = bct /\ hdrs' = hdrs
        /\ segs' = segs /\ pad' = pad /\ dloc' = dloc /\ nsort' = nsort /\ out' = out
    BY DEF vars
  <1>2. Blocks' = Blocks /\ Dlen' = Dlen /\ PadSize' = PadSize /\ AfterCut' = AfterCut
    BY <1>1 DEF Blocks, Dlen, PadSize, AfterCut
  <1>3. \A k : Whole(k)' = Whole(k) /\ Total(k)' = Total(k) /\ Needs(k)' = Needs(k)
    BY <1>1, <1>2 DEF Whole, Total, Needs
  <1>4. End' = End
    BY <1>1, <1>2 DEF End
  <1>5. Sized' /\ Fresh' /\ Padding' /\ Sorted' /\ RoundTrip'
    BY <1>1, <1>2 DEF PacketInv, Sized, Fresh, Padding, PadInside, Sorted, RoundTrip
  <1>6. Cut' /\ Filled' /\ Moved'
    BY <1>1, <1>2, <1>3, <1>4 DEF PacketInv, Cut, Filled, Moved
  <1>7. Headers'
    BY <1>1, <1>2, <1>3, <1>4 DEF PacketInv, Headers
  <1> QED BY <1>5, <1>6, <1>7 DEF PacketInv

\* Every step of packet_handler, p3send_control, obfuscate and deobfuscate
\* keeps the invariant.
LEMMA NextInv == PacketInv /\ [Next]_vars => PacketInv'
  <1> SUFFICES ASSUME PacketInv, [Next]_vars
               PROVE  PacketInv'
    OBVIOUS
  <1>1. ASSUME NEW s \in DataSizes, PrepareData("data", s) PROVE PacketInv'
    BY <1>1, SizesFit, PrepareDataInv
  <1>2. ASSUME NEW s \in SynSizes, PrepareData("syn", s) PROVE PacketInv'
    <2>1. s \in Nat /\ s >= 20
      BY SizesFit
    <2> QED BY <1>2, <2>1, PrepareDataInv
  <1>3. ASSUME NEW s \in SynSizes, PrepareSyn(s) PROVE PacketInv'
    BY <1>3, SizesFit, PrepareSynInv
  <1>4. ASSUME NEW l \in CtlLens, PrepareControl(l) PROVE PacketInv'
    BY <1>4, SizesFit, PrepareControlInv
  <1>5. ASSUME NEW u \in Usecs, CutBlocks(u) PROVE PacketInv'
    BY <1>5, CutBlocksInv
  <1>6. ASSUME Done PROVE PacketInv'
    BY <1>6, StutterInv DEF Done
  <1> QED BY <1>1, <1>2, <1>3, <1>4, <1>5, <1>6, MoveBlockInv, AddPadInv, TransmitInv,
             SortBlockInv, JoinInv, StutterInv DEF Next

\* The inductive invariant of a packet's trip, for every packet length,
\* message length, packet content and clock.
THEOREM PacketInvariant == Spec => []PacketInv
  BY InitInv, NextInv, PTL DEF Spec

\* deobfuscate puts together what obfuscate took apart.
THEOREM RoundTripThm == Spec => []RoundTrip
  <1>1. PacketInv => RoundTrip
    BY DEF PacketInv
  <1> QED BY <1>1, PacketInvariant, PTL

\* No packet is lost in obfuscate or deobfuscate, and only packets beyond
\* the announced segment size are refused by packet_handler.
THEOREM PacketsLeaveThm == Spec => []PacketsLeave
  <1>1. PacketInv => PacketsLeave
    BY DEF PacketInv, Sized, Pcs, PacketsLeave
  <1> QED BY <1>1, PacketInvariant, PTL

\* obfuscate's pad data comes from the packet or the header before it.
THEOREM PadInsideThm == Spec => []PadInside
  <1>1. PacketInv => PadInside
    BY DEF PacketInv, Padding
  <1> QED BY <1>1, PacketInvariant, PTL

\* The copies stay in the work area, the blocks fill the data exactly, the
\* cipher gets whole blocks of 16 and the first block is not sent first.
THEOREM WorkAreaThm == Spec => []WorkArea
  <1>1. PacketInv => WorkArea
    <2> SUFFICES ASSUME PacketInv PROVE WorkArea
      OBVIOUS
    <2>1. pkt.written <= pkt.room
      BY DEF PacketInv, Sized
    <2>2. ASSUME pc = "sort"
          PROVE  /\ Dlen % 16 = 0 /\ hdrs[0].id # 0
                 /\ \E o \in DOMAIN hdrs : o + 3 + hdrs[o].len = Dlen
                 /\ \A o \in DOMAIN hdrs : o + 3 + hdrs[o].len <= Dlen
      <3>1. AfterCut /\ End = Dlen
        BY <2>2 DEF AfterCut, End
      <3>2. Dlen % 16 = 0 /\ Dlen # 0
        <4>1. pkt.kind # "addmss" /\ Dlen >= pkt.psize + 6 /\ Dlen % 16 = 0 /\ pkt.psize \in Nat
          BY <2>2, <3>1 DEF PacketInv, Sized, Cut
        <4> QED BY <4>1
      <3> QED BY <3>1, <3>2 DEF PacketInv, Headers
    <2> QED BY <2>1, <2>2 DEF WorkArea
  <1> QED BY <1>1, PacketInvariant, PTL
=============================================================================
