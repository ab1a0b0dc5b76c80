------------------------------- MODULE P3Packet -------------------------------
(***************************************************************************)
(* A packet's trip between two P3 gateways: packet_handler and             *)
(* p3send_control (p3knet.c) choose its fixed size, obfuscate() cuts it    *)
(* into blocks and sends them out of order with padding, the other side    *)
(* sorts the blocks with deobfuscate().  Only sizes, offsets and block     *)
(* numbers are kept: byte k of the packet is the offset k, and the bytes   *)
(* that steer the cutting (the last ones of the packet) and the            *)
(* microseconds of the clock are inputs.  Encryption keeps the bytes in    *)
(* place, so it appears as its demand for multiples of 16.                 *)
(***************************************************************************)
EXTENDS Integers, Sequences, FiniteSets

CONSTANTS
    DataSizes,  \* total length of the IP packets that are not TCP SYN
    SynSizes,   \* total length of the TCP SYN packets
    CtlLens,    \* length of the control messages
    IPHdrs,     \* IP (+ TCP) header length the pad data starts after
    Usecs,      \* microseconds read from the clock, below 10^6
    Bytes       \* values of the bytes that move the block borders

ASSUME SizesFit == /\ \A s \in DataSizes : s \in Nat /\ s >= 20 /\ s < 65536
                   /\ \A s \in SynSizes : s \in Nat /\ s >= 40 /\ s <= 100
                   /\ \A l \in CtlLens : l \in Nat /\ l >= 1 /\ l <= 1300
                   /\ \A u \in Usecs : u \in Nat /\ u < 1000000
                   /\ \A b \in Bytes : b \in Nat /\ b < 256
                   /\ \A h \in IPHdrs : h \in Nat

SMALL == 176
MED == 640
LARGE == 1440
MAXPKT == 1500
HDR == 28         \* p3SESSION_HDR4, and p3CONTROL_HDR4
MSSV4 == 1440 - 52

Align(n) == ((n + 15) \div 16) * 16

\* The fixed size classes of the packets.
FixedSize(n) == CASE n <= SMALL -> SMALL
                  [] n > SMALL /\ n < MED -> MED
                  [] n >= MED /\ n < LARGE -> LARGE
                  [] OTHER -> Align(n)

VARIABLES
    pc,     \* where the packet is
    pkt,    \* kind, real size, psize (length in the IP header), newlen, room
    now,    \* microseconds
    blks,   \* number of blocks
    bloc,   \* PW->bloc: block starts
    blen,   \* PW->blen: block lengths, 0 when moved
    idx,    \* PW->idx1: bytes written to, or read from, the block buffer
    cur,    \* PW->idx2: current block
    bct,    \* the clock bit that decides about the next block
    hdrs,   \* offset -> block number and length written there
    segs,   \* offset -> first byte of the packet copied there
    pad,    \* pad data still to add, where it comes from, the last copy
    dloc,   \* deobfuscate: block number -> offset and length
    nsort,  \* deobfuscate: blocks read
    out     \* the reassembled packet: runs of <<first byte, length>>

vars == <<pc, pkt, now, blks, bloc, blen, idx, cur, bct, hdrs, segs, pad,
          dloc, nsort, out>>
obfvars == <<blks, bloc, blen, idx, cur, bct, hdrs, segs, pad>>
deobfvars == <<dloc, nsort, out>>

Init == /\ pc = "new"
        /\ pkt = [kind |-> "none", size |-> 0, psize |-> 0, newlen |-> 0,
                  room |-> 0, written |-> 0]
        /\ now = 0 /\ blks = 0 /\ bloc = <<>> /\ blen = <<>> /\ idx = 0
        /\ cur = 0 /\ bct = 1 /\ hdrs = <<>> /\ segs = <<>> /\ pad = [left |-> 0, loc |-> 0, dl |-> 0, at |-> 0, n |-> 0]
        /\ dloc = <<>> /\ nsort = 0 /\ out = <<>>

\* packet_handler gets work space with 2 buffers for the packet's size.
WorkRoom(size) == 2 * (FixedSize(size + 6) + HDR + 4)

\* Mutant: the P3 header counts against the largest size class.
PrepareDataLowLimit(kind, size) ==
    LET newlen == FixedSize(size + 6) + HDR
    IN  /\ pc = "new"
        /\ pc' = IF newlen > LARGE THEN "refused" ELSE "cut"
        /\ pkt' = [kind |-> kind, size |-> size, psize |-> size,
                   newlen |-> newlen, room |-> WorkRoom(size),
                   written |-> HDR + newlen]
        /\ UNCHANGED <<now, obfvars, deobfvars>>

(* packet_handler, destination is a P3 subnet: a data packet, or a SYN      *)
(* whose MSS option is already there, is copied behind the P3 header.       *)
(* The copy is newlen bytes long, whatever the packet's length.             *)
PrepareData(kind, size) ==
    LET newlen == FixedSize(size + 6) + HDR
    IN  /\ pc = "new"
        /\ pc' = IF newlen > MAXPKT THEN "refused" ELSE "cut"
        /\ pkt' = [kind |-> kind, size |-> size, psize |-> size,
                   newlen |-> newlen, room |-> WorkRoom(size),
                   written |-> HDR + newlen]
        /\ UNCHANGED <<now, obfvars, deobfvars>>

\* p3net_utils: the TCP checksum is set, or the header is not accepted.
SetChecksum == {"cut", "failed"}

(* A SYN without MSS option gets one: the TCP header grows by 4 bytes, and  *)
(* the IP header's length is set from the flag that newlen was stored in.   *)
(* It fails when the header is full or the checksum cannot be set.          *)
PrepareSyn(size) ==
    LET newlen == FixedSize(size + 6 + 4) + HDR
    IN  /\ pc = "new"
        /\ pc' \in IF newlen > MAXPKT THEN {"refused"} ELSE SetChecksum
        /\ pkt' = [kind |-> "addmss", size |-> size + 4, psize |-> newlen + 4,
                   newlen |-> newlen + 4, room |-> WorkRoom(size),
                   written |-> HDR + 4 + newlen]
        /\ UNCHANGED <<now, obfvars, deobfvars>>

(* p3send_control: control header, message padded to 16.                    *)
PrepareControl(len) ==
    LET n == Align(Align(len) + HDR)
        newlen == HDR + (CASE n + 16 <= SMALL -> SMALL
                           [] n + 16 > SMALL /\ n + 16 <= MED -> MED
                           [] OTHER -> LARGE)
    IN  /\ pc = "new"
        /\ n + 16 <= LARGE
        /\ pc' = "cut"
        /\ pkt' = [kind |-> "control", size |-> Align(len) + HDR,
                   psize |-> Align(len) + HDR, newlen |-> newlen,
                   room |-> 2 * newlen, written |-> 2 * HDR + Align(len)]
        /\ UNCHANGED <<now, obfvars, deobfvars>>

\* Length of the data between the P3 header and the end of the packet.
Dlen == pkt.newlen - HDR

\* Mutant: without the limit that keeps the block headers within the padding.
NumBlocksNoLimit(psize, usec) ==
    CASE psize < 40 -> 2
      [] psize >= 40 /\ psize < MED -> IF (usec \div 2) % 2 = 1 THEN 2 ELSE 3
      [] OTHER -> IF usec % 8 < 2 THEN 4 ELSE usec % 8

\* obfuscate: the number of blocks depends on size and clock.
NumBlocks(psize, usec) ==
    LET want == CASE psize < 40 -> 2
                  [] psize >= 40 /\ psize < MED ->
                        IF (usec \div 2) % 2 = 1 THEN 2 ELSE 3
                  [] OTHER -> CASE usec % 8 = 0 -> 4
                                [] usec % 8 = 1 -> 6
                                [] OTHER -> usec % 8
    IN  IF want * 3 > Dlen - psize THEN (Dlen - psize) \div 3 ELSE want

\* Mutant: blocks below 32 bytes share the range of the larger ones.
MaskLoose(n) == CASE n < 32 -> 7 [] n >= 32 /\ n < 64 -> 15 [] OTHER -> 31

\* The range of the variable adjustment for blocks of about n bytes.
Mask(n) == CASE n < 16 -> 3
             [] n >= 16 /\ n < 32 -> 7
             [] n >= 32 /\ n < 64 -> 15
             [] OTHER -> 31

\* The k-th block border is moved down or up by bits of a packet byte.
Border(n, k, byte) == IF (byte \div 2) % 2 = 1 THEN n * k - (byte % (Mask(n) + 1))
                                               ELSE n * k + (byte % (Mask(n) + 1))

(* obfuscate, up to the loop that moves the blocks.                         *)
CutBlocks(usec) ==
    LET b == NumBlocks(pkt.psize, usec)
    IN  /\ pc = "cut"
        /\ now' = usec /\ blks' = b
        /\ IF b <= 0
           THEN pc' = "failed" /\ UNCHANGED <<bloc, blen, cur>>
           ELSE /\ pc' = "move"
                /\ \E bytes \in [1..(b - 1) -> Bytes] :
                      bloc' = [k \in 0..(b - 1) |-> IF k = 0 THEN 0
                                 ELSE Border(pkt.psize \div b, k, bytes[k])]
                /\ blen' = [k \in 0..(b - 1) |->
                              IF k = b - 1 THEN pkt.psize - bloc'[k]
                                           ELSE bloc'[k + 1] - bloc'[k]]
                /\ cur' = IF b < 3 THEN 1 ELSE b - 1
        /\ idx' = 0 /\ bct' = 1
        /\ UNCHANGED <<pkt, hdrs, segs, pad, deobfvars>>

\* The first block at or after c, cyclically, that is not moved yet.
Unused(c) == LET s == CHOOSE s \in 0..(blks - 1) :
                        /\ blen[(c + s) % blks] # 0
                        /\ \A t \in 0..(s - 1) : blen[(c + t) % blks] = 0
             IN  (c + s) % blks

\* Bytes of padding behind the last block.
PadSize == Dlen - (pkt.psize + blks * 3)

\* Pad data starts behind the headers when 48 bytes follow them.
PadStart(hdr) == IF pkt.psize - hdr < 48 THEN 0 ELSE hdr

(* obfuscate: one turn of the loop that moves the blocks into the work      *)
(* buffer.  The clock's bits decide whether the next unused block is used   *)
(* or the one after it.  bct is shifted before its first use.               *)
MoveBlock ==
    LET up == IF bct * 2 > now THEN 1 ELSE bct * 2
        c1 == Unused(cur)
        c2 == IF (now \div up) % 2 = 0 THEN Unused((c1 + 1) % blks) ELSE c1
        c == IF idx = 0 THEN cur ELSE c2
        padsz == IF c = blks - 1 THEN PadSize ELSE 0
    IN  /\ pc = "move" /\ idx < Dlen
        /\ cur' = c
        /\ bct' = IF idx = 0 THEN bct ELSE up
        /\ hdrs' = [o \in DOMAIN hdrs \cup {idx} |->
                      IF o = idx THEN [id |-> c, len |-> blen[c] + padsz] ELSE hdrs[o]]
        /\ segs' = [o \in DOMAIN segs \cup {idx + 3} |->
                      IF o = idx + 3 THEN bloc[c] ELSE segs[o]]
        /\ IF blen[c] <= 0
           THEN pc' = "failed" /\ UNCHANGED <<idx, blen, pad>>
           ELSE /\ idx' = idx + 3 + blen[c]
                /\ blen' = [blen EXCEPT ![c] = 0]
                /\ IF c = blks - 1
                   THEN /\ pc' = "pad"
                        /\ \E hdr \in IPHdrs :
                              pad' = [left |-> PadSize, loc |-> bloc[c],
                                      dl |-> PadStart(hdr), at |-> 0, n |-> 0]
                   ELSE UNCHANGED <<pc, pad>>
        /\ UNCHANGED <<pkt, now, blks, bloc, deobfvars>>

\* Mutant: the stride starts over only once it begins behind the packet.
AddPadLateWrap ==
    LET by == (now % 4) + 1
        n == IF pad.left < by THEN pad.left ELSE by
        at == IF pad.loc >= pkt.psize THEN pad.dl + (pad.loc - pkt.psize) ELSE pad.loc
    IN  /\ pc = "pad"
        /\ IF pad.left > 0
           THEN /\ pad' = [pad EXCEPT !.left = @ - n, !.at = at, !.n = n,
                                      !.loc = at + n + (now % 8) + 7]
                /\ idx' = idx + n
                /\ UNCHANGED pc
           ELSE pc' = "move" /\ UNCHANGED <<pad, idx>>
        /\ UNCHANGED <<pkt, now, blks, bloc, blen, cur, bct, hdrs, segs, deobfvars>>

(* obfuscate: one turn of the loop that adds pad data behind the last       *)
(* block, a few bytes at a time in strides through the packet; at its end   *)
(* the stride starts over behind the headers.                               *)
AddPad ==
    LET by == (now % 4) + 1
        n == IF pad.left < by THEN pad.left ELSE by
        at == IF pad.loc + n > pkt.psize THEN pad.dl + (pad.loc - pkt.psize)
                                         ELSE pad.loc
    IN  /\ pc = "pad"
        /\ IF pad.left > 0
           THEN /\ pad' = [pad EXCEPT !.left = @ - n, !.at = at, !.n = n,
                                      !.loc = at + n + (now % 8) + 7]
                /\ idx' = idx + n
                /\ UNCHANGED pc
           ELSE pc' = "move" /\ UNCHANGED <<pad, idx>>
        /\ UNCHANGED <<pkt, now, blks, bloc, blen, cur, bct, hdrs, segs, deobfvars>>

(* The packet is encrypted, sent, received and decrypted: packet_handler    *)
(* removes the P3 header and hands the blocks to deobfuscate.               *)
Transmit == /\ pc = "move" /\ idx >= Dlen
            /\ pc' = "sort" /\ idx' = 0
            /\ UNCHANGED <<pkt, now, blks, bloc, blen, cur, bct, hdrs, segs,
                           pad, deobfvars>>

(* deobfuscate: read one block header and step over its data; the loop      *)
(* ends after 8 blocks or at the end of the data.                           *)
SortBlock ==
    /\ pc = "sort" /\ nsort < 8
    /\ IF idx \notin DOMAIN hdrs
       THEN pc' = "lost" /\ UNCHANGED <<idx, dloc, nsort>>
       ELSE LET h == hdrs[idx]
            IN  /\ dloc' = [i \in DOMAIN dloc \cup {h.id} |->
                              IF i = h.id THEN [at |-> idx + 3, len |-> h.len] ELSE dloc[i]]
                /\ idx' = idx + 3 + h.len
                /\ nsort' = nsort + 1
                /\ pc' = IF idx' >= Dlen \/ nsort' = 8 THEN "join" ELSE "sort"
    /\ UNCHANGED <<pkt, now, blks, bloc, blen, cur, bct, hdrs, segs, pad, out>>

(* deobfuscate: copy the blocks in order of their numbers, up to the first  *)
(* one that is missing.                                                     *)
Join ==
    LET has == {n \in 0..7 : \A i \in 0..n : i \in DOMAIN dloc /\ i < nsort}
    IN  /\ pc = "join"
        /\ out' = [i \in 1..Cardinality(has) |-> <<segs[dloc[i - 1].at], dloc[i - 1].len>>]
        /\ pc' = "done"
        /\ UNCHANGED <<pkt, now, obfvars, dloc, nsort>>

Done == pc \in {"done", "refused", "failed", "lost"} /\ UNCHANGED vars

Next == \/ \E s \in DataSizes : PrepareData("data", s)
        \/ \E s \in SynSizes : PrepareData("syn", s) \/ PrepareSyn(s)
        \/ \E l \in CtlLens : PrepareControl(l)
        \/ \E u \in Usecs : CutBlocks(u)
        \/ MoveBlock \/ AddPad \/ Transmit \/ SortBlock \/ Join \/ Done

Spec == Init /\ [][Next]_vars

-----------------------------------------------------------------------------
(* Properties.                                                              *)

(* What deobfuscate puts together is the packet obfuscate took apart: the   *)
(* runs follow each other from byte 0 to the packet's end, and the first    *)
(* one holds the length field (bytes 2 and 3) deobfuscate reads back.       *)
RoundTrip ==
    pc = "done" => /\ Len(out) > 0 /\ out[1][1] = 0 /\ out[1][2] >= 4
                   /\ \A i \in 1..(Len(out) - 1) : out[i][1] + out[i][2] = out[i + 1][1]
                   /\ out[Len(out)][1] + out[Len(out)][2] >= pkt.psize

(* No packet is given up inside obfuscate or misread by deobfuscate, and    *)
(* packet_handler refuses as too large only packets beyond the segment      *)
(* size it announces itself when it reduces the MSS of a SYN.               *)
PacketsLeave ==
    /\ pkt.kind # "addmss" => pc \notin {"failed", "lost"}
    /\ pc = "refused" => pkt.size > MSSV4 + 40

(* The pad data obfuscate copies comes from the packet itself or from the   *)
(* P3 header just before it, never from behind the packet.                  *)
PadInside == pad.at >= -HDR /\ pad.at + pad.n <= pkt.psize

(* The copies of packet_handler and p3send_control stay in the work area    *)
(* they allocated, obfuscate fills exactly the data's length, a multiple    *)
(* of 16 as the cipher requires, and the first block never goes first.      *)
WorkArea ==
    /\ pkt.written <= pkt.room
    /\ pc = "sort" /\ nsort = 0 =>
          /\ Dlen % 16 = 0 /\ hdrs[0].id # 0
          /\ \E o \in DOMAIN hdrs : o + 3 + hdrs[o].len = Dlen
          /\ \A o \in DOMAIN hdrs : o + 3 + hdrs[o].len <= Dlen
=============================================================================
