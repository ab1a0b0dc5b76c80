--------------------------------- MODULE AES ---------------------------------
(***************************************************************************)
(* The block cipher behind p3_encrypt and p3_decrypt: the table driven AES *)
(* of ksrc/moc_src/aesalgo.c, in the mode (CBC, in place) in which         *)
(* CreateAESCtx and DoAES of aes.c use it.  A behaviour makes an           *)
(* encryption context, encrypts a buffer, makes a decryption context and   *)
(* decrypts the buffer; a step is one iteration of a loop of the code.     *)
(*                                                                         *)
(* A 32 bit word is the sequence of its four bytes, first the one that     *)
(* GETU32 puts in the top bits.                                            *)
(***************************************************************************)
EXTENDS Integers, Sequences

CONSTANT
    Inputs  \* records: the key, the data and the initialisation vector, as
            \* sequences of bytes, and the length passed to DoAES

VARIABLES
    in,    \* the input
    pc,    \* "create", "expand", "turn", "start", "rounds", "ready", "stop"
    dir,   \* "enc" or "dec": what the context is for
    rk,    \* the context's round keys, as words
    std,   \* history: the round keys before they are turned
    nr,    \* the number of rounds, 0 while the keys are being expanded
    data,  \* the buffer
    iv,    \* the initialisation vector, which the code writes to
    n,     \* the blocks done, and
    r,     \* the rounds done of the current one
    s,     \* the cipher state of the current block: four words
    ref,   \* history: the same state, computed as the standard says
    ok     \* the status of the last call

vars == <<in, pc, dir, rk, std, nr, data, iv, n, r, s, ref, ok>>

-----------------------------------------------------------------------------
(* Bytes and words                                                         *)

Byte == 0..255

Bit(a, i) == (a \div 2^i) % 2
XorTable ==
    [a \in Byte |-> [b \in Byte |->
        (IF Bit(a, 0) # Bit(b, 0) THEN 1 ELSE 0) + (IF Bit(a, 1) # Bit(b, 1) THEN 2 ELSE 0)
      + (IF Bit(a, 2) # Bit(b, 2) THEN 4 ELSE 0) + (IF Bit(a, 3) # Bit(b, 3) THEN 8 ELSE 0)
      + (IF Bit(a, 4) # Bit(b, 4) THEN 16 ELSE 0) + (IF Bit(a, 5) # Bit(b, 5) THEN 32 ELSE 0)
      + (IF Bit(a, 6) # Bit(b, 6) THEN 64 ELSE 0) + (IF Bit(a, 7) # Bit(b, 7) THEN 128 ELSE 0)]]

v ^^ w == [i \in 1..4 |-> XorTable[v[i]][w[i]]]
XorBlock(a, b) == [i \in 1..16 |-> XorTable[a[i]][b[i]]]

\* Multiplication by x, and by the coefficients, in the field of AES.
Times2 == [a \in Byte |-> IF a < 128 THEN 2 * a ELSE XorTable[2 * a - 256][27]]
Times(c, a) ==
    LET a2 == Times2[a]
        a4 == Times2[a2]
        a8 == Times2[a4]
    IN  CASE c = 1 -> a
          [] c = 2 -> a2
          [] c = 3 -> XorTable[a2][a]
          [] c = 9 -> XorTable[a8][a]
          [] c = 11 -> XorTable[a8][XorTable[a2][a]]
          [] c = 13 -> XorTable[a8][XorTable[a4][a]]
          [] c = 14 -> XorTable[a8][XorTable[a4][a2]]

Word(a, c1, c2, c3, c4) == <<Times(c1, a), Times(c2, a), Times(c3, a), Times(c4, a)>>

SBox ==
  << 99, 124, 119, 123, 242, 107, 111, 197, 48, 1, 103, 43, 254, 215, 171, 118,
    202, 130, 201, 125, 250, 89, 71, 240, 173, 212, 162, 175, 156, 164, 114, 192,
    183, 253, 147, 38, 54, 63, 247, 204, 52, 165, 229, 241, 113, 216, 49, 21,
    4, 199, 35, 195, 24, 150, 5, 154, 7, 18, 128, 226, 235, 39, 178, 117,
    9, 131, 44, 26, 27, 110, 90, 160, 82, 59, 214, 179, 41, 227, 47, 132,
    83, 209, 0, 237, 32, 252, 177, 91, 106, 203, 190, 57, 74, 76, 88, 207,
    208, 239, 170, 251, 67, 77, 51, 133, 69, 249, 2, 127, 80, 60, 159, 168,
    81, 163, 64, 143, 146, 157, 56, 245, 188, 182, 218, 33, 16, 255, 243, 210,
    205, 12, 19, 236, 95, 151, 68, 23, 196, 167, 126, 61, 100, 93, 25, 115,
    96, 129, 79, 220, 34, 42, 144, 136, 70, 238, 184, 20, 222, 94, 11, 219,
    224, 50, 58, 10, 73, 6, 36, 92, 194, 211, 172, 98, 145, 149, 228, 121,
    231, 200, 55, 109, 141, 213, 78, 169, 108, 86, 244, 234, 101, 122, 174, 8,
    186, 120, 37, 46, 28, 166, 180, 198, 232, 221, 116, 31, 75, 189, 139, 138,
    112, 62, 181, 102, 72, 3, 246, 14, 97, 53, 87, 185, 134, 193, 29, 158,
    225, 248, 152, 17, 105, 217, 142, 148, 155, 30, 135, 233, 206, 85, 40, 223,
    140, 161, 137, 13, 191, 230, 66, 104, 65, 153, 45, 15, 176, 84, 187, 22 >>

\* The tables.  The code has them as constants: what each of them holds.
Sub == [a \in Byte |-> SBox[a + 1]]
SubInv == [a \in Byte |-> CHOOSE b \in Byte : Sub[b] = a]
Te0 == [a \in Byte |-> Word(Sub[a], 2, 1, 1, 3)]
Te1 == [a \in Byte |-> Word(Sub[a], 3, 2, 1, 1)]
Te2 == [a \in Byte |-> Word(Sub[a], 1, 3, 2, 1)]
Te3 == [a \in Byte |-> Word(Sub[a], 1, 1, 3, 2)]
Te4 == [a \in Byte |-> Word(Sub[a], 1, 1, 1, 1)]
Td0 == [a \in Byte |-> Word(SubInv[a], 14, 9, 13, 11)]
Td1 == [a \in Byte |-> Word(SubInv[a], 11, 14, 9, 13)]
Td2 == [a \in Byte |-> Word(SubInv[a], 13, 11, 14, 9)]
Td3 == [a \in Byte |-> Word(SubInv[a], 9, 13, 11, 14)]
Td4 == [a \in Byte |-> Word(SubInv[a], 1, 1, 1, 1)]

rcon == << <<1, 0, 0, 0>>, <<2, 0, 0, 0>>, <<4, 0, 0, 0>>, <<8, 0, 0, 0>>, <<16, 0, 0, 0>>,
           <<32, 0, 0, 0>>, <<64, 0, 0, 0>>, <<128, 0, 0, 0>>, <<27, 0, 0, 0>>, <<54, 0, 0, 0>> >>

GETU32(b, i) == SubSeq(b, 4 * i + 1, 4 * i + 4)
Words(b) == [i \in 1..(Len(b) \div 4) |-> GETU32(b, i - 1)]
PUTU32(ws) == ws[1] \o ws[2] \o ws[3] \o ws[4]

-----------------------------------------------------------------------------
(* The key schedule.  An iteration appends words to rk.                    *)

SubWord(w) == <<Te4[w[1]][1], Te4[w[2]][2], Te4[w[3]][3], Te4[w[4]][4]>>
RotSub(w) == <<Te4[w[2]][1], Te4[w[3]][2], Te4[w[4]][3], Te4[w[1]][4]>>

\* From word b on: g with the first, then each with the one before.
Chain4(k, b, g) ==
    LET w1 == k[b] ^^ g
        w2 == k[b + 1] ^^ w1
        w3 == k[b + 2] ^^ w2
    IN  <<w1, w2, w3, k[b + 3] ^^ w3>>

Last(k) == k[Len(k)]

Expand128(k) ==
    k \o Chain4(k, Len(k) - 3, RotSub(Last(k)) ^^ rcon[Len(k) \div 4])

Expand192(k) ==
    LET b == Len(k) - 5
        c == Chain4(k, b, RotSub(Last(k)) ^^ rcon[Len(k) \div 6])
        w5 == k[b + 4] ^^ c[4]
    IN  IF Len(k) \div 6 = 8 THEN k \o c ELSE k \o c \o <<w5, k[b + 5] ^^ w5>>

\* Mutant: the second half of an iteration without SubWord.
Expand256Plain(k) ==
    LET b == Len(k) - 7
        c == Chain4(k, b, RotSub(Last(k)) ^^ rcon[Len(k) \div 8])
    IN  IF Len(k) \div 8 = 7 THEN k \o c ELSE k \o c \o Chain4(k, b + 4, c[4])

Expand256(k) ==
    LET b == Len(k) - 7
        c == Chain4(k, b, RotSub(Last(k)) ^^ rcon[Len(k) \div 8])
    IN  IF Len(k) \div 8 = 7 THEN k \o c ELSE k \o c \o Chain4(k, b + 4, SubWord(c[4]))

Rounds(len) == CASE len = 16 -> 10 [] len = 24 -> 12 [] len = 32 -> 14

\* CreateAESCtx and AESALGO_makeAesKey: a key of another length is refused.
CreateAESCtx ==
    /\ pc = "create"
    /\ IF Len(in.key) \in {16, 24, 32}
       THEN pc' = "expand" /\ rk' = Words(in.key) /\ ok' = TRUE
       ELSE pc' = "stop" /\ rk' = <<>> /\ ok' = FALSE
    /\ nr' = 0 /\ std' = rk'
    /\ UNCHANGED <<in, dir, data, iv, n, r, s, ref>>

aesKeySetupEnc ==
    /\ pc = "expand"
    /\ rk' = CASE Len(in.key) = 16 -> Expand128(rk)
               [] Len(in.key) = 24 -> Expand192(rk)
               [] Len(in.key) = 32 -> Expand256(rk)
    /\ std' = rk'
    /\ IF Len(rk') < 4 * (Rounds(Len(in.key)) + 1)
       THEN UNCHANGED <<pc, nr>>
       ELSE /\ nr' = Rounds(Len(in.key))
            /\ pc' = IF dir = "enc" THEN "ready" ELSE "turn"
    /\ UNCHANGED <<in, dir, data, iv, n, r, s, ref, ok>>

\* The inverse of MixColumns, through the tables.
InvMix(w) == ((Td0[Te4[w[1]][4]] ^^ Td1[Te4[w[2]][4]]) ^^ Td2[Te4[w[3]][4]]) ^^ Td3[Te4[w[4]][4]]

\* The round keys in the inverse order, all but the first and the last
\* transformed.
aesKeySetupDec ==
    /\ pc = "turn"
    /\ rk' = [i \in 1..Len(rk) |->
                LET w == rk[4 * (nr - (i - 1) \div 4) + ((i - 1) % 4) + 1]
                IN  IF i \in 5..(Len(rk) - 4) THEN InvMix(w) ELSE w]
    /\ pc' = "ready"
    /\ UNCHANGED <<in, dir, std, nr, data, iv, n, r, s, ref, ok>>

-----------------------------------------------------------------------------
(* The standard, as the reference                                          *)

\* The inverse in the field, by search, and the affine map.
FieldTimes(a, b) ==
    LET p[i \in 0..7] == IF i = 0 THEN a ELSE Times2[p[i - 1]]
        t[i \in 0..8] == IF i = 0 THEN 0
                         ELSE IF Bit(b, i - 1) = 1 THEN XorTable[t[i - 1]][p[i - 1]] ELSE t[i - 1]
    IN  t[8]
StdInverse(a) == IF a = 0 THEN 0 ELSE CHOOSE b \in Byte : FieldTimes(a, b) = 1
StdSub ==
    [a \in Byte |->
       LET b == StdInverse(a)
           bit(i) == (Bit(b, i) + Bit(b, (i + 4) % 8) + Bit(b, (i + 5) % 8)
                      + Bit(b, (i + 6) % 8) + Bit(b, (i + 7) % 8) + Bit(99, i)) % 2
       IN  bit(0) + 2 * bit(1) + 4 * bit(2) + 8 * bit(3) + 16 * bit(4) + 32 * bit(5)
           + 64 * bit(6) + 128 * bit(7)]
StdSubInv == [a \in Byte |-> CHOOSE b \in Byte : StdSub[b] = a]

Col(i) == 1 + ((i - 1) % 4)
SubBytes(q, box) == [c \in 1..4 |-> [i \in 1..4 |-> box[q[c][i]]]]
ShiftRows(q) == [c \in 1..4 |-> [i \in 1..4 |-> q[Col(c + i - 1)][i]]]
InvShiftRows(q) == [c \in 1..4 |-> [i \in 1..4 |-> q[Col(c + 5 - i)][i]]]
MixColumn(w, c1, c2, c3, c4) ==
    [i \in 1..4 |->
       XorTable[XorTable[Times(c1, w[i])][Times(c2, w[Col(i + 1)])]]
               [XorTable[Times(c3, w[Col(i + 2)])][Times(c4, w[Col(i + 3)])]]]
MixColumns(q) == [c \in 1..4 |-> MixColumn(q[c], 2, 3, 1, 1)]
InvMixColumns(q) == [c \in 1..4 |-> MixColumn(q[c], 14, 11, 13, 9)]
AddRoundKey(q, k) == [c \in 1..4 |-> q[c] ^^ k[c]]

\* The keys of round i of the encryption.
StdKey(i) == SubSeq(std, 4 * i + 1, 4 * i + 4)

\* Word i of the standard's key schedule from the words before it.
StdWord(w, i) ==
    LET nk == Len(in.key) \div 4
        t == w[i - 1]
        sub(x) == [j \in 1..4 |-> StdSub[x[j]]]
        g == CASE (i - 1) % nk = 0 -> sub(<<t[2], t[3], t[4], t[1]>>) ^^ rcon[(i - 1) \div nk]
               [] nk = 8 /\ (i - 1) % nk = 4 -> sub(t)
               [] OTHER -> t
    IN  IF i <= nk THEN GETU32(in.key, i - 1) ELSE w[i - nk] ^^ g

StdRound(q, i) ==
    IF dir = "enc"
    THEN LET t == ShiftRows(SubBytes(q, StdSub))
         IN  AddRoundKey(IF i = nr THEN t ELSE MixColumns(t), StdKey(i))
    ELSE LET t == AddRoundKey(SubBytes(InvShiftRows(q), StdSubInv), StdKey(nr - i))
         IN  IF i = nr THEN t ELSE InvMixColumns(t)

-----------------------------------------------------------------------------
(* Encryption and decryption                                               *)

Blocks == in.len \div 16
Block == SubSeq(data, 16 * n + 1, 16 * n + 16)
Key4(i) == SubSeq(rk, 4 * i + 1, 4 * i + 4)
RefKey(i) == StdKey(IF dir = "enc" THEN i ELSE nr - i)

\* DoAES: only whole blocks.
DoAES ==
    /\ pc = "ready"
    /\ IF in.len % 16 # 0 THEN pc' = "stop" /\ ok' = FALSE
                          ELSE pc' = "start" /\ ok' = TRUE
    /\ n' = 0
    /\ iv' = in.iv
    /\ UNCHANGED <<in, dir, rk, std, nr, data, r, s, ref>>

\* A block: the vector is added before an encryption, the first round key.
Start ==
    /\ pc = "start" /\ n < Blocks
    /\ LET b == Words(IF dir = "enc" THEN XorBlock(Block, iv) ELSE Block)
       IN  /\ s' = [c \in 1..4 |-> b[c] ^^ Key4(0)[c]]
           /\ ref' = AddRoundKey(b, RefKey(0))
    /\ r' = 0 /\ pc' = "rounds"
    /\ UNCHANGED <<in, dir, rk, std, nr, data, iv, n, ok>>

EncRound(q, k) ==
    [c \in 1..4 |-> (((Te0[q[c][1]] ^^ Te1[q[Col(c + 1)][2]]) ^^ Te2[q[Col(c + 2)][3]])
                     ^^ Te3[q[Col(c + 3)][4]]) ^^ k[c]]
EncLast(q, k) ==
    [c \in 1..4 |-> <<Te4[q[c][1]][1], Te4[q[Col(c + 1)][2]][2], Te4[q[Col(c + 2)][3]][3],
                      Te4[q[Col(c + 3)][4]][4]>> ^^ k[c]]
DecRound(q, k) ==
    [c \in 1..4 |-> (((Td0[q[c][1]] ^^ Td1[q[Col(c + 3)][2]]) ^^ Td2[q[Col(c + 2)][3]])
                     ^^ Td3[q[Col(c + 1)][4]]) ^^ k[c]]
DecLast(q, k) ==
    [c \in 1..4 |-> <<Td4[q[c][1]][1], Td4[q[Col(c + 3)][2]][2], Td4[q[Col(c + 2)][3]][3],
                      Td4[q[Col(c + 1)][4]][4]>> ^^ k[c]]

aesEncrypt ==
    /\ pc = "rounds" /\ dir = "enc" /\ r < nr
    /\ s' = IF r + 1 < nr THEN EncRound(s, Key4(r + 1)) ELSE EncLast(s, Key4(nr))
    /\ ref' = StdRound(ref, r + 1)
    /\ r' = r + 1
    /\ UNCHANGED <<in, pc, dir, rk, std, nr, data, iv, n, ok>>

aesDecrypt ==
    /\ pc = "rounds" /\ dir = "dec" /\ r < nr
    /\ s' = IF r + 1 < nr THEN DecRound(s, Key4(r + 1)) ELSE DecLast(s, Key4(nr))
    /\ ref' = StdRound(ref, r + 1)
    /\ r' = r + 1
    /\ UNCHANGED <<in, pc, dir, rk, std, nr, data, iv, n, ok>>

Store(b) == data' = [i \in 1..Len(data) |->
                       IF i \in (16 * n + 1)..(16 * n + 16) THEN b[i - 16 * n] ELSE data[i]]

\* AESALGO_blockEncrypt: the ciphertext is the next vector.
blockEncrypt ==
    /\ pc = "rounds" /\ dir = "enc" /\ r = nr
    /\ Store(PUTU32(s))
    /\ iv' = PUTU32(s)
    /\ n' = n + 1 /\ pc' = "start"
    /\ UNCHANGED <<in, dir, rk, std, nr, r, s, ref, ok>>

\* Mutant: the vector is read after the plaintext has replaced the block.
blockDecryptOverwrites ==
    /\ pc = "rounds" /\ dir = "dec" /\ r = nr
    /\ Store(XorBlock(PUTU32(s), iv))
    /\ iv' = XorBlock(PUTU32(s), iv)
    /\ n' = n + 1 /\ pc' = "start"
    /\ UNCHANGED <<in, dir, rk, std, nr, r, s, ref, ok>>

\* AESALGO_blockDecrypt: the ciphertext is kept as the next vector before the
\* plaintext, which goes to the same place, is stored.
blockDecrypt ==
    /\ pc = "rounds" /\ dir = "dec" /\ r = nr
    /\ Store(XorBlock(PUTU32(s), iv))
    /\ iv' = Block
    /\ n' = n + 1 /\ pc' = "start"
    /\ UNCHANGED <<in, dir, rk, std, nr, r, s, ref, ok>>

\* The caller: p3_decrypt on the other host undoes p3_encrypt.
Finish ==
    /\ pc = "start" /\ n = Blocks
    /\ pc' = IF dir = "enc" THEN "create" ELSE "stop"
    /\ dir' = "dec"
    /\ UNCHANGED <<in, rk, std, nr, data, iv, n, r, s, ref, ok>>

Init ==
    /\ in \in Inputs
    /\ pc = "create" /\ dir = "enc"
    /\ rk = <<>> /\ std = <<>> /\ nr = 0
    /\ data = in.data /\ iv = in.iv
    /\ n = 0 /\ r = 0 /\ s = <<>> /\ ref = <<>>
    /\ ok = TRUE

Next ==
    \/ CreateAESCtx \/ aesKeySetupEnc \/ aesKeySetupDec \/ DoAES \/ Start
    \/ aesEncrypt \/ aesDecrypt \/ blockEncrypt \/ blockDecrypt \/ Finish

Spec == Init /\ [][Next]_vars

-----------------------------------------------------------------------------
(* Properties                                                              *)

\* The example of the standard: its ciphertext for its key (FIPS-197, C.1).
Count(b) == [i \in 1..b |-> i - 1]
Vector ==
    <<105, 196, 224, 216, 106, 123, 4, 48, 216, 205, 183, 128, 112, 180, 197, 90>>
KnownAnswer ==
    (/\ pc = "create" /\ dir = "dec" /\ in.len = 16
     /\ in.key = Count(16) /\ in.iv = [i \in 1..16 |-> 0]
     /\ in.data = [i \in 1..16 |-> 17 * (i - 1)])
    => data = Vector

(* The table driven cipher is AES.  The round keys of aesKeySetupEnc are    *)
(* those of the standard's key schedule for each of the three key lengths;  *)
(* after every round of every block, in both directions, the state is the   *)
(* one that SubBytes, ShiftRows, MixColumns and AddRoundKey, with the S-box *)
(* computed from its definition, give with these keys (aesEncrypt, and      *)
(* aesDecrypt with the transformed keys of aesKeySetupDec); the standard's  *)
(* example comes out.                                                       *)
AsStandard ==
    /\ pc \in {"expand", "turn", "ready"} =>
         \A i \in 1..Len(std) : std[i] = StdWord(std, i)
    /\ pc = "rounds" => s = ref
    /\ KnownAnswer

(* Decrypting in place what was encrypted in place, with the vector both    *)
(* hosts derive, gives the buffer back, also when nothing or no whole       *)
(* number of blocks was to be done (blockEncrypt, blockDecrypt, DoAES).     *)
Inverts == pc = "stop" => data = in.data
=============================================================================
