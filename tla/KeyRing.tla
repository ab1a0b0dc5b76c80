------------------------------- MODULE KeyRing -------------------------------
(***************************************************************************)
(* The circular buffer of key material that the primary's user-space key   *)
(* server fills and its kernel module empties.  It lies in the RAM disk,   *)
(* which the user space maps: two index variables and CbufSz bytes.        *)
(*                                                                         *)
(* The producer (buffer_handler, called on every turn of system_handler's  *)
(* loop) and the consumer (the kernel's p3_get_key, serialised by the key  *)
(* manager's lock) share no lock, so the model gives each store to the     *)
(* shared memory a step of its own.  The consumer's tests all work on one  *)
(* load of tail: there is no barrier between them and the compiler keeps   *)
(* the value in a register.                                                *)
(***************************************************************************)
EXTENDS Integers, FiniteSets

CONSTANTS
    CbufSz,   \* bytes in the circular buffer (RAMDISK_SZ - 12 = 4084)
    KeySize,  \* key sizes the sessions ask for (AES-128: 16, AES-256: 32)
    Gen,      \* what one call of the user's p3_get_key can yield
    UIntMod   \* number of values of an unsigned int (2^32)

\* A key read from the key file; the bytes that were there before (the build
\* with the random number generator); no key at all.
GenResults == {"new", "same", "none"}

\* The producer writes pieces of this size.
p3MIN_KSIZE == 8

ASSUME SizeAssumption ==
    /\ CbufSz \in Nat /\ CbufSz >= 64
    /\ KeySize \subseteq {16, 32}
ASSUME UIntAssumption == UIntMod \in Nat /\ UIntMod > CbufSz
ASSUME GenAssumption == Gen \subseteq GenResults

VARIABLES
    head,   \* the index the consumer reads from
    tail,   \* the index the producer writes at
    fresh,  \* the offsets of the pieces that were never handed out
    ppc,    \* where the producer is in buffer_handler
    cpc,    \* where the consumer is in p3_get_key
    csize,  \* the size the consumer asks for
    ctail,  \* the value of tail the consumer has loaded
    stat    \* the status of the consumer's last call: 0, or 1 for no key

vars == <<head, tail, fresh, ppc, cpc, csize, ctail, stat>>

producerVars == <<tail, ppc>>
consumerVars == <<head, cpc, csize, ctail, stat>>

Offset == 0 .. CbufSz

\* The offsets of the pieces in the size bytes from the offset from on.
Pieces(from, size) == {i \in from .. (from + size - 1) : i % p3MIN_KSIZE = 0}

\* Subtraction of an unsigned int: p3key's size is one, head and tail are not.
USub(a, b) == IF a >= b THEN a - b ELSE a - b + UIntMod

-----------------------------------------------------------------------------
(* init_kernel_comm and init_key_serv: one piece, if there was one.        *)

Init ==
    /\ head = 0
    /\ \E g \in Gen :
         /\ tail = IF g = "none" THEN 0 ELSE p3MIN_KSIZE
         /\ fresh = IF g = "new" THEN {0} ELSE {}
    /\ ppc = "check" /\ cpc = "idle"
    /\ csize \in KeySize /\ ctail = 0 /\ stat = 0

-----------------------------------------------------------------------------
(* The producer                                                            *)

\* Mutant: no room is left for the piece before the head.
HasRoomAtHead ==
    \/ head < tail /\ tail <= CbufSz - p3MIN_KSIZE
    \/ 0 < head /\ tail <= head

\* The condition of buffer_handler's loop.
HasRoom ==
    \/ head < tail /\ tail <= CbufSz - p3MIN_KSIZE
    \/ 0 < head /\ tail < USub(head, p3MIN_KSIZE)

\* The loop goes on, and a key is generated.
Check ==
    /\ ppc = "check"
    /\ HasRoom
    /\ Gen # {"none"}
    /\ ppc' = "write"
    /\ UNCHANGED <<tail, fresh, consumerVars>>

\* The piece is copied to the buffer.
Write ==
    /\ ppc = "write"
    /\ \E g \in Gen \ {"none"} :
         fresh' = IF g = "new" THEN fresh \cup {tail} ELSE fresh \ {tail}
    /\ ppc' = "bump"
    /\ UNCHANGED <<tail, consumerVars>>

\* Mutant: the tail moves on by the largest key instead of the smallest.
BumpMax ==
    /\ ppc = "bump"
    /\ tail' = tail + 2 * p3MIN_KSIZE
    /\ ppc' = "wrap"
    /\ UNCHANGED <<fresh, consumerVars>>

\* The tail moves on behind the piece.
Bump ==
    /\ ppc = "bump"
    /\ tail' = tail + p3MIN_KSIZE
    /\ ppc' = "wrap"
    /\ UNCHANGED <<fresh, consumerVars>>

Wrap ==
    /\ ppc = "wrap"
    /\ tail' = IF tail > CbufSz - p3MIN_KSIZE THEN 0 ELSE tail
    /\ ppc' = "check"
    /\ UNCHANGED <<fresh, consumerVars>>

Producer == Check \/ Write \/ Bump \/ Wrap

-----------------------------------------------------------------------------
(* The consumer                                                            *)

\* A session asks for a key.
Load(size) ==
    /\ cpc = "idle"
    /\ csize' = size
    /\ ctail' = tail
    /\ cpc' = "test"
    /\ UNCHANGED <<head, stat, fresh, producerVars>>

Return(s) == stat' = s /\ cpc' = "idle"

Empty == head = ctail \/ head = ctail - 1

Wrapped == ~Empty /\ ctail < head

\* No key, or not enough key data: try later.
Unavailable ==
    /\ cpc = "test"
    /\ Empty \/ (~Wrapped /\ USub(ctail, head) < csize)
    /\ Return(1)
    /\ UNCHANGED <<head, csize, ctail, fresh, producerVars>>

\* Mutant: whether the key fits before the end is not tested.
AvailableNoFit ==
    /\ cpc = "test"
    /\ Wrapped \/ (~Empty /\ ~Wrapped /\ USub(ctail, head) >= csize)
    /\ cpc' = "copy"
    /\ UNCHANGED <<head, csize, ctail, stat, fresh, producerVars>>

\* The key lies before the end of the buffer, or before the tail.
Available ==
    /\ cpc = "test"
    /\ \/ Wrapped /\ head + csize <= CbufSz
       \/ ~Empty /\ ~Wrapped /\ USub(ctail, head) >= csize
    /\ cpc' = "copy"
    /\ UNCHANGED <<head, csize, ctail, stat, fresh, producerVars>>

\* The head wraps around the buffer.
Rewind ==
    /\ cpc = "test"
    /\ Wrapped /\ head + csize > CbufSz
    /\ head' = 0
    /\ cpc' = "rewound"
    /\ UNCHANGED <<csize, ctail, stat, fresh, producerVars>>

\* There is a key at the start of the buffer ...
AvailableAtStart ==
    /\ cpc = "rewound"
    /\ USub(ctail, head) >= csize
    /\ cpc' = "copy"
    /\ UNCHANGED <<head, csize, ctail, stat, fresh, producerVars>>

\* Both copies of the wrap test: the head moves on behind the key.
NextHead == IF head + csize > CbufSz THEN 0 ELSE head + csize

\* ... or there is none, but the head moves on all the same.
Skip ==
    /\ cpc = "rewound"
    /\ USub(ctail, head) < csize
    /\ head' = NextHead
    /\ Return(1)
    /\ UNCHANGED <<csize, ctail, fresh, producerVars>>

Copy ==
    /\ cpc = "copy"
    /\ fresh' = fresh \ Pieces(head, csize)
    /\ cpc' = "advance"
    /\ UNCHANGED <<head, csize, ctail, stat, producerVars>>

Advance ==
    /\ cpc = "advance"
    /\ head' = NextHead
    /\ Return(0)
    /\ UNCHANGED <<csize, ctail, fresh, producerVars>>

Consumer ==
    \/ Unavailable \/ Available \/ Rewind
    \/ AvailableAtStart \/ Skip \/ Copy \/ Advance

Next == Producer \/ Consumer \/ \E size \in KeySize : Load(size)

Spec == Init /\ [][Next]_vars

(* system_handler calls buffer_handler at least once every second, a       *)
(* kernel function runs to its end, and a session without a key asks again *)
(* at the next packet that finds the rekeying due.                         *)
FairSpec ==
    /\ Spec
    /\ WF_vars(Producer)
    /\ WF_vars(Consumer)
    /\ \A size \in KeySize : WF_vars(Load(size))

-----------------------------------------------------------------------------
(* Properties                                                              *)

\* Types of the indexes and of the two control states.
TypeOK ==
    /\ head \in Offset /\ tail \in Offset /\ ctail \in Offset
    /\ fresh \subseteq Offset
    /\ ppc \in {"check", "write", "bump", "wrap"}
    /\ cpc \in {"idle", "test", "rewound", "copy", "advance"}
    /\ csize \in KeySize
    /\ stat \in {0, 1}

(* Neither memcpy reaches beyond the end of the buffer, whatever the other *)
(* side does between a test and the copy (buffer_handler's loop condition, *)
(* p3_get_key's tests, which subtract without sign).                       *)
InBounds ==
    /\ cpc = "copy" => head + csize <= CbufSz
    /\ ppc = "write" => tail + p3MIN_KSIZE <= CbufSz

(* The producer never writes into the bytes the consumer is copying,       *)
(* though they share no lock: no session gets half a key.                  *)
NoTornKey ==
    cpc = "copy" /\ ppc = "write" =>
        head + csize <= tail \/ tail + p3MIN_KSIZE <= head

(* Every piece of a key that p3_get_key hands out is new: the comment says *)
(* "The new key is returned in this structure".                            *)
NoReuse == cpc = "copy" => Pieces(head, csize) \subseteq fresh

(* A session that was told "Key unavailable, try later" gets a key when it *)
(* tries again often enough.                                               *)
TryLater == stat = 1 ~> stat = 0

=============================================================================
