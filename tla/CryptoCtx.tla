------------------------------ MODULE CryptoCtx ------------------------------
(***************************************************************************)
(* The cipher contexts of the sessions (p3kcrypto.c): p3_init_crypto       *)
(* creates four of them, p3_rekey deletes the previous four, makes the     *)
(* current ones the previous ones and creates four new ones, p3_encrypt    *)
(* and p3_decrypt look one up under crypto_lock and use it after they have *)
(* released the lock.  Contexts are memory: an address is used again once  *)
(* it is free.                                                             *)
(***************************************************************************)
EXTENDS Naturals, FiniteSets

CONSTANTS
    Threads,    \* CPUs that handle packets and ioctls
    Sessions,
    Kinds,      \* datenc, datdec, ctlenc, ctldec
    Ids,        \* addresses of contexts
    NoThread, NoCtx

ASSUME CtxAssumption ==
    /\ NoThread \notin Threads /\ NoCtx \notin Ids
    /\ IsFiniteSet(Kinds) /\ IsFiniteSet(Ids)

VARIABLES
    lock,      \* crypto_lock: its holder
    lockheld,  \* "p3_rekey holds the lock for p3_init_crypto"
    live,      \* allocated contexts
    ctx,       \* session -> kind -> generation (1 current, 0 previous)
    pc,        \* thread -> what it is doing, and for which session
    todo,      \* thread -> contexts p3_init_crypto has still to create
    use,       \* thread -> the context in use; age: rekeyings since its look-up
    fault,     \* history: an allocation failed, or p3_init_crypto of a new
               \* session began while p3_rekey held the lock for itself
    lost       \* history: contexts overwritten by p3_init_crypto of a new
               \* session for a host that had contexts

vars == <<lock, lockheld, live, ctx, pc, todo, use, fault, lost>>

Idle == [at |-> "idle", s |-> NoThread]
NoUse == [id |-> NoCtx, k |-> NoCtx, g |-> 1, age |-> 0]
Slots == Sessions \X Kinds \X {0, 1}
At(x) == ctx[x[1]][x[2]][x[3]]

Init == /\ lock = NoThread /\ lockheld = FALSE /\ live = {}
        /\ ctx = [s \in Sessions |-> [k \in Kinds |-> [g \in {0, 1} |-> NoCtx]]]
        /\ pc = [t \in Threads |-> Idle]
        /\ todo = [t \in Threads |-> {}]
        /\ use = [t \in Threads |-> NoUse]
        /\ fault = "none" /\ lost = {}

Ready(s) == \A k \in Kinds : ctx[s][k][1] # NoCtx

(* p3_init_crypto for a host that is defined, and again for every new       *)
(* session of the host (parse_p3data), whether or not it has contexts and   *)
(* whatever another thread does with them: it takes the lock unless the     *)
(* flag says it is held already, by whomever.                               *)
InitEnter(t, s) ==
    /\ pc[t] = Idle
    /\ \/ lockheld /\ fault' = "overlap" /\ UNCHANGED lock
       \/ ~lockheld /\ lock = NoThread /\ lock' = t /\ UNCHANGED fault
    /\ pc' = [pc EXCEPT ![t] = [at |-> "init", s |-> s]]
    /\ todo' = [todo EXCEPT ![t] = Kinds]
    /\ UNCHANGED <<lockheld, live, ctx, use, lost>>

(* p3_init_crypto, one CreateAESCtx: the new context is the current one.    *)
(* What was in the slot is not deleted: p3_rekey has kept it as the         *)
(* previous one, a new session loses it.                                    *)
CreateCtx(t, k) ==
    /\ pc[t].at \in {"init", "create"} /\ k \in todo[t]
    /\ \E i \in Ids \ live :
          /\ live' = live \cup {i}
          /\ ctx' = [ctx EXCEPT ![pc[t].s][k][1] = i]
          /\ lost' = (lost \ {i}) \cup (IF pc[t].at = "init"
                                        THEN {ctx[pc[t].s][k][1]} \ {NoCtx} ELSE {})
    /\ todo' = [todo EXCEPT ![t] = @ \ {k}]
    /\ UNCHANGED <<lock, lockheld, pc, use, fault>>

(* CreateAESCtx fails: p3_init_crypto returns without releasing the lock.   *)
CreateFails(t) ==
    /\ todo[t] # {}
    /\ fault' = IF fault = "overlap" THEN fault ELSE "alloc"
    /\ todo' = [todo EXCEPT ![t] = {}]
    /\ pc' = [pc EXCEPT ![t] = IF pc[t].at = "init" THEN Idle ELSE [pc[t] EXCEPT !.at = "unlock"]]
    /\ UNCHANGED <<lock, lockheld, live, ctx, use, lost>>

\* Mutant: p3_init_crypto always leaves the release to its caller.
InitExitKeepsLock(t) ==
    /\ pc[t].at = "init" /\ todo[t] = {}
    /\ pc' = [pc EXCEPT ![t] = Idle]
    /\ UNCHANGED <<lock, lockheld, live, ctx, todo, use, fault, lost>>

(* p3_init_crypto returns: it releases the lock if the flag is not set now. *)
InitExit(t) ==
    /\ pc[t].at = "init" /\ todo[t] = {}
    /\ lock' = IF lockheld THEN lock ELSE NoThread
    /\ pc' = [pc EXCEPT ![t] = Idle]
    /\ UNCHANGED <<lockheld, live, ctx, todo, use, fault, lost>>

RekeyLock(t, s) ==
    /\ pc[t] = Idle /\ Ready(s) /\ lock = NoThread
    /\ lock' = t
    /\ pc' = [pc EXCEPT ![t] = [at |-> "switch", s |-> s]]
    /\ UNCHANGED <<lockheld, live, ctx, todo, use, fault, lost>>

\* What p3_rekey does after the contexts were moved, before p3_init_crypto
\* creates the new ones.
Switched(t) ==
    /\ lockheld' = TRUE
    /\ todo' = [todo EXCEPT ![t] = Kinds]
    /\ pc' = [pc EXCEPT ![t].at = "create"]
    /\ use' = [u \in Threads |->
                 IF pc[u] = [at |-> "use", s |-> pc[t].s] /\ use[u].age < 2
                 THEN [use[u] EXCEPT !.age = @ + 1] ELSE use[u]]
    /\ UNCHANGED <<lock, fault, lost>>

\* Mutant: the current contexts are deleted instead of the previous ones.
RekeySwitchCurrent(t) ==
    LET s == pc[t].s
    IN  /\ pc[t].at = "switch"
        /\ live' = live \ {ctx[s][k][1] : k \in Kinds}
        /\ ctx' = [ctx EXCEPT ![s] = [k \in Kinds |-> [g \in {0, 1} |-> ctx[s][k][1]]]]
        /\ Switched(t)

\* Mutant: nothing is kept for the packets of the old keys.
RekeySwitchAll(t) ==
    LET s == pc[t].s
    IN  /\ pc[t].at = "switch"
        /\ live' = live \ {ctx[s][k][g] : k \in Kinds, g \in {0, 1}}
        /\ ctx' = [ctx EXCEPT ![s] = [k \in Kinds |-> [g \in {0, 1} |-> NoCtx]]]
        /\ Switched(t)

\* Mutant: DeleteAESCtx is forgotten.
RekeySwitchLeaks(t) ==
    LET s == pc[t].s
    IN  /\ pc[t].at = "switch"
        /\ ctx' = [ctx EXCEPT ![s] = [k \in Kinds |-> [g \in {0, 1} |-> ctx[s][k][1]]]]
        /\ UNCHANGED live
        /\ Switched(t)

(* p3_rekey: DeleteAESCtx on the previous contexts, and the current ones    *)
(* become the previous ones.                                                *)
RekeySwitch(t) ==
    LET s == pc[t].s
    IN  /\ pc[t].at = "switch"
        /\ live' = live \ {ctx[s][k][0] : k \in Kinds}
        /\ ctx' = [ctx EXCEPT ![s] = [k \in Kinds |-> [g \in {0, 1} |-> ctx[s][k][1]]]]
        /\ Switched(t)

RekeyCreated(t) ==
    /\ pc[t].at = "create" /\ todo[t] = {}
    /\ pc' = [pc EXCEPT ![t].at = "unlock"]
    /\ UNCHANGED <<lock, lockheld, live, ctx, todo, use, fault, lost>>

\* Mutant: p3_rekey leaves the release to p3_init_crypto.
RekeyUnlockNot(t) ==
    /\ pc[t].at = "unlock"
    /\ lockheld' = FALSE
    /\ pc' = [pc EXCEPT ![t] = Idle]
    /\ UNCHANGED <<lock, live, ctx, todo, use, fault, lost>>

RekeyUnlock(t) ==
    /\ pc[t].at = "unlock"
    /\ lockheld' = FALSE /\ lock' = NoThread
    /\ pc' = [pc EXCEPT ![t] = Idle]
    /\ UNCHANGED <<live, ctx, todo, use, fault, lost>>

(* p3_encrypt, p3_decrypt: the context is looked up under the lock ...      *)
LookUp(t, s, k, g) ==
    /\ pc[t] = Idle /\ lock = NoThread /\ ctx[s][k][g] # NoCtx
    /\ use' = [use EXCEPT ![t] = [id |-> ctx[s][k][g], k |-> k, g |-> g, age |-> 0]]
    /\ pc' = [pc EXCEPT ![t] = [at |-> "use", s |-> s]]
    /\ UNCHANGED <<lock, lockheld, live, ctx, todo, fault, lost>>

(* ... and used after it was released: DoAES.                               *)
UseCtx(t) ==
    /\ pc[t].at = "use"
    /\ pc' = [pc EXCEPT ![t] = Idle]
    /\ use' = [use EXCEPT ![t] = NoUse]
    /\ UNCHANGED <<lock, lockheld, live, ctx, todo, fault, lost>>

Step(t) == \/ \E s \in Sessions : InitEnter(t, s) \/ RekeyLock(t, s)
           \/ \E s \in Sessions, k \in Kinds, g \in {0, 1} : LookUp(t, s, k, g)
           \/ \E k \in Kinds : CreateCtx(t, k)
           \/ CreateFails(t) \/ InitExit(t) \/ RekeySwitch(t) \/ RekeyCreated(t)
           \/ RekeyUnlock(t) \/ UseCtx(t)

Next == \E t \in Threads : Step(t)
Spec == Init /\ [][Next]_vars

\* A thread inside one of the functions goes on; CreateAESCtx returns, with
\* or without a context.
Works(t) == \/ \E k \in Kinds : CreateCtx(t, k)
            \/ CreateFails(t)
            \/ InitExit(t) \/ RekeySwitch(t) \/ RekeyCreated(t) \/ RekeyUnlock(t) \/ UseCtx(t)
FairSpec == Spec /\ \A t \in Threads : WF_vars(Works(t))

-----------------------------------------------------------------------------
(* Properties.                                                              *)

Phases == {"idle", "init", "switch", "create", "unlock", "use"}

(* The types of the lock, the contexts and the threads' states.             *)
TypeOK ==
    /\ lock \in Threads \cup {NoThread} /\ lockheld \in BOOLEAN
    /\ live \subseteq Ids
    /\ ctx \in [Sessions -> [Kinds -> [{0, 1} -> Ids \cup {NoCtx}]]]
    /\ pc \in [Threads -> [at : Phases, s : Sessions \cup {NoThread}]]
    /\ todo \in [Threads -> SUBSET Kinds]
    /\ use \in [Threads -> [id : Ids \cup {NoCtx}, k : Kinds \cup {NoCtx},
                            g : {0, 1}, age : 0..2]]
    /\ fault \in {"none", "alloc", "overlap"}
    /\ lost \subseteq Ids

(* crypto_lock excludes: the thread that creates or deletes contexts holds  *)
(* the lock, and nobody holds it who has left p3_init_crypto or p3_rekey.   *)
LockExcludes ==
    fault = "none" =>
        \A t \in Threads : (lock = t) <=> pc[t].at \in {"init", "switch", "create", "unlock"}

(* No slot names a context that was deleted, and no two slots share one,    *)
(* except the two generations of a slot p3_rekey has still to fill.         *)
SlotsLive ==
    fault = "none" =>
      /\ \A x \in Slots : At(x) # NoCtx => At(x) \in live
      /\ \A x, y \in Slots : (x # y /\ At(x) # NoCtx /\ At(x) = At(y))
            => /\ x[1] = y[1] /\ x[2] = y[2]
               /\ \E t \in Threads : /\ pc[t].at = "create" /\ pc[t].s = x[1]
                                     /\ x[2] \in todo[t]

(* A context in use outside the lock survives the rekeyings the protocol    *)
(* allows meanwhile: one for a current context, none for a previous one.    *)
(* It is then still allocated, and the context of its session and kind or   *)
(* one that a new session has lost, not memory that was given away.         *)
GracePeriod ==
    fault = "none" =>
        \A t \in Threads :
            (pc[t].at = "use" /\ use[t].age + (1 - use[t].g) < 2)
              => /\ use[t].id \in live
                 /\ \/ use[t].id \in lost
                    \/ \E g \in {0, 1} : ctx[pc[t].s][use[t].k][g] = use[t].id

(* p3_init_crypto of a new session for a host that has contexts is the only *)
(* place that loses any: every other allocated context is in a slot, after  *)
(* any rekeyings and even when CreateAESCtx has failed.                     *)
NoLeak ==
    fault # "overlap" =>
        \A i \in live \ lost : \E x \in Slots : At(x) = i

(* The lock is released again, unless CreateAESCtx failed under             *)
(* p3_init_crypto or another thread's p3_init_crypto interfered.            *)
LockReleased == lock # NoThread ~> (lock = NoThread \/ fault # "none")
=============================================================================
