--------------------------- MODULE CryptoCtxProofs ---------------------------
(***************************************************************************)
(* Proofs that crypto_lock orders the threads that create and delete       *)
(* contexts, that no slot names a deleted context, that none is lost and   *)
(* that a context in use survives one rekeying, for any number of threads, *)
(* sessions and addresses.                                                 *)
(***************************************************************************)
EXTENDS CryptoCtx, TLAPS

Critical == {"init", "switch", "create", "unlock"}

\* A thread that is not idle works for a session, and the context it uses is
\* one of that session's.
ThreadInv ==
    \A t \in Threads :
        /\ pc[t].at # "idle" => pc[t].s \in Sessions
        /\ pc[t].at = "use" => use[t].id \in Ids /\ use[t].k \in Kinds
        /\ todo[t] # {} => pc[t].at \in {"init", "create"}

\* The lock and the flag that passes it on to p3_init_crypto.
Discipline ==
    fault # "overlap" =>
      /\ \A t \in Threads : pc[t].at \in Critical => lock = t
      /\ lockheld => lock \in Threads /\ pc[lock].at \in {"create", "unlock"}
      /\ \A t \in Threads : pc[t].at \in {"create", "unlock"} => lockheld

\* Without a failed allocation the holder of the lock is at work.
HolderWorks ==
    fault = "none" => \A t \in Threads : lock = t => pc[t].at \in Critical

\* The slot that p3_rekey is about to fill loses nothing.
Overwritable ==
    fault # "overlap" =>
      \A t \in Threads : \A k \in todo[t] :
        pc[t].at = "create" => ctx[pc[t].s][k][1] = ctx[pc[t].s][k][0]

\* A context that a new session has lost is in no slot, so that it is never
\* deleted.
LostInv ==
    fault = "none" =>
      /\ lost \subseteq live
      /\ \A s \in Sessions, k \in Kinds, g \in {0, 1} : ctx[s][k][g] \notin lost

\* A context in use is where it was found, or one generation behind, unless a
\* new session has lost it.
InUse ==
    fault = "none" =>
      \A t \in Threads : pc[t].at = "use" =>
        /\ use[t].age = 0 =>
             /\ use[t].id \in lost \/ ctx[pc[t].s][use[t].k][use[t].g] = use[t].id
             /\ \A u \in Threads : pc[u].at = "create" => pc[u].s # pc[t].s
        /\ (use[t].age = 1 /\ use[t].g = 1) =>
             use[t].id \in lost \/ ctx[pc[t].s][use[t].k][0] = use[t].id

IInv == /\ TypeOK /\ ThreadInv /\ Discipline /\ HolderWorks /\ Overwritable
        /\ LostInv /\ InUse /\ SlotsLive /\ NoLeak
-----------------------------------------------------------------------------
(* What the actions do to single slots                                      *)

\* CreateAESCtx fills the current slot of its session and kind.
LEMMA CreateSlots ==
    ASSUME TypeOK, NEW s \in Sessions, NEW k \in Kinds, NEW i \in Ids,
           ctx' = [ctx EXCEPT ![s][k][1] = i]
    PROVE  /\ ctx' \in [Sessions -> [Kinds -> [{0, 1} -> Ids \cup {NoCtx}]]]
           /\ \A r \in Sessions, l \in Kinds, g \in {0, 1} :
                 ctx'[r][l][g] = IF r = s /\ l = k /\ g = 1 THEN i ELSE ctx[r][l][g]
BY DEF TypeOK

\* p3_rekey makes the current context of every kind the previous one too.
LEMMA SwitchSlots ==
    ASSUME TypeOK, NEW s \in Sessions,
           ctx' = [ctx EXCEPT ![s] = [k \in Kinds |-> [g \in {0, 1} |-> ctx[s][k][1]]]]
    PROVE  /\ ctx' \in [Sessions -> [Kinds -> [{0, 1} -> Ids \cup {NoCtx}]]]
           /\ \A r \in Sessions, l \in Kinds, g \in {0, 1} :
                 ctx'[r][l][g] = IF r = s THEN ctx[r][l][1] ELSE ctx[r][l][g]
BY DEF TypeOK

-----------------------------------------------------------------------------
(* Types, and what each thread is about                                     *)

\* Every step keeps the types and what a thread's phase says of it.
LEMMA TypeStep ==
    ASSUME TypeOK, ThreadInv, [Next]_vars
    PROVE  TypeOK' /\ ThreadInv'
<1> USE CtxAssumption
<1>1. CASE UNCHANGED vars
  BY <1>1 DEF vars, TypeOK, ThreadInv
<1>2. ASSUME NEW t \in Threads, NEW s \in Sessions, InitEnter(t, s)
      PROVE  TypeOK' /\ ThreadInv'
  BY <1>2 DEF InitEnter, TypeOK, ThreadInv, Idle, Phases
<1>3. ASSUME NEW t \in Threads, NEW s \in Sessions, RekeyLock(t, s)
      PROVE  TypeOK' /\ ThreadInv'
  BY <1>3 DEF RekeyLock, TypeOK, ThreadInv, Idle, Phases
<1>4. ASSUME NEW t \in Threads, NEW s \in Sessions, NEW k \in Kinds, NEW g \in {0, 1},
             LookUp(t, s, k, g)
      PROVE  TypeOK' /\ ThreadInv'
  BY <1>4 DEF LookUp, TypeOK, ThreadInv, Idle, Phases
<1>5. ASSUME NEW t \in Threads, NEW k \in Kinds, CreateCtx(t, k)
      PROVE  TypeOK' /\ ThreadInv'
  <2>1. PICK i \in Ids \ live : ctx' = [ctx EXCEPT ![pc[t].s][k][1] = i] /\ live' = live \cup {i}
    BY <1>5 DEF CreateCtx
  <2>2. pc[t].s \in Sessions
    BY <1>5 DEF CreateCtx, ThreadInv
  <2>3. ctx' \in [Sessions -> [Kinds -> [{0, 1} -> Ids \cup {NoCtx}]]]
    BY <2>1, <2>2, CreateSlots
  <2>4. lost' \subseteq Ids
    BY <1>5, <2>2 DEF CreateCtx, TypeOK
  <2> QED
    BY <1>5, <2>1, <2>3, <2>4 DEF CreateCtx, TypeOK, ThreadInv
<1>6. ASSUME NEW t \in Threads, CreateFails(t)
      PROVE  TypeOK' /\ ThreadInv'
  BY <1>6 DEF CreateFails, TypeOK, ThreadInv, Idle, Phases
<1>7. ASSUME NEW t \in Threads, InitExit(t)
      PROVE  TypeOK' /\ ThreadInv'
  BY <1>7 DEF InitExit, TypeOK, ThreadInv, Idle, Phases
<1>8. ASSUME NEW t \in Threads, RekeySwitch(t)
      PROVE  TypeOK' /\ ThreadInv'
  <2>1. pc[t].s \in Sessions
    BY <1>8 DEF RekeySwitch, ThreadInv
  <2>2. ctx' \in [Sessions -> [Kinds -> [{0, 1} -> Ids \cup {NoCtx}]]]
    BY <1>8, <2>1, SwitchSlots DEF RekeySwitch
  <2>3. use' \in [Threads -> [id : Ids \cup {NoCtx}, k : Kinds \cup {NoCtx}, g : {0, 1}, age : 0..2]]
    <3> SUFFICES ASSUME NEW u \in Threads
                 PROVE  use'[u] \in [id : Ids \cup {NoCtx}, k : Kinds \cup {NoCtx},
                                     g : {0, 1}, age : 0..2]
      BY <1>8 DEF RekeySwitch, Switched
    <3>1. use'[u] = use[u] \/ (use[u].age < 2 /\ use'[u] = [use[u] EXCEPT !.age = @ + 1])
      BY <1>8 DEF RekeySwitch, Switched
    <3>2. use[u] \in [id : Ids \cup {NoCtx}, k : Kinds \cup {NoCtx}, g : {0, 1}, age : 0..2]
      BY DEF TypeOK
    <3> QED
      BY <3>1, <3>2
  <2>4. TypeOK'
    BY <1>8, <2>2, <2>3 DEF RekeySwitch, Switched, TypeOK, Phases
  <2>5. \A u \in Threads : use'[u].id = use[u].id /\ use'[u].k = use[u].k
    BY <1>8 DEF RekeySwitch, Switched, TypeOK
  <2> QED
    BY <1>8, <2>1, <2>4, <2>5 DEF RekeySwitch, Switched, TypeOK, ThreadInv, Phases
<1>9. ASSUME NEW t \in Threads, RekeyCreated(t)
      PROVE  TypeOK' /\ ThreadInv'
  BY <1>9 DEF RekeyCreated, TypeOK, ThreadInv, Phases
<1>10. ASSUME NEW t \in Threads, RekeyUnlock(t)
       PROVE  TypeOK' /\ ThreadInv'
  BY <1>10 DEF RekeyUnlock, TypeOK, ThreadInv, Idle, Phases
<1>11. ASSUME NEW t \in Threads, UseCtx(t)
       PROVE  TypeOK' /\ ThreadInv'
  BY <1>11 DEF UseCtx, TypeOK, ThreadInv, Idle, NoUse, Phases
<1> QED
  BY <1>1, <1>2, <1>3, <1>4, <1>5, <1>6, <1>7, <1>8, <1>9, <1>10, <1>11 DEF Next, Step

-----------------------------------------------------------------------------
(* The lock                                                                 *)

\* Every step keeps the rules about crypto_lock and lockheld.
LEMMA LockStep ==
    ASSUME TypeOK, ThreadInv, Discipline, HolderWorks, [Next]_vars
    PROVE  Discipline' /\ HolderWorks'
<1> USE CtxAssumption DEF Critical
<1>1. CASE UNCHANGED vars
  BY <1>1 DEF vars, Discipline, HolderWorks
<1>2. ASSUME NEW t \in Threads, NEW s \in Sessions, InitEnter(t, s)
      PROVE  Discipline' /\ HolderWorks'
  BY <1>2 DEF InitEnter, TypeOK, Discipline, HolderWorks, Idle
<1>3. ASSUME NEW t \in Threads, NEW s \in Sessions, RekeyLock(t, s)
      PROVE  Discipline' /\ HolderWorks'
  BY <1>3 DEF RekeyLock, TypeOK, Discipline, HolderWorks, Idle
<1>4. ASSUME NEW t \in Threads, NEW s \in Sessions, NEW k \in Kinds, NEW g \in {0, 1},
             LookUp(t, s, k, g)
      PROVE  Discipline' /\ HolderWorks'
  BY <1>4 DEF LookUp, TypeOK, Discipline, HolderWorks, Idle
<1>5. ASSUME NEW t \in Threads, NEW k \in Kinds, CreateCtx(t, k)
      PROVE  Discipline' /\ HolderWorks'
  BY <1>5 DEF CreateCtx, Discipline, HolderWorks
<1>6. ASSUME NEW t \in Threads, CreateFails(t)
      PROVE  Discipline' /\ HolderWorks'
  BY <1>6 DEF CreateFails, TypeOK, ThreadInv, Discipline, HolderWorks, Idle
<1>7. ASSUME NEW t \in Threads, InitExit(t)
      PROVE  Discipline' /\ HolderWorks'
  BY <1>7 DEF InitExit, TypeOK, Discipline, HolderWorks, Idle
<1>8. ASSUME NEW t \in Threads, RekeySwitch(t)
      PROVE  Discipline' /\ HolderWorks'
  BY <1>8 DEF RekeySwitch, Switched, TypeOK, Discipline, HolderWorks
<1>9. ASSUME NEW t \in Threads, RekeyCreated(t)
      PROVE  Discipline' /\ HolderWorks'
  BY <1>9 DEF RekeyCreated, TypeOK, Discipline, HolderWorks
<1>10. ASSUME NEW t \in Threads, RekeyUnlock(t)
       PROVE  Discipline' /\ HolderWorks'
  BY <1>10 DEF RekeyUnlock, TypeOK, Discipline, HolderWorks, Idle
<1>11. ASSUME NEW t \in Threads, UseCtx(t)
       PROVE  Discipline' /\ HolderWorks'
  BY <1>11 DEF UseCtx, TypeOK, Discipline, HolderWorks, Idle
<1> QED
  BY <1>1, <1>2, <1>3, <1>4, <1>5, <1>6, <1>7, <1>8, <1>9, <1>10, <1>11 DEF Next, Step
-----------------------------------------------------------------------------
(* The slots                                                                *)

\* A slot that is about to be filled stays one that may be.
LEMMA OverwritableStep ==
    ASSUME TypeOK, ThreadInv, Discipline, Overwritable, [Next]_vars
    PROVE  Overwritable'
<1> USE CtxAssumption DEF Critical
<1>1. CASE UNCHANGED vars
  BY <1>1 DEF vars, Overwritable
<1>2. ASSUME NEW t \in Threads, NEW s \in Sessions, InitEnter(t, s)
      PROVE  Overwritable'
  BY <1>2 DEF InitEnter, TypeOK, ThreadInv, Overwritable, Idle
<1>3. ASSUME NEW t \in Threads, NEW s \in Sessions, RekeyLock(t, s)
      PROVE  Overwritable'
  BY <1>3 DEF RekeyLock, TypeOK, ThreadInv, Overwritable, Idle
<1>4. ASSUME NEW t \in Threads, NEW s \in Sessions, NEW k \in Kinds, NEW g \in {0, 1},
             LookUp(t, s, k, g)
      PROVE  Overwritable'
  BY <1>4 DEF LookUp, TypeOK, ThreadInv, Overwritable, Idle
<1>5. ASSUME NEW t \in Threads, NEW k \in Kinds, CreateCtx(t, k), fault' # "overlap",
             NEW u \in Threads, NEW l \in todo'[u]
      PROVE  pc'[u].at = "create" => ctx'[pc'[u].s][l][1] = ctx'[pc'[u].s][l][0]
  <2>1. PICK i \in Ids \ live : ctx' = [ctx EXCEPT ![pc[t].s][k][1] = i]
    BY <1>5 DEF CreateCtx
  <2>2. pc[t].s \in Sessions
    BY <1>5 DEF CreateCtx, ThreadInv
  <2>3. /\ pc' = pc /\ fault' = fault /\ l \in todo[u] /\ l \in Kinds
        /\ u = t => l # k
    BY <1>5 DEF CreateCtx, TypeOK
  <2>4. lock = t
    BY <1>5, <2>3 DEF CreateCtx, Discipline
  <2>5. u # t => pc[u].at \notin Critical
    BY <1>5, <2>3, <2>4 DEF Discipline
  <2>6. u = t \/ pc[u].at \notin {"init", "create"}
    BY <2>5
  <2>7. \A r \in Sessions, m \in Kinds, g \in {0, 1} :
           ctx'[r][m][g] = IF r = pc[t].s /\ m = k /\ g = 1 THEN i ELSE ctx[r][m][g]
    BY <2>1, <2>2 DEF TypeOK
  <2>8. CASE u = t
    BY <1>5, <2>2, <2>3, <2>8, <2>7 DEF Overwritable
  <2> QED
    BY <2>3, <2>6, <2>8
<1>6. ASSUME NEW t \in Threads, CreateFails(t)
      PROVE  Overwritable'
  BY <1>6 DEF CreateFails, TypeOK, ThreadInv, Overwritable, Idle
<1>7. ASSUME NEW t \in Threads, InitExit(t)
      PROVE  Overwritable'
  BY <1>7 DEF InitExit, TypeOK, Overwritable, Idle
<1>8. ASSUME NEW t \in Threads, RekeySwitch(t), fault' # "overlap",
             NEW u \in Threads, NEW l \in todo'[u]
      PROVE  pc'[u].at = "create" => ctx'[pc'[u].s][l][1] = ctx'[pc'[u].s][l][0]
  <2>1. pc[t].s \in Sessions
    BY <1>8 DEF RekeySwitch, ThreadInv
  <2>2. \A r \in Sessions, m \in Kinds, g \in {0, 1} :
           ctx'[r][m][g] = IF r = pc[t].s THEN ctx[r][m][1] ELSE ctx[r][m][g]
    BY <1>8, <2>1, SwitchSlots DEF RekeySwitch
  <2>3. CASE u = t
    <3>1. l \in Kinds /\ pc'[t].at = "create" /\ pc'[t].s = pc[t].s
      BY <1>8, <2>3 DEF RekeySwitch, Switched, TypeOK
    <3> QED
      BY <2>1, <2>2, <2>3, <3>1
  <2>4. CASE u # t
    <3>1. pc'[u] = pc[u]
      BY <1>8, <2>4 DEF RekeySwitch, Switched, TypeOK
    <3>2. fault # "overlap"
      BY <1>8 DEF RekeySwitch, Switched
    <3>3. pc[u].at \notin {"init", "create"}
      BY <1>8, <2>4, <3>2 DEF RekeySwitch, Discipline
    <3> QED
      BY <3>1, <3>3
  <2> QED
    BY <2>3, <2>4
<1>9. ASSUME NEW t \in Threads, RekeyCreated(t)
      PROVE  Overwritable'
  BY <1>9 DEF RekeyCreated, TypeOK, Overwritable
<1>10. ASSUME NEW t \in Threads, RekeyUnlock(t)
       PROVE  Overwritable'
  BY <1>10 DEF RekeyUnlock, TypeOK, Overwritable, Idle
<1>11. ASSUME NEW t \in Threads, UseCtx(t)
       PROVE  Overwritable'
  BY <1>11 DEF UseCtx, TypeOK, Overwritable, Idle
<1>12. ASSUME NEW t \in Threads, NEW k \in Kinds, CreateCtx(t, k)
       PROVE  Overwritable'
  BY <1>5, <1>12 DEF Overwritable
<1>13. ASSUME NEW t \in Threads, RekeySwitch(t)
       PROVE  Overwritable'
  BY <1>8, <1>13 DEF Overwritable
<1> QED
  BY <1>1, <1>2, <1>3, <1>4, <1>6, <1>7, <1>9, <1>10, <1>11, <1>12, <1>13 DEF Next, Step

(* NoLeak in terms of single slots.                                         *)
Kept(i) == \E s \in Sessions, k \in Kinds, g \in {0, 1} : ctx[s][k][g] = i

\* NoLeak, and NoLeak in the next state, in terms of single slots.
LEMMA NoLeakSlots ==
    /\ NoLeak <=> (fault # "overlap" => \A i \in live \ lost : Kept(i))
    /\ NoLeak' <=> (fault' # "overlap" => \A i \in live' \ lost' : Kept(i)')
<1>0. /\ \A s \in Sessions, k \in Kinds, g \in {0, 1} :
             <<s, k, g>> \in Slots /\ At(<<s, k, g>>) = ctx[s][k][g]
                                   /\ At(<<s, k, g>>)' = ctx'[s][k][g]
      /\ \A x \in Slots : x[1] \in Sessions /\ x[2] \in Kinds /\ x[3] \in {0, 1}
  BY DEF Slots, At
<1>1. \A i : (\E x \in Slots : At(x) = i) <=> Kept(i)
  BY <1>0 DEF At, Kept
<1>2. \A i : (\E x \in Slots : At(x)' = i) <=> Kept(i)'
  BY <1>0 DEF At, Kept
<1> QED
  BY <1>1, <1>2 DEF NoLeak

\* No step but p3_init_crypto of a new session loses a context: what p3_rekey
\* overwrites has a copy.
LEMMA LeakStep ==
    ASSUME TypeOK, ThreadInv, Overwritable, NoLeak, [Next]_vars
    PROVE  NoLeak'
<1> USE CtxAssumption
<1>0. fault # "overlap" => \A i \in live \ lost : Kept(i)
  BY NoLeakSlots
<1> SUFFICES fault' # "overlap" => \A i \in live' \ lost' : Kept(i)'
  BY NoLeakSlots
<1>1. CASE UNCHANGED <<live, ctx, lost>> /\ (fault' = fault \/ fault # "overlap" \/ fault' = "overlap")
  BY <1>0, <1>1 DEF Kept
<1>2. ASSUME NEW t \in Threads, NEW k \in Kinds, CreateCtx(t, k), fault' # "overlap",
             NEW j \in live' \ lost'
      PROVE  Kept(j)'
  <2>1. PICK i \in Ids \ live : /\ ctx' = [ctx EXCEPT ![pc[t].s][k][1] = i]
                                 /\ live' = live \cup {i}
    BY <1>2 DEF CreateCtx
  <2>2. pc[t].s \in Sessions /\ fault # "overlap" /\ k \in todo[t]
    BY <1>2 DEF CreateCtx, ThreadInv
  <2>3. \A r \in Sessions, l \in Kinds, g \in {0, 1} :
           ctx'[r][l][g] = IF r = pc[t].s /\ l = k /\ g = 1 THEN i ELSE ctx[r][l][g]
    BY <2>1, <2>2 DEF TypeOK
  <2>4. CASE j = i
    BY <2>2, <2>3, <2>4 DEF Kept
  <2>5. CASE j \in live
    <3>1. j \notin lost
      BY <1>2, <2>1, <2>2, <2>5 DEF CreateCtx
    <3>2. PICK r \in Sessions, l \in Kinds, g \in {0, 1} : ctx[r][l][g] = j
      BY <1>0, <2>2, <2>5, <3>1 DEF Kept
    <3>3. CASE r = pc[t].s /\ l = k /\ g = 1
      <4>1. j # NoCtx
        BY <2>5 DEF TypeOK
      <4>2. pc[t].at = "create"
        BY <1>2, <3>2, <3>3, <4>1 DEF CreateCtx
      <4>3. ctx[r][l][0] = j
        BY <2>2, <3>2, <3>3, <4>2 DEF Overwritable
      <4>4. ctx'[r][l][0] = j
        BY <2>3, <4>3
      <4> QED
        BY <4>4 DEF Kept
    <3>4. CASE ~(r = pc[t].s /\ l = k /\ g = 1)
      BY <2>3, <3>2, <3>4 DEF Kept
    <3> QED
      BY <3>3, <3>4
  <2> QED
    BY <2>1, <2>4, <2>5
<1>3. ASSUME NEW t \in Threads, RekeySwitch(t), fault' # "overlap", NEW j \in live' \ lost'
      PROVE  Kept(j)'
  <2>1. pc[t].s \in Sessions /\ fault # "overlap"
    BY <1>3 DEF RekeySwitch, Switched, ThreadInv
  <2>2. \A r \in Sessions, m \in Kinds, g \in {0, 1} :
           ctx'[r][m][g] = IF r = pc[t].s THEN ctx[r][m][1] ELSE ctx[r][m][g]
    BY <1>3, <2>1, SwitchSlots DEF RekeySwitch
  <2>3. j \in live \ lost /\ \A m \in Kinds : ctx[pc[t].s][m][0] # j
    BY <1>3 DEF RekeySwitch, Switched
  <2>4. PICK r \in Sessions, l \in Kinds, g \in {0, 1} : ctx[r][l][g] = j
    BY <1>0, <2>1, <2>3 DEF Kept
  <2>5. r = pc[t].s => g = 1
    BY <2>3, <2>4
  <2> QED
    BY <2>2, <2>4, <2>5 DEF Kept
<1>4. ASSUME NEW t \in Threads,
             \/ \E s \in Sessions : InitEnter(t, s) \/ RekeyLock(t, s)
             \/ \E s \in Sessions, k \in Kinds, g \in {0, 1} : LookUp(t, s, k, g)
             \/ CreateFails(t) \/ InitExit(t) \/ RekeyCreated(t) \/ RekeyUnlock(t)
             \/ UseCtx(t)
      PROVE  UNCHANGED <<live, ctx, lost>> /\ (fault' = fault \/ fault # "overlap" \/ fault' = "overlap")
  BY <1>4 DEF InitEnter, RekeyLock, LookUp, CreateFails, InitExit, RekeyCreated,
              RekeyUnlock, UseCtx
<1>5. CASE UNCHANGED vars
  BY <1>1, <1>5 DEF vars
<1>6. ASSUME NEW t \in Threads, Step(t)
      PROVE  fault' # "overlap" => \A i \in live' \ lost' : Kept(i)'
  BY <1>1, <1>2, <1>3, <1>4, <1>6 DEF Step
<1> QED
  BY <1>5, <1>6 DEF Next
(* SlotsLive in terms of single slots: what they name is allocated, and they *)
(* are apart, except the generations of a slot still to be filled.           *)
Alive == \A s \in Sessions, k \in Kinds, g \in {0, 1} :
            ctx[s][k][g] # NoCtx => ctx[s][k][g] \in live
Pending(s, k) == \E t \in Threads : pc[t].at = "create" /\ pc[t].s = s /\ k \in todo[t]
Apart == \A s, r \in Sessions, k, l \in Kinds, g, h \in {0, 1} :
            (~(s = r /\ k = l /\ g = h) /\ ctx[s][k][g] # NoCtx /\ ctx[s][k][g] = ctx[r][l][h])
              => s = r /\ k = l /\ Pending(s, k)

\* The same, for this state and the next.
LEMMA SlotsLiveSlots ==
    /\ SlotsLive <=> (fault = "none" => Alive /\ Apart)
    /\ SlotsLive' <=> (fault' = "none" => Alive' /\ Apart')
<1>1. /\ \A s \in Sessions, k \in Kinds, g \in {0, 1} :
             /\ <<s, k, g>> \in Slots
             /\ <<s, k, g>>[1] = s /\ <<s, k, g>>[2] = k /\ <<s, k, g>>[3] = g
      /\ \A x \in Slots : x[1] \in Sessions /\ x[2] \in Kinds /\ x[3] \in {0, 1}
  BY DEF Slots
<1>2. \A x, y \in Slots : x # y => ~(x[1] = y[1] /\ x[2] = y[2] /\ x[3] = y[3])
  BY DEF Slots
<1>3. ASSUME SlotsLive, fault = "none" PROVE Alive /\ Apart
  <2>1. ASSUME NEW s \in Sessions, NEW k \in Kinds, NEW g \in {0, 1}, ctx[s][k][g] # NoCtx
        PROVE  ctx[s][k][g] \in live
    <3> DEFINE x == <<s, k, g>>
    <3>1. x \in Slots /\ At(x) = ctx[s][k][g]
      BY <1>1 DEF At
    <3> QED
      BY <1>3, <2>1, <3>1 DEF SlotsLive
  <2>2. ASSUME NEW s \in Sessions, NEW r \in Sessions, NEW k \in Kinds, NEW l \in Kinds,
               NEW g \in {0, 1}, NEW h \in {0, 1}, ~(s = r /\ k = l /\ g = h),
               ctx[s][k][g] # NoCtx, ctx[s][k][g] = ctx[r][l][h]
        PROVE  s = r /\ k = l /\ Pending(s, k)
    <3> DEFINE x == <<s, k, g>>  y == <<r, l, h>>
    <3>1. x \in Slots /\ y \in Slots /\ x # y /\ At(x) # NoCtx /\ At(x) = At(y)
      BY <1>1, <2>2 DEF At
    <3>2. x[1] = y[1] /\ x[2] = y[2] /\ Pending(x[1], x[2])
      BY <1>3, <3>1 DEF SlotsLive, Pending
    <3> QED
      BY <3>2
  <2> QED
    BY <2>1, <2>2 DEF Alive, Apart
<1>4. ASSUME SlotsLive', fault' = "none" PROVE Alive' /\ Apart'
  <2>1. ASSUME NEW s \in Sessions, NEW k \in Kinds, NEW g \in {0, 1}, ctx'[s][k][g] # NoCtx
        PROVE  ctx'[s][k][g] \in live'
    <3> DEFINE x == <<s, k, g>>
    <3>1. x \in Slots /\ At(x)' = ctx'[s][k][g]
      BY <1>1 DEF At
    <3> QED
      BY <1>4, <2>1, <3>1 DEF SlotsLive
  <2>2. ASSUME NEW s \in Sessions, NEW r \in Sessions, NEW k \in Kinds, NEW l \in Kinds,
               NEW g \in {0, 1}, NEW h \in {0, 1}, ~(s = r /\ k = l /\ g = h),
               ctx'[s][k][g] # NoCtx, ctx'[s][k][g] = ctx'[r][l][h]
        PROVE  s = r /\ k = l /\ Pending(s, k)'
    <3> DEFINE x == <<s, k, g>>  y == <<r, l, h>>
    <3>1. x \in Slots /\ y \in Slots /\ x # y /\ At(x)' # NoCtx /\ At(x)' = At(y)'
      BY <1>1, <2>2 DEF At
    <3>2. x[1] = y[1] /\ x[2] = y[2] /\ Pending(x[1], x[2])'
      BY <1>4, <3>1 DEF SlotsLive, Pending
    <3> QED
      BY <3>2
  <2> QED
    BY <2>1, <2>2 DEF Alive, Apart
<1>5. ASSUME Alive, Apart PROVE SlotsLive
  <2>1. \A x \in Slots : At(x) # NoCtx => At(x) \in live
    BY <1>1, <1>5 DEF Alive, At
  <2>2. ASSUME NEW x \in Slots, NEW y \in Slots,
               x # y, At(x) # NoCtx, At(x) = At(y)
        PROVE  x[1] = y[1] /\ x[2] = y[2] /\ Pending(x[1], x[2])
    <3>1. PICK s \in Sessions, k \in Kinds, g \in {0, 1} : s = x[1] /\ k = x[2] /\ g = x[3]
      BY <1>1
    <3>2. PICK r \in Sessions, l \in Kinds, h \in {0, 1} : r = y[1] /\ l = y[2] /\ h = y[3]
      BY <1>1
    <3>3. ~(s = r /\ k = l /\ g = h)
      BY <1>2, <2>2, <3>1, <3>2
    <3>4. ctx[s][k][g] # NoCtx /\ ctx[s][k][g] = ctx[r][l][h]
      BY <2>2, <3>1, <3>2 DEF At
    <3>5. s = r /\ k = l /\ Pending(s, k)
      BY <1>5, <3>3, <3>4 DEF Apart
    <3> QED
      BY <3>1, <3>2, <3>5
  <2> QED
    BY <2>1, <2>2 DEF SlotsLive, Pending
<1>6. ASSUME Alive', Apart' PROVE SlotsLive'
  <2>1. \A x \in Slots : At(x)' # NoCtx => At(x)' \in live'
    BY <1>1, <1>6 DEF Alive, At
  <2>2. ASSUME NEW x \in Slots, NEW y \in Slots,
               x # y, At(x)' # NoCtx, At(x)' = At(y)'
        PROVE  x[1] = y[1] /\ x[2] = y[2] /\ Pending(x[1], x[2])'
    <3>1. PICK s \in Sessions, k \in Kinds, g \in {0, 1} : s = x[1] /\ k = x[2] /\ g = x[3]
      BY <1>1
    <3>2. PICK r \in Sessions, l \in Kinds, h \in {0, 1} : r = y[1] /\ l = y[2] /\ h = y[3]
      BY <1>1
    <3>3. ~(s = r /\ k = l /\ g = h)
      BY <1>2, <2>2, <3>1, <3>2
    <3>4. ctx'[s][k][g] # NoCtx /\ ctx'[s][k][g] = ctx'[r][l][h]
      BY <2>2, <3>1, <3>2 DEF At
    <3>5. s = r /\ k = l /\ Pending(s, k)'
      BY <1>6, <3>3, <3>4 DEF Apart
    <3> QED
      BY <3>1, <3>2, <3>5
  <2> QED
    BY <2>1, <2>2 DEF SlotsLive, Pending
<1> QED
  BY <1>3, <1>4, <1>5, <1>6 DEF SlotsLive

\* No step leaves a slot with a deleted or a shared context: p3_rekey deletes
\* the previous contexts while the slots are all apart.
LEMMA SlotsStep ==
    ASSUME TypeOK, ThreadInv, Discipline, SlotsLive, [Next]_vars
    PROVE  SlotsLive'
<1> USE CtxAssumption
<1>0. fault = "none" => Alive /\ Apart
  BY SlotsLiveSlots
<1> SUFFICES ASSUME fault' = "none" PROVE Alive' /\ Apart'
  BY SlotsLiveSlots
<1>1. CASE /\ UNCHANGED <<live, ctx>> /\ fault = "none"
           /\ \A s \in Sessions, k \in Kinds : Pending(s, k) => Pending(s, k)'
  BY <1>0, <1>1 DEF Alive, Apart
<1>2. ASSUME NEW t \in Threads, NEW k \in Kinds, CreateCtx(t, k)
      PROVE  Alive' /\ Apart'
  <2>1. PICK i \in Ids \ live : /\ ctx' = [ctx EXCEPT ![pc[t].s][k][1] = i]
                                 /\ live' = live \cup {i}
    BY <1>2 DEF CreateCtx
  <2>2. pc[t].s \in Sessions /\ fault = "none"
    BY <1>2 DEF CreateCtx, ThreadInv
  <2>3. \A r \in Sessions, l \in Kinds, g \in {0, 1} :
           ctx'[r][l][g] = IF r = pc[t].s /\ l = k /\ g = 1 THEN i ELSE ctx[r][l][g]
    BY <2>1, <2>2 DEF TypeOK
  <2>4. Alive'
    BY <1>0, <2>1, <2>2, <2>3 DEF Alive
  <2>5. \A r \in Sessions, l \in Kinds : Pending(r, l) => Pending(r, l)' \/ (r = pc[t].s /\ l = k)
    <3>1. pc' = pc /\ todo' = [todo EXCEPT ![t] = @ \ {k}]
      BY <1>2 DEF CreateCtx
    <3> QED
      BY <3>1 DEF Pending, TypeOK
  <2>6. i # NoCtx /\ \A r \in Sessions, l \in Kinds, g \in {0, 1} : ctx[r][l][g] # i
    BY <1>0, <2>2 DEF Alive
  <2>7. Apart'
    <3> SUFFICES ASSUME NEW s \in Sessions, NEW r \in Sessions, NEW m \in Kinds, NEW l \in Kinds,
                        NEW g \in {0, 1}, NEW h \in {0, 1}, ~(s = r /\ m = l /\ g = h),
                        ctx'[s][m][g] # NoCtx, ctx'[s][m][g] = ctx'[r][l][h]
                 PROVE  s = r /\ m = l /\ Pending(s, m)'
      BY DEF Apart
    <3>1. /\ ~(s = pc[t].s /\ m = k /\ g = 1)
          /\ ~(r = pc[t].s /\ l = k /\ h = 1)
      BY <2>3, <2>6
    <3>2. s = r /\ m = l /\ Pending(s, m)
      BY <1>0, <2>2, <2>3, <3>1 DEF Apart
    <3>3. ~(s = pc[t].s /\ m = k)
      BY <3>1, <3>2
    <3> QED
      BY <2>5, <3>2, <3>3
  <2> QED
    BY <2>4, <2>7
<1>3. ASSUME NEW t \in Threads, RekeySwitch(t)
      PROVE  Alive' /\ Apart'
  <2>1. pc[t].s \in Sessions /\ fault = "none"
    BY <1>3 DEF RekeySwitch, Switched, ThreadInv
  <2>2. \A r \in Sessions, m \in Kinds, g \in {0, 1} :
           ctx'[r][m][g] = IF r = pc[t].s THEN ctx[r][m][1] ELSE ctx[r][m][g]
    BY <1>3, <2>1, SwitchSlots DEF RekeySwitch
  <2>3. \A u \in Threads : pc[u].at # "create"
    BY <1>3, <2>1 DEF RekeySwitch, Discipline, Critical
  <2>4. \A s, r \in Sessions, k, l \in Kinds, g, h \in {0, 1} :
           (ctx[s][k][g] # NoCtx /\ ctx[s][k][g] = ctx[r][l][h]) => s = r /\ k = l /\ g = h
    BY <1>0, <2>1, <2>3 DEF Apart, Pending
  <2>5. live' = live \ {ctx[pc[t].s][m][0] : m \in Kinds}
    BY <1>3 DEF RekeySwitch
  <2>6. Alive'
    <3> SUFFICES ASSUME NEW r \in Sessions, NEW l \in Kinds, NEW h \in {0, 1},
                        ctx'[r][l][h] # NoCtx
                 PROVE  ctx'[r][l][h] \in live'
      BY DEF Alive
    <3>1. PICK g \in {0, 1} : ctx'[r][l][h] = ctx[r][l][g] /\ (r = pc[t].s => g = 1)
      BY <2>2
    <3>2. ctx[r][l][g] \in live
      BY <1>0, <2>1, <3>1 DEF Alive
    <3>3. \A m \in Kinds : ctx[r][l][g] # ctx[pc[t].s][m][0]
      BY <2>1, <2>4, <3>1
    <3> QED
      BY <2>5, <3>1, <3>2, <3>3
  <2>7. \A s \in Sessions, m \in Kinds : s = pc[t].s => Pending(s, m)'
    <3>1. pc'[t].at = "create" /\ pc'[t].s = pc[t].s /\ todo'[t] = Kinds
      BY <1>3 DEF RekeySwitch, Switched, TypeOK
    <3> QED
      BY <3>1 DEF Pending
  <2>8. Apart'
    <3> SUFFICES ASSUME NEW s \in Sessions, NEW r \in Sessions, NEW m \in Kinds, NEW l \in Kinds,
                        NEW g \in {0, 1}, NEW h \in {0, 1}, ~(s = r /\ m = l /\ g = h),
                        ctx'[s][m][g] # NoCtx, ctx'[s][m][g] = ctx'[r][l][h]
                 PROVE  s = r /\ m = l /\ Pending(s, m)'
      BY DEF Apart
    <3>1. PICK a, b \in {0, 1} : /\ ctx'[s][m][g] = ctx[s][m][a]
                                 /\ ctx'[r][l][h] = ctx[r][l][b]
                                 /\ s # pc[t].s => a = g
                                 /\ r # pc[t].s => b = h
      BY <2>2
    <3>2. ctx[s][m][a] # NoCtx /\ ctx[s][m][a] = ctx[r][l][b]
      BY <3>1
    <3>3. s = r /\ m = l /\ a = b
      BY ONLY <2>4, <3>2
    <3>4. CASE s = pc[t].s
      BY <2>7, <3>3, <3>4
    <3>5. CASE s # pc[t].s
      BY <3>1, <3>3, <3>5
    <3> QED
      BY <3>4, <3>5
  <2> QED
    BY <2>6, <2>8
<1>4. ASSUME NEW t \in Threads,
             \/ \E s \in Sessions : InitEnter(t, s) \/ RekeyLock(t, s)
             \/ \E s \in Sessions, k \in Kinds, g \in {0, 1} : LookUp(t, s, k, g)
             \/ CreateFails(t) \/ InitExit(t) \/ RekeyCreated(t) \/ RekeyUnlock(t)
             \/ UseCtx(t)
      PROVE  Alive' /\ Apart'
  <2>1. UNCHANGED <<live, ctx>> /\ fault = "none"
    BY <1>4 DEF InitEnter, RekeyLock, LookUp, CreateFails, InitExit, RekeyCreated,
                RekeyUnlock, UseCtx
  <2>2. ASSUME NEW u \in Threads, pc[u].at = "create", todo[u] # {}
        PROVE  pc'[u] = pc[u] /\ todo'[u] = todo[u]
    BY <1>4, <2>2 DEF InitEnter, RekeyLock, LookUp, CreateFails, InitExit, RekeyCreated,
                      RekeyUnlock, UseCtx, TypeOK, Idle
  <2>3. \A s \in Sessions, k \in Kinds : Pending(s, k) => Pending(s, k)'
    BY <2>2 DEF Pending
  <2> QED
    BY <1>1, <2>1, <2>3
<1>5. CASE UNCHANGED vars
  BY <1>1, <1>5 DEF vars, Pending
<1>6. ASSUME NEW t \in Threads, Step(t)
      PROVE  Alive' /\ Apart'
  BY <1>2, <1>3, <1>4, <1>6 DEF Step
<1> QED
  BY <1>5, <1>6 DEF Next
-----------------------------------------------------------------------------
(* The contexts in use, and those lost                                      *)

\* A lost context stays out of the slots, and allocated.
LEMMA LostStep ==
    ASSUME TypeOK, ThreadInv, Discipline, SlotsLive, LostInv, [Next]_vars
    PROVE  LostInv'
<1> USE CtxAssumption
<1>0. fault = "none" => Alive /\ Apart
  BY SlotsLiveSlots
<1> SUFFICES ASSUME fault' = "none" PROVE LostInv'
  BY DEF LostInv
<1>1. CASE UNCHANGED <<live, ctx, lost, fault>>
  BY <1>1 DEF LostInv
<1>2. ASSUME NEW t \in Threads, NEW k \in Kinds, CreateCtx(t, k)
      PROVE  LostInv'
  <2>1. PICK i \in Ids \ live : /\ ctx' = [ctx EXCEPT ![pc[t].s][k][1] = i]
                                 /\ live' = live \cup {i}
                                 /\ lost' = (lost \ {i}) \cup
                                      (IF pc[t].at = "init" THEN {ctx[pc[t].s][k][1]} \ {NoCtx}
                                                            ELSE {})
    BY <1>2 DEF CreateCtx
  <2>2. pc[t].s \in Sessions /\ fault = "none" /\ k \in todo[t]
    BY <1>2 DEF CreateCtx, ThreadInv
  <2>3. \A r \in Sessions, l \in Kinds, g \in {0, 1} :
           ctx'[r][l][g] = IF r = pc[t].s /\ l = k /\ g = 1 THEN i ELSE ctx[r][l][g]
    BY <2>1, <2>2 DEF TypeOK
  <2>4. lost' \subseteq live'
    BY <1>0, <2>1, <2>2 DEF LostInv, Alive
  <2>5. i \notin lost'
    BY <1>0, <2>1, <2>2 DEF LostInv, Alive
  <2>6. ASSUME NEW r \in Sessions, NEW l \in Kinds, NEW g \in {0, 1},
               ~(r = pc[t].s /\ l = k /\ g = 1), ctx[r][l][g] \in lost'
        PROVE  FALSE
    <3>1. ctx[r][l][g] \notin lost
      BY <2>2 DEF LostInv
    <3>2. pc[t].at = "init" /\ ctx[r][l][g] = ctx[pc[t].s][k][1] /\ ctx[r][l][g] # NoCtx
      BY <2>1, <2>6, <3>1
    <3>3. \A u \in Threads : pc[u].at # "create"
      BY <2>2, <3>2 DEF Discipline, Critical
    <3> QED
      BY <1>0, <2>2, <2>6, <3>2, <3>3 DEF Apart, Pending
  <2>7. ASSUME NEW r \in Sessions, NEW l \in Kinds, NEW g \in {0, 1}
        PROVE  ctx'[r][l][g] \notin lost'
    BY <2>3, <2>5, <2>6
  <2> QED
    BY <2>4, <2>7 DEF LostInv
<1>3. ASSUME NEW t \in Threads, RekeySwitch(t)
      PROVE  LostInv'
  <2>1. pc[t].s \in Sessions /\ fault = "none" /\ lost' = lost
    BY <1>3 DEF RekeySwitch, Switched, ThreadInv
  <2>2. \A r \in Sessions, m \in Kinds, g \in {0, 1} :
           ctx'[r][m][g] = IF r = pc[t].s THEN ctx[r][m][1] ELSE ctx[r][m][g]
    BY <1>3, <2>1, SwitchSlots DEF RekeySwitch
  <2>3. live' = live \ {ctx[pc[t].s][m][0] : m \in Kinds}
    BY <1>3 DEF RekeySwitch
  <2> QED
    BY <2>1, <2>2, <2>3 DEF LostInv
<1>4. ASSUME NEW t \in Threads,
             \/ \E s \in Sessions : InitEnter(t, s) \/ RekeyLock(t, s)
             \/ \E s \in Sessions, k \in Kinds, g \in {0, 1} : LookUp(t, s, k, g)
             \/ CreateFails(t) \/ InitExit(t) \/ RekeyCreated(t) \/ RekeyUnlock(t)
             \/ UseCtx(t)
      PROVE  UNCHANGED <<live, ctx, lost, fault>>
  BY <1>4 DEF InitEnter, RekeyLock, LookUp, CreateFails, InitExit, RekeyCreated,
              RekeyUnlock, UseCtx
<1>5. CASE UNCHANGED vars
  BY <1>1, <1>5 DEF vars
<1>6. ASSUME NEW t \in Threads, Step(t)
      PROVE  LostInv'
  BY <1>1, <1>2, <1>3, <1>4, <1>6 DEF Step
<1> QED
  BY <1>5, <1>6 DEF Next

\* A context in use is still allocated.
LEMMA InUseLive ==
    ASSUME TypeOK, ThreadInv, SlotsLive, LostInv, InUse, fault = "none",
           NEW t \in Threads, pc[t].at = "use",
           use[t].age = 0 \/ (use[t].age = 1 /\ use[t].g = 1)
    PROVE  use[t].id \in live
<1>1. /\ pc[t].s \in Sessions /\ use[t].k \in Kinds /\ use[t].g \in {0, 1}
      /\ use[t].id # NoCtx
  BY CtxAssumption DEF TypeOK, ThreadInv
<1>2. \/ use[t].id \in lost
      \/ \E g \in {0, 1} : ctx[pc[t].s][use[t].k][g] = use[t].id
  BY <1>1 DEF InUse
<1>3. Alive
  BY SlotsLiveSlots
<1> QED
  BY <1>1, <1>2, <1>3 DEF LostInv, Alive

\* A context in use moves one generation back with every rekeying.
LEMMA InUseStep ==
    ASSUME TypeOK, ThreadInv, Discipline, Overwritable, SlotsLive, LostInv, InUse,
           [Next]_vars
    PROVE  InUse'
<1> USE CtxAssumption DEF Critical
<1> SUFFICES ASSUME fault' = "none" PROVE InUse'
  BY DEF InUse
<1>1. CASE UNCHANGED vars
  BY <1>1 DEF vars, InUse
<1>2. ASSUME NEW t \in Threads, NEW s \in Sessions, InitEnter(t, s) \/ RekeyLock(t, s)
      PROVE  InUse'
  <2>1. fault = "none" /\ ctx' = ctx /\ use' = use /\ lost' = lost
    BY <1>2 DEF InitEnter, RekeyLock
  <2>2. \A u \in Threads : pc'[u].at \in {"use", "create"} => pc'[u] = pc[u]
    BY <1>2 DEF InitEnter, RekeyLock, TypeOK, Idle
  <2> QED
    BY <2>1, <2>2 DEF InUse
<1>3. ASSUME NEW t \in Threads, NEW s \in Sessions, NEW k \in Kinds, NEW g \in {0, 1},
             LookUp(t, s, k, g)
      PROVE  InUse'
  <2>1. fault = "none" /\ \A u \in Threads : pc[u].at # "create"
    BY <1>3 DEF LookUp, Discipline
  <2>2. /\ ctx' = ctx /\ lost' = lost
        /\ use' = [use EXCEPT ![t] = [id |-> ctx[s][k][g], k |-> k, g |-> g, age |-> 0]]
        /\ pc' = [pc EXCEPT ![t] = [at |-> "use", s |-> s]]
    BY <1>3 DEF LookUp
  <2> QED
    BY <2>1, <2>2 DEF TypeOK, InUse
<1>4. ASSUME NEW t \in Threads, NEW k \in Kinds, CreateCtx(t, k)
      PROVE  InUse'
  <2>1. PICK i \in Ids \ live : /\ ctx' = [ctx EXCEPT ![pc[t].s][k][1] = i]
                                 /\ lost' = (lost \ {i}) \cup
                                      (IF pc[t].at = "init" THEN {ctx[pc[t].s][k][1]} \ {NoCtx}
                                                            ELSE {})
    BY <1>4 DEF CreateCtx
  <2>2. /\ pc[t].s \in Sessions /\ fault = "none" /\ k \in todo[t]
        /\ pc[t].at \in {"init", "create"} /\ pc' = pc /\ use' = use
    BY <1>4 DEF CreateCtx, ThreadInv
  <2>3. \A r \in Sessions, l \in Kinds, g \in {0, 1} :
           ctx'[r][l][g] = IF r = pc[t].s /\ l = k /\ g = 1 THEN i ELSE ctx[r][l][g]
    BY <2>1, <2>2 DEF TypeOK
  <2>4. ASSUME NEW r \in Sessions, NEW l \in Kinds, NEW g \in {0, 1}, NEW j \in live,
               j \in lost \/ ctx[r][l][g] = j,
               (r = pc[t].s /\ l = k /\ g = 1) => pc[t].at = "init"
        PROVE  j \in lost' \/ ctx'[r][l][g] = j
    <3>1. j # i /\ j # NoCtx
      BY <2>1 DEF TypeOK
    <3>2. CASE j \in lost
      BY <2>1, <3>1, <3>2
    <3>3. CASE ctx[r][l][g] = j /\ r = pc[t].s /\ l = k /\ g = 1
      BY <2>1, <2>4, <3>1, <3>3
    <3>4. CASE ctx[r][l][g] = j /\ ~(r = pc[t].s /\ l = k /\ g = 1)
      BY <2>3, <3>4
    <3> QED
      BY <2>4, <3>2, <3>3, <3>4
  <2>5. ASSUME NEW u \in Threads, pc[u].at = "use", use[u].id \in live
        PROVE  /\ use[u].age = 0 =>
                    /\ use[u].id \in lost' \/ ctx'[pc[u].s][use[u].k][use[u].g] = use[u].id
                    /\ \A v \in Threads : pc[v].at = "create" => pc[v].s # pc[u].s
               /\ (use[u].age = 1 /\ use[u].g = 1) =>
                    use[u].id \in lost' \/ ctx'[pc[u].s][use[u].k][0] = use[u].id
    <3>1. pc[u].s \in Sessions /\ use[u].k \in Kinds /\ use[u].g \in {0, 1}
      BY <2>5 DEF ThreadInv, TypeOK
    <3>2. /\ use[u].age = 0 =>
               /\ use[u].id \in lost \/ ctx[pc[u].s][use[u].k][use[u].g] = use[u].id
               /\ \A v \in Threads : pc[v].at = "create" => pc[v].s # pc[u].s
          /\ (use[u].age = 1 /\ use[u].g = 1) =>
               use[u].id \in lost \/ ctx[pc[u].s][use[u].k][0] = use[u].id
      BY <2>2, <2>5 DEF InUse
    <3>3. use[u].age = 0 /\ pc[u].s = pc[t].s => pc[t].at = "init"
      BY <2>2, <3>2
    <3>4. use[u].age = 0 =>
            use[u].id \in lost' \/ ctx'[pc[u].s][use[u].k][use[u].g] = use[u].id
      BY <2>4, <2>5, <3>1, <3>2, <3>3
    <3>5. (use[u].age = 1 /\ use[u].g = 1) =>
            use[u].id \in lost' \/ ctx'[pc[u].s][use[u].k][0] = use[u].id
      BY <2>4, <2>5, <3>1, <3>2
    <3> QED
      BY <3>2, <3>4, <3>5
  <2>6. ASSUME NEW u \in Threads, pc[u].at = "use",
               use[u].age = 0 \/ (use[u].age = 1 /\ use[u].g = 1)
        PROVE  use[u].id \in live
    BY <2>2, <2>6, InUseLive
  <2> QED
    BY <2>2, <2>5, <2>6 DEF InUse
<1>5. ASSUME NEW t \in Threads, RekeySwitch(t)
      PROVE  InUse'
  <2>1. pc[t].s \in Sessions /\ fault = "none" /\ pc[t].at = "switch" /\ lost' = lost
    BY <1>5 DEF RekeySwitch, Switched, ThreadInv
  <2>2. \A r \in Sessions, m \in Kinds, g \in {0, 1} :
           ctx'[r][m][g] = IF r = pc[t].s THEN ctx[r][m][1] ELSE ctx[r][m][g]
    BY <1>5, <2>1, SwitchSlots DEF RekeySwitch
  <2>3. /\ pc'[t] = [pc[t] EXCEPT !.at = "create"]
        /\ \A u \in Threads \ {t} : pc'[u] = pc[u]
    BY <1>5 DEF RekeySwitch, Switched, TypeOK
  <2>4. ASSUME NEW u \in Threads, pc'[u].at = "use"
        PROVE  /\ use'[u].age = 0 =>
                    /\ \/ use'[u].id \in lost
                       \/ ctx'[pc'[u].s][use'[u].k][use'[u].g] = use'[u].id
                    /\ \A v \in Threads : pc'[v].at = "create" => pc'[v].s # pc'[u].s
               /\ (use'[u].age = 1 /\ use'[u].g = 1) =>
                    use'[u].id \in lost \/ ctx'[pc'[u].s][use'[u].k][0] = use'[u].id
    <3>1. u # t /\ pc'[u] = pc[u] /\ pc[u].at = "use"
      BY <2>3, <2>4 DEF TypeOK
    <3>2. /\ pc[u].s \in Sessions /\ use[u].k \in Kinds /\ use[u].g \in {0, 1}
          /\ use[u].age \in 0..2 /\ use[u].id \in Ids
      BY <3>1 DEF ThreadInv, TypeOK
    <3>3. CASE pc[u].s = pc[t].s
      <4>1. pc[u] = [at |-> "use", s |-> pc[t].s]
        BY <3>1, <3>3 DEF TypeOK
      <4>2. use'[u] = IF use[u].age < 2 THEN [use[u] EXCEPT !.age = @ + 1] ELSE use[u]
        BY <1>5, <4>1 DEF RekeySwitch, Switched
      <4>3. /\ use'[u].k = use[u].k /\ use'[u].g = use[u].g /\ use'[u].id = use[u].id
            /\ use'[u].age # 0 /\ (use'[u].age = 1 => use[u].age = 0)
        BY <3>2, <4>2 DEF TypeOK
      <4>4. (use[u].age = 0 /\ use[u].g = 1) =>
               use[u].id \in lost \/ ctx[pc[u].s][use[u].k][1] = use[u].id
        BY <2>1, <3>1 DEF InUse
      <4> QED
        BY <2>2, <3>1, <3>2, <3>3, <4>3, <4>4
    <3>4. CASE pc[u].s # pc[t].s
      <4>1. use'[u] = use[u]
        BY <1>5, <3>4 DEF RekeySwitch, Switched
      <4>2. \A g \in {0, 1} : ctx'[pc[u].s][use[u].k][g] = ctx[pc[u].s][use[u].k][g]
        BY <2>2, <3>2, <3>4
      <4>3. pc'[t].s = pc[t].s
        BY <2>3 DEF TypeOK
      <4>4. /\ use[u].age = 0 =>
                 /\ use[u].id \in lost \/ ctx[pc[u].s][use[u].k][use[u].g] = use[u].id
                 /\ \A v \in Threads : pc[v].at = "create" => pc[v].s # pc[u].s
            /\ (use[u].age = 1 /\ use[u].g = 1) =>
                 use[u].id \in lost \/ ctx[pc[u].s][use[u].k][0] = use[u].id
        BY <2>1, <3>1 DEF InUse
      <4>5. use[u].age = 0 => \A v \in Threads : pc'[v].at = "create" => pc'[v].s # pc[u].s
        BY <2>3, <3>4, <4>3, <4>4
      <4> QED
        BY <3>1, <3>2, <4>1, <4>2, <4>4, <4>5
    <3> QED
      BY <3>3, <3>4
  <2> QED
    BY <2>1, <2>4 DEF InUse
<1>6. ASSUME NEW t \in Threads,
             CreateFails(t) \/ InitExit(t) \/ RekeyCreated(t) \/ RekeyUnlock(t) \/ UseCtx(t)
      PROVE  InUse'
  <2>1. fault = "none" /\ ctx' = ctx /\ lost' = lost
    BY <1>6 DEF CreateFails, InitExit, RekeyCreated, RekeyUnlock, UseCtx
  <2>2. \A u \in Threads : pc'[u].at = "use" => pc'[u] = pc[u] /\ use'[u] = use[u]
    BY <1>6 DEF CreateFails, InitExit, RekeyCreated, RekeyUnlock, UseCtx, TypeOK, Idle
  <2>3. \A u \in Threads : pc'[u].at = "create" => pc'[u] = pc[u]
    BY <1>6 DEF CreateFails, InitExit, RekeyCreated, RekeyUnlock, UseCtx, TypeOK, Idle
  <2> QED
    BY <2>1, <2>2, <2>3 DEF InUse
<1> QED
  BY <1>1, <1>2, <1>3, <1>4, <1>5, <1>6 DEF Next, Step

-----------------------------------------------------------------------------
(* The theorems                                                             *)

\* The module starts in a state of the invariant.
LEMMA InitInv == Init => IInv
<1> USE CtxAssumption
<1> SUFFICES ASSUME Init PROVE IInv
  OBVIOUS
<1>1. TypeOK
  <2>1. ctx \in [Sessions -> [Kinds -> [{0, 1} -> Ids \cup {NoCtx}]]]
    BY DEF Init
  <2>2. NoUse \in [id : Ids \cup {NoCtx}, k : Kinds \cup {NoCtx}, g : {0, 1}, age : 0..2]
    BY DEF NoUse
  <2>3. Idle \in [at : Phases, s : Sessions \cup {NoThread}]
    BY DEF Idle, Phases
  <2> QED
    BY <2>1, <2>2, <2>3 DEF Init, TypeOK
<1>2. \A t \in Threads : pc[t].at = "idle" /\ todo[t] = {}
  BY DEF Init, Idle
<1>3. ThreadInv /\ Overwritable /\ LostInv /\ InUse
  BY <1>2 DEF Init, ThreadInv, Overwritable, LostInv, InUse
<1>4. Discipline /\ HolderWorks
  BY <1>2 DEF Init, Discipline, HolderWorks, Critical
<1>5. \A s \in Sessions, k \in Kinds, g \in {0, 1} : ctx[s][k][g] = NoCtx
  BY DEF Init
<1>6. SlotsLive
  BY <1>5, SlotsLiveSlots DEF Alive, Apart
<1>7. NoLeak
  BY DEF Init, NoLeak
<1> QED
  BY <1>1, <1>4, <1>6, <1>7, <1>3 DEF IInv

\* IInv is inductive.
LEMMA Invariance == Spec => []IInv
<1>1. IInv /\ [Next]_vars => IInv'
  BY TypeStep, LockStep, OverwritableStep, LeakStep, SlotsStep, LostStep, InUseStep
      DEF IInv
<1> QED
  BY InitInv, <1>1, PTL DEF Spec

(* The variables of p3kcrypto.c keep their types.                           *)
THEOREM TypeCorrect == Spec => []TypeOK
<1>1. IInv => TypeOK
  BY DEF IInv
<1> QED
  BY Invariance, <1>1, PTL

(* As long as no allocation has failed and no p3_init_crypto has slipped    *)
(* into another thread's p3_rekey, the holder of crypto_lock is the one     *)
(* thread that creates or deletes contexts.                                 *)
THEOREM Excluded == Spec => []LockExcludes
<1>1. IInv => LockExcludes
  BY DEF IInv, Discipline, HolderWorks, LockExcludes, Critical
<1> QED
  BY Invariance, <1>1, PTL

(* Under the same conditions no slot names a deleted context and no two     *)
(* slots share one, so that p3_rekey never deletes a context twice.         *)
THEOREM NoneDangling == Spec => []SlotsLive
<1>1. IInv => SlotsLive
  BY DEF IInv
<1> QED
  BY Invariance, <1>1, PTL

(* Every allocated context is in a slot, also after CreateAESCtx has failed *)
(* in p3_init_crypto or p3_rekey, except those that p3_init_crypto of a new *)
(* session for a host with contexts has overwritten.                        *)
THEOREM NoneLost == Spec => []NoLeak
<1>1. IInv => NoLeak
  BY DEF IInv
<1> QED
  BY Invariance, <1>1, PTL

(* A context that p3_encrypt or p3_decrypt uses without the lock is still   *)
(* allocated, and still its session's, after the rekeyings the two          *)
(* generations allow for.                                                   *)
THEOREM Survives == Spec => []GracePeriod
<1>1. IInv => GracePeriod
  <2> SUFFICES ASSUME IInv, fault = "none", NEW t \in Threads, pc[t].at = "use",
                      use[t].age + (1 - use[t].g) < 2
               PROVE  /\ use[t].id \in live
                      /\ \/ use[t].id \in lost
                         \/ \E g \in {0, 1} : ctx[pc[t].s][use[t].k][g] = use[t].id
    BY DEF GracePeriod
  <2>1. /\ use[t].g \in {0, 1} /\ use[t].age \in 0..2
        /\ TypeOK /\ ThreadInv /\ SlotsLive /\ LostInv /\ InUse
    BY DEF IInv, TypeOK
  <2>2. use[t].age = 0 \/ (use[t].age = 1 /\ use[t].g = 1)
    BY <2>1
  <2>3. \/ use[t].id \in lost
        \/ \E g \in {0, 1} : ctx[pc[t].s][use[t].k][g] = use[t].id
    BY <2>1, <2>2 DEF InUse
  <2> QED
    BY <2>1, <2>2, <2>3, InUseLive
<1> QED
  BY Invariance, <1>1, PTL
=============================================================================
