----------------------------- MODULE UIAnonProofs -----------------------------
(***************************************************************************)
(* Proofs about AdminFifo and UIAnon, for every number of requests,        *)
(* restarts, descriptors, listeners, messages and subnets.                 *)
(***************************************************************************)
EXTENDS UIAnon, TLAPS

Cells == [k : {"h", "c", "d"}, id : Nat, life : Nat]
UIs == [pc : {"down", "idle", "comm", "data", "wait", "read"}, id : Nat \ {0}, life : Nat,
        stat : {"none", "failed", "empty", "other", "ok", "stale"}, seen : BOOLEAN]
Ds == [pc : {"down", "loop", "sleep", "open", "answer", "comm", "data", "close", "reopen"},
       out : BOOLEAN, gid : BOOLEAN, leak : Nat, req : Nat \X Nat, seen : BOOLEAN,
       ups : Nat]

-----------------------------------------------------------------------------
(* The exchange, of a user interface u with the listeners ks and a system  *)
(* application p, with up and dn in the FIFOs                              *)

H(u) == Cell("h", u.id, u.life)
C(u) == Cell("c", u.id, u.life)
D(u) == Cell("d", u.id, u.life)

\* No request under way.
AtRest(u, p, up, dn) ==
    /\ u.pc \in {"down", "idle"} /\ up = <<>> /\ dn = <<>>
    /\ p.pc \in {"down", "loop", "sleep", "close", "reopen"}
    /\ p.pc = "close" => u.pc = "down"

\* The request is being written, or waits in the FIFO.
Asking(u, p, up, dn) ==
    /\ \/ u.pc = "comm" /\ up = <<H(u)>>
       \/ u.pc = "data" /\ up = <<H(u), C(u)>>
       \/ u.pc = "wait" /\ up = <<H(u), C(u), D(u)>>
    /\ dn = <<>> /\ p.pc \in {"loop", "sleep"}

\* The system application has read it and answers.
Heard(u, p, up, dn) ==
    /\ u.pc = "wait" /\ up = <<>> /\ dn = <<>>
    /\ p.pc \in {"open", "answer"} /\ p.req = <<u.id, u.life>>
Answering(u, p, up, dn) ==
    /\ u.pc \in {"wait", "read"} /\ up = <<>>
    /\ \/ dn = <<H(u)>> /\ p.pc = "comm" /\ p.req = <<u.id, u.life>>
       \/ dn = <<H(u), C(u)>> /\ p.pc = "data" /\ p.req = <<u.id, u.life>>
       \/ dn = <<H(u), C(u), D(u)>> /\ p.pc = "loop"

\* It has failed on the request instead.
Failing(u, p, up, dn) ==
    /\ up = <<>> /\ dn = <<>>
    /\ \/ u.pc = "wait" /\ p.pc \in {"close", "reopen", "loop"}
       \/ u.pc = "read" /\ p.pc \in {"reopen", "loop"} /\ u.life > 1

Phase(u, p, up, dn) ==
    \/ AtRest(u, p, up, dn) \/ Asking(u, p, up, dn) \/ Heard(u, p, up, dn)
    \/ Answering(u, p, up, dn) \/ Failing(u, p, up, dn)

\* Who has which end open while nothing disturbs the exchange, so that the
\* system application is not started again: once it has had s2u open it is
\* without it only between closing and opening.
Opened(u, ks, p) ==
    /\ p.pc = "down" => u.pc = "down" /\ ks = {} /\ u.life = 0
    /\ u.pc # "down" /\ u.seen /\ p.pc # "reopen" => DWrites(p)
    /\ DWrites(p) \/ u.seen => FdMax > 0
    /\ u.life = 0 => /\ u.pc = "down" /\ ~u.seen /\ ks = {} /\ ~p.seen /\ p.gid
                     /\ p.pc \in {"down", "loop", "sleep"}
    /\ u.life <= 1 =>
         /\ ~p.out /\ (u.seen => p.leak > 0)
         /\ UIOpen(u, ks) /\ (p.pc \in {"close", "reopen"} \/ ~p.gid) => p.leak >= FdMax

\* A cell that this user interface's requests have brought about, or that
\* answers what was not a request.
Own(u, c) == c.life = u.life \/ c.id = 0
OwnReq(u, req) == req[2] = u.life \/ req[1] = 0

\* Nothing of another user interface is in the FIFOs.
OnlyOwn(u, p, up, dn) ==
    u.pc # "down" =>
      /\ \A i \in 1 .. Len(up) : Own(u, up[i])
      /\ \A i \in 1 .. Len(dn) : Own(u, dn[i])
      /\ p.pc \in {"open", "answer", "comm", "data"} => OwnReq(u, p.req)

\* Answered, of the status of a user interface and of what has happened.
Status(u, e) ==
    /\ u.stat = "empty" => e # {} \/ u.life > 1
    /\ u.stat = "other" => e # {}
    /\ u.stat = "stale" => "leftover" \in e

FifoOK(u, ks, p, up, dn, e) ==
    /\ u \in UIs /\ p \in Ds /\ up \in Seq(Cells) /\ dn \in Seq(Cells)
    /\ e = {} => Opened(u, ks, p) /\ Phase(u, p, up, dn)
    /\ "leftover" \notin e => OnlyOwn(u, p, up, dn)
    /\ Status(u, e)

FifoInv == FifoOK(ui, kids, d, u2s, s2u, ev)

-----------------------------------------------------------------------------
(* The listeners and their sessions                                        *)

Bits == (1 .. MaxMsgs) \X (1 .. 4)
Vers == {0, 4, 6}
Nets == Subnets \cup {0}
Listeners == 1 .. MaxKids
Cmds == [set : BOOLEAN, net : BOOLEAN, srdy : BOOLEAN, ver : Vers, sub : Nets, pid : Nat]
AnyPeer == Peers \cup {NoPeer}
Kids == [pc : {"none", "listen", "loop", "length", "data"}, told : BOOLEAN, net : BOOLEAN,
         ver : Vers, sub : Nets, peer : AnyPeer, up : BOOLEAN, idx : Nat, got : Seq(Bits),
         last : Seq(Bits)]
Links == [to : Nat, in : Seq(Bits), wire : Seq(Bits), left : 0 .. MaxMsgs, cut : BOOLEAN]

AnonType == /\ cmd \in Cmds /\ lis \in [Listeners -> Kids] /\ link \in Links
            /\ lost \in BOOLEAN /\ kids \subseteq Listeners

\* A listener with a subnet has a peer in it, or of the other version.
Fits(l) == l.up /\ l.net /\ l.peer.ver = l.ver => l.peer.sub = l.sub

\* The settings the listener was forked with are the present ones, until it
\* is told to end.
Settings ==
    /\ cmd.srdy => cmd.ver # 0
    /\ \A k \in Listeners : Fits(lis[k])
    /\ ~lost => \A k \in Present :
         /\ k = cmd.pid /\ cmd.set /\ ui.pc # "down"
         /\ cmd.net /\ cmd.srdy => lis[k].net /\ lis[k].ver = cmd.ver /\ lis[k].sub = cmd.sub

\* The bytes of the messages follow each other.
Follows(a, b) == IF a[2] = 4 THEN b[2] = 1 ELSE b[1] = a[1] /\ b[2] = a[2] + 1
Chain(q) == \A i \in 1 .. (Len(q) - 1) : Follows(q[i], q[i + 1])

\* The bytes on their way from the place the listener has read to: whole
\* lengths and whole data.
Stream(in, wire, first) ==
    /\ Chain(in) /\ Chain(wire)
    /\ in # <<>> => in[1][2] = first /\ in[Len(in)][2] \in {2, 4}
    /\ wire # <<>> => wire[Len(wire)][2] = 4
    /\ in # <<>> /\ wire # <<>> => Follows(in[Len(in)], wire[1])
    /\ in = <<>> /\ wire # <<>> => wire[1][2] = first
    /\ in # <<>> /\ wire = <<>> => in[Len(in)][2] = 4
    /\ first = 3 => in # <<>> \/ wire # <<>>

Whole(q) == q = <<>> \/ \E m \in 1 .. MaxMsgs : q = <<<<m, 3>>, <<m, 4>>>>

\* A session with nothing cut: the listener is between two reads of whole
\* lengths and whole data.
Session(l, in, wire) ==
    /\ l.pc \in {"loop", "length", "data"} /\ l.got = <<>> /\ Whole(l.last)
    /\ l.pc = "length" => l.idx = 0
    /\ Stream(in, wire, IF l.pc = "data" THEN 3 ELSE 1)

Framing ==
    \A k \in Listeners :
      /\ lis[k].up => link.to = k /\ (~link.cut => Session(lis[k], link.in, link.wire))
      /\ ~lis[k].up => lis[k].got = <<>>

AnonInv == FifoInv /\ AnonType /\ Settings /\ Framing


-----------------------------------------------------------------------------
(* What a step leaves behind                                               *)

\* A request and an answer of three cells are a message.
LEMMA MessageFacts ==
    ASSUME NEW h \in Cells, NEW c \in Cells, NEW e \in Cells,
           h.k = "h", c.k = "c", e.k = "d", c.id = h.id, e.id = h.id,
           c.life = h.life, e.life = h.life
    PROVE  /\ IsMessage(<<h>>) /\ IsMessage(<<h, c>>) /\ IsMessage(<<h, c, e>>)
           /\ Rest(<<h, c, e>>, 3) = <<>>
<1>1. IsMessage(<<h>>)
  BY DEF IsMessage
<1>2. IsMessage(<<h, c>>)
  BY DEF IsMessage
<1>3. IsMessage(<<h, c, e>>)
  <2>1. \A i \in 1 .. 3 : i = 1 \/ i = 2 \/ i = 3
    OBVIOUS
  <2> QED BY <2>1 DEF IsMessage
<1>4. Rest(<<h, c, e>>, 3) = <<>>
  BY DEF Rest
<1> QED BY <1>1, <1>2, <1>3, <1>4

\* Messages are written cell by cell.
LEMMA AppendFacts ==
    ASSUME NEW S, NEW h \in S, NEW c \in S, NEW e \in S
    PROVE  /\ Append(<<>>, h) = <<h>> /\ Append(<<h>>, c) = <<h, c>>
           /\ Append(<<h, c>>, e) = <<h, c, e>>
<1>1. Append(<<>>, h) = <<h>>
  OBVIOUS
<1>2. ASSUME NEW q \in Seq(S), NEW x \in S
      PROVE  /\ Append(q, x) \in Seq(S) /\ Len(Append(q, x)) = Len(q) + 1
             /\ \A i \in 1 .. Len(q) : Append(q, x)[i] = q[i]
             /\ Append(q, x)[Len(q) + 1] = x
  OBVIOUS
<1>3. Append(<<h>>, c) = <<h, c>>
  <2>0. <<h>> \in Seq(S) /\ Len(<<h>>) = 1 /\ <<h>>[1] = h
    OBVIOUS
  <2>1. PICK q \in Seq(S) : q = <<h>> /\ Len(q) = 1 /\ q[1] = h
    BY <2>0, Zenon
  <2>2. PICK a \in Seq(S) : a = Append(q, c)
    BY <1>2
  <2>3. Len(a) = 2 /\ a[1] = h /\ a[2] = c
    BY <1>2, <2>1, <2>2
  <2>4. a = <<h, c>>
    BY <2>3
  <2> QED BY <2>1, <2>2, <2>4
<1>4. Append(<<h, c>>, e) = <<h, c, e>>
  <2>0. <<h, c>> \in Seq(S) /\ Len(<<h, c>>) = 2 /\ <<h, c>>[1] = h /\ <<h, c>>[2] = c
    OBVIOUS
  <2>1. PICK q \in Seq(S) : q = <<h, c>> /\ Len(q) = 2 /\ q[1] = h /\ q[2] = c
    BY <2>0, Zenon
  <2>2. PICK a \in Seq(S) : a = Append(q, e)
    BY <1>2
  <2>3. Len(a) = 3 /\ a[1] = h /\ a[2] = c /\ a[3] = e
    BY <1>2, <2>1, <2>2
  <2>4. a = <<h, c, e>>
    BY <2>3
  <2> QED BY <2>1, <2>2, <2>4
<1> QED BY <1>1, <1>3, <1>4

\* The cells of a request have their types.
LEMMA CellType ==
    ASSUME NEW u \in UIs
    PROVE  /\ H(u) \in Cells /\ C(u) \in Cells /\ D(u) \in Cells
           /\ H(u).k = "h" /\ C(u).k = "c" /\ D(u).k = "d"
           /\ H(u).id = u.id /\ C(u).id = u.id /\ D(u).id = u.id
           /\ H(u).life = u.life /\ C(u).life = u.life /\ D(u).life = u.life
BY DEF H, C, D, Cell, Cells, UIs

\* What is left of a FIFO is a FIFO of the same cells.
LEMMA RestFacts ==
    ASSUME NEW q \in Seq(Cells), NEW n \in Nat
    PROVE  /\ Rest(q, n) \in Seq(Cells)
           /\ \A i \in 1 .. Len(Rest(q, n)) : i + n \in 1 .. Len(q) /\ Rest(q, n)[i] = q[i + n]
BY DEF Rest

\* The ends after a step: only what was seen of the other side changes.
LEMMA FlowFields ==
    ASSUME NEW u \in UIs, NEW ks, NEW p \in Ds, NEW up \in Seq(Cells), NEW dn \in Seq(Cells),
           Flow(u, ks, p, up, dn)
    PROVE  /\ ui' \in UIs /\ d' \in Ds /\ u2s' \in Seq(Cells) /\ s2u' \in Seq(Cells)
           /\ kids' = ks
           /\ ui'.pc = u.pc /\ ui'.id = u.id /\ ui'.life = u.life /\ ui'.stat = u.stat
           /\ ui'.seen = (u.pc # "down" /\ (u.seen \/ DWrites(p)))
           /\ d'.pc = p.pc /\ d'.out = p.out /\ d'.gid = p.gid /\ d'.leak = p.leak
           /\ d'.req = p.req
           /\ d'.seen = (DReads(p) /\ (p.seen \/ UIOpen(u, ks)))
           /\ u2s' = up \/ (u2s' = <<>> /\ ~UIOpen(u, ks))
           /\ s2u' = dn \/ (s2u' = <<>> /\ ~UIOpen(u, ks))
<1>1. /\ ui' = [u EXCEPT !.seen = u.pc # "down" /\ (u.seen \/ DWrites(p))]
      /\ d' = [p EXCEPT !.seen = DReads(p) /\ (p.seen \/ UIOpen(u, ks))]
      /\ kids' = ks
  BY DEF Flow, Ends
<1>2. /\ u2s' = Kept(up, UIOpen(u, ks) \/ DReads(p))
      /\ s2u' = Kept(dn, UIOpen(u, ks) \/ DWrites(p))
  BY DEF Flow
<1>3. (u.pc # "down" /\ (u.seen \/ DWrites(p))) \in BOOLEAN
  OBVIOUS
<1>4. (DReads(p) /\ (p.seen \/ UIOpen(u, ks))) \in BOOLEAN
  OBVIOUS
<1>5. /\ ui' \in UIs /\ ui'.pc = u.pc /\ ui'.id = u.id /\ ui'.life = u.life
      /\ ui'.stat = u.stat /\ ui'.seen = (u.pc # "down" /\ (u.seen \/ DWrites(p)))
  BY <1>1, <1>3 DEF UIs
<1>6. /\ d' \in Ds /\ d'.pc = p.pc /\ d'.out = p.out /\ d'.gid = p.gid /\ d'.leak = p.leak
      /\ d'.req = p.req /\ d'.seen = (DReads(p) /\ (p.seen \/ UIOpen(u, ks)))
  BY <1>1, <1>4 DEF Ds
<1>7. /\ u2s' = up \/ (u2s' = <<>> /\ ~UIOpen(u, ks))
      /\ s2u' = dn \/ (s2u' = <<>> /\ ~UIOpen(u, ks))
  BY <1>2 DEF Kept
<1>8. u2s' \in Seq(Cells) /\ s2u' \in Seq(Cells)
  <2>1. <<>> \in Seq(Cells)
    OBVIOUS
  <2> QED BY <1>7, <2>1, Zenon
<1> QED BY <1>1, <1>5, <1>6, <1>7, <1>8

\* The next state of a step is in the phase the step has put it into.
LEMMA FlowExchange ==
    ASSUME NEW u \in UIs, NEW ks, NEW p \in Ds, NEW up \in Seq(Cells), NEW dn \in Seq(Cells),
           Flow(u, ks, p, up, dn), Opened(u, ks, p), Phase(u, p, up, dn)
    PROVE  Opened(ui', kids', d') /\ Phase(ui', d', u2s', s2u')
<1> PICK v : v = ui'
  OBVIOUS
<1> PICK q : q = d'
  OBVIOUS
<1>1. /\ v \in UIs /\ q \in Ds
      /\ v.pc = u.pc /\ v.id = u.id /\ v.life = u.life
      /\ v.seen = (u.pc # "down" /\ (u.seen \/ DWrites(p)))
      /\ q.pc = p.pc /\ q.out = p.out /\ q.gid = p.gid /\ q.leak = p.leak
      /\ q.req = p.req
      /\ q.seen = (DReads(p) /\ (p.seen \/ UIOpen(u, ks)))
  BY FlowFields
<1>2. Opened(v, ks, q)
  <2> USE <1>1
  <2>1. q.pc = "down" => v.pc = "down" /\ ks = {} /\ v.life = 0
    BY DEF Opened
  <2>2. DWrites(q) <=> DWrites(p)
    BY DEF DWrites
  <2>3. UIOpen(v, ks) <=> UIOpen(u, ks)
    BY DEF UIOpen
  <2>4. v.pc # "down" /\ v.seen /\ q.pc # "reopen" => DWrites(q)
    BY <2>2 DEF Opened
  <2>5. DWrites(q) \/ v.seen => FdMax > 0
    BY <2>2 DEF Opened
  <2>6. v.life = 0 => /\ v.pc = "down" /\ ~v.seen /\ ks = {} /\ ~q.seen /\ q.gid
                      /\ q.pc \in {"down", "loop", "sleep"}
    BY DEF Opened, UIOpen
  <2>7. v.life <= 1 =>
         /\ ~q.out /\ (v.seen => q.leak > 0)
         /\ UIOpen(v, ks) /\ (q.pc \in {"close", "reopen"} \/ ~q.gid) => q.leak >= FdMax
    <3> SUFFICES ASSUME u.life <= 1 PROVE
         /\ ~p.out /\ (v.seen => p.leak > 0)
         /\ UIOpen(u, ks) /\ (p.pc \in {"close", "reopen"} \/ ~p.gid) => p.leak >= FdMax
      BY <2>3
    <3> QED BY DEF Opened, DWrites
  <2> QED BY <2>1, <2>4, <2>5, <2>6, <2>7 DEF Opened
<1>3. H(v) = H(u) /\ C(v) = C(u) /\ D(v) = D(u)
  BY <1>1 DEF H, C, D
<1>4. Phase(v, q, up, dn)
  BY <1>1, <1>3 DEF Phase, AtRest, Asking, Heard, Answering, Failing
<1>5. (up = <<>> /\ dn = <<>>) \/ UIOpen(u, ks)
  BY DEF UIOpen, Phase, AtRest, Asking, Heard, Answering, Failing
<1>6. u2s' = up /\ s2u' = dn
  BY <1>5, FlowFields
<1>7. kids' = ks
  BY FlowFields
<1> QED BY <1>2, <1>4, <1>6, <1>7

\* Dropping what is in the FIFOs leaves nothing of another user interface.
LEMMA FlowLives ==
    ASSUME NEW u \in UIs, NEW ks, NEW p \in Ds, NEW up \in Seq(Cells), NEW dn \in Seq(Cells),
           Flow(u, ks, p, up, dn), OnlyOwn(u, p, up, dn)
    PROVE  OnlyOwn(ui', d', u2s', s2u')
<1> PICK v : v = ui'
  OBVIOUS
<1> PICK q : q = d'
  OBVIOUS
<1>1. v.pc = u.pc /\ v.life = u.life /\ q.pc = p.pc /\ q.req = p.req
  BY FlowFields
<1>2. \A c : Own(v, c) <=> Own(u, c)
  BY <1>1 DEF Own
<1>3. OnlyOwn(v, q, up, dn)
  BY <1>1, <1>2 DEF OnlyOwn, OwnReq
<1>4. CASE u.pc = "down"
  BY <1>1, <1>4 DEF OnlyOwn
<1>5. CASE u.pc # "down"
  <2>1. u2s' = up /\ s2u' = dn
    BY <1>5, FlowFields DEF UIOpen
  <2> QED BY <1>3, <2>1
<1> QED BY <1>4, <1>5

\* The next state of a step satisfies the invariant when what the step has
\* put into the two processes and the FIFOs does.
LEMMA FlowInv ==
    ASSUME NEW u, NEW ks, NEW p, NEW up, NEW dn,
           Flow(u, ks, p, up, dn), FifoOK(u, ks, p, up, dn, ev')
    PROVE  FifoInv'
<1>1. /\ u \in UIs /\ p \in Ds /\ up \in Seq(Cells) /\ dn \in Seq(Cells)
      /\ ev' = {} => Opened(u, ks, p) /\ Phase(u, p, up, dn)
      /\ "leftover" \notin ev' => OnlyOwn(u, p, up, dn)
      /\ Status(u, ev')
  BY DEF FifoOK
<1>2. ui' \in UIs /\ d' \in Ds /\ u2s' \in Seq(Cells) /\ s2u' \in Seq(Cells)
  BY <1>1, FlowFields
<1>3. ev' = {} => Opened(ui', kids', d') /\ Phase(ui', d', u2s', s2u')
  BY <1>1, FlowExchange
<1>4. "leftover" \notin ev' => OnlyOwn(ui', d', u2s', s2u')
  BY <1>1, FlowLives
<1>5. ui'.stat = u.stat /\ ui'.life = u.life
  BY <1>1, FlowFields
<1>6. Status(ui', ev')
  BY <1>1, <1>5 DEF Status
<1> QED BY <1>2, <1>3, <1>4, <1>6 DEF FifoInv, FifoOK

-----------------------------------------------------------------------------
(* The steps of the user interface and of the system application           *)

\* init_admin and setup_admin keep the invariant: with nothing in the FIFOs
\* and the system application at its loop, a new exchange begins.
LEMMA UIStartInv == FifoInv /\ UIStart => FifoInv'
<1> SUFFICES ASSUME FifoInv, UIStart PROVE FifoInv'
  OBVIOUS
<1> DEFINE u == [pc |-> "idle", id |-> 1, life |-> ui.life + 1, stat |-> "none", seen |-> FALSE]
<1>1. ui \in UIs /\ d \in Ds /\ u2s \in Seq(Cells) /\ s2u \in Seq(Cells)
  BY DEF FifoInv, FifoOK
<1>2. /\ ui.pc = "down" /\ DReads(d) /\ Flow(u, kids, d, u2s, s2u)
      /\ ev' = IF u2s = <<>> /\ s2u = <<>> /\ d.pc \in {"loop", "sleep"}
               THEN ev ELSE ev \cup {"leftover"}
  BY DEF UIStart
<1>3. u \in UIs /\ u.pc = "idle" /\ u.life = ui.life + 1 /\ u.stat = "none" /\ ~u.seen
  BY <1>1 DEF UIs
<1>4. ui.life \in Nat
  BY <1>1 DEF UIs
<1> HIDE DEF u
<1>5. CASE u2s = <<>> /\ s2u = <<>> /\ d.pc \in {"loop", "sleep"}
  <2>1. ev' = ev
    BY <1>2, <1>5
  <2>2. ASSUME ev = {} PROVE Opened(u, kids, d) /\ Phase(u, d, u2s, s2u)
    <3>1. Opened(ui, kids, d)
      BY <2>2 DEF FifoInv, FifoOK
    <3>2. Phase(u, d, u2s, s2u)
      BY <1>3, <1>5 DEF Phase, AtRest
    <3>3. u.life # 0 /\ (u.life <= 1 => ui.life = 0)
      BY <1>3, <1>4
    <3>4. u.life <= 1 => d.gid /\ ~d.out
      <4>1. ui.life = 0 => d.gid /\ ~d.out
        BY <3>1, <1>4 DEF Opened
      <4> QED BY <4>1, <3>3
    <3>5. Opened(u, kids, d)
      BY <3>1, <3>3, <3>4, <1>3, <1>5 DEF Opened
    <3> QED BY <3>2, <3>5
  <2>3. OnlyOwn(u, d, u2s, s2u)
    BY <1>5 DEF OnlyOwn
  <2>4. Status(u, ev)
    BY <1>3 DEF Status
  <2>5. FifoOK(u, kids, d, u2s, s2u, ev')
    BY <1>1, <1>3, <2>1, <2>2, <2>3, <2>4 DEF FifoOK
  <2> QED BY <2>5, <1>2, FlowInv
<1>6. CASE ~(u2s = <<>> /\ s2u = <<>> /\ d.pc \in {"loop", "sleep"})
  <2>1. "leftover" \in ev'
    BY <1>2, <1>6
  <2>2. FifoOK(u, kids, d, u2s, s2u, ev')
    BY <1>1, <1>3, <2>1 DEF FifoOK, Status
  <2> QED BY <2>2, <1>2, FlowInv
<1> QED BY <1>5, <1>6

\* A user interface that has gone leaves nothing to be in step with.
LEMMA DownOK ==
    ASSUME FifoInv, NEW ks, NEW e, e # {},
           NEW p \in Ds, NEW up \in Seq(Cells), NEW dn \in Seq(Cells)
    PROVE  FifoOK(DownUI(ui), ks, p, up, dn, e)
<1>1. ui \in UIs
  BY DEF FifoInv, FifoOK
<1>2. DownUI(ui) \in UIs /\ DownUI(ui).pc = "down" /\ DownUI(ui).stat = "none"
  BY <1>1 DEF DownUI, UIs
<1> QED BY <1>2 DEF FifoOK, OnlyOwn, Status

\* A change of what only the user interface has: its step, its number, its
\* status.
LEMMA OwnPc ==
    ASSUME NEW u \in UIs, NEW p, NEW up, NEW dn, OnlyOwn(ui, p, up, dn), ui.pc # "down",
           u.life = ui.life
    PROVE  OnlyOwn(u, p, up, dn)
<1>1. \A c : Own(u, c) <=> Own(ui, c)
  BY DEF Own
<1> QED BY <1>1 DEF OnlyOwn, OwnReq

\* A write to u2s keeps the invariant when it takes an undisturbed exchange
\* on; one that nobody reads kills the user interface.
LEMMA UIWritesInv ==
    ASSUME NEW k \in {"h", "c", "d"}, NEW next \in {"comm", "data", "wait"},
           FifoInv, UIWrites(k, next), ui.pc # "down",
           ev = {} /\ DReads(d) =>
             Phase([ui EXCEPT !.pc = next, !.stat = "none"], d,
                   Append(u2s, Cell(k, ui.id, ui.life)), s2u)
    PROVE  FifoInv'
<1> DEFINE u == [ui EXCEPT !.pc = next, !.stat = "none"]
           up == Append(u2s, Cell(k, ui.id, ui.life))
<1>1. ui \in UIs /\ d \in Ds /\ u2s \in Seq(Cells) /\ s2u \in Seq(Cells)
  BY DEF FifoInv, FifoOK
<1>2. CASE ~DReads(d) /\ Flow(DownUI(ui), kids, d, u2s, s2u) /\ ev' = ev \cup {"sigpipe"}
  <2>1. FifoOK(DownUI(ui), kids, d, u2s, s2u, ev')
    BY <1>1, <1>2, DownOK
  <2> QED BY <1>2, <2>1, FlowInv
<1>3. CASE DReads(d) /\ Flow(u, kids, d, up, s2u) /\ ev' = ev
  <2>1. /\ u \in UIs /\ u.pc = next /\ u.life = ui.life /\ u.stat = "none"
        /\ u.seen = ui.seen
    BY <1>1 DEF UIs
  <2>2. Cell(k, ui.id, ui.life) \in Cells /\ Cell(k, ui.id, ui.life).life = ui.life
    BY <1>1 DEF Cell, Cells, UIs
  <2>3. up \in Seq(Cells)
    BY <2>2, <1>1
  <2>4. ASSUME ev = {} PROVE Opened(u, kids, d)
    <3>1. Opened(ui, kids, d)
      BY <2>4 DEF FifoInv, FifoOK
    <3> HIDE DEF u
    <3> QED BY <3>1, <2>1 DEF Opened, UIOpen
  <2>5. ASSUME "leftover" \notin ev PROVE OnlyOwn(u, d, up, s2u)
    <3>1. OnlyOwn(ui, d, u2s, s2u)
      BY <2>5 DEF FifoInv, FifoOK
    <3>2. \A i \in 1 .. Len(up) : Own(u, up[i])
      <4> SUFFICES ASSUME NEW i \in 1 .. Len(up) PROVE Own(u, up[i])
        OBVIOUS
      <4>1. CASE i \in 1 .. Len(u2s)
        <5>1. up[i] = u2s[i]
          BY <1>1, <2>2, <4>1
        <5>2. Own(ui, u2s[i])
          BY <3>1, <4>1 DEF OnlyOwn
        <5> HIDE DEF u, up
        <5> QED BY <5>1, <5>2, <2>1 DEF Own
      <4>2. CASE i = Len(u2s) + 1
        <5>1. up[i] = Cell(k, ui.id, ui.life)
          BY <1>1, <2>2, <4>2
        <5> HIDE DEF u, up
        <5> QED BY <5>1, <2>1, <2>2 DEF Own
      <4>3. Len(up) = Len(u2s) + 1
        BY <1>1, <2>2
      <4> QED BY <4>1, <4>2, <4>3, <1>1
    <3>3. OnlyOwn(u, d, u2s, s2u)
      BY <3>1, <2>1, OwnPc
    <3> HIDE DEF u, up
    <3> QED BY <3>2, <3>3 DEF OnlyOwn
  <2>6. Status(u, ev)
    <3> HIDE DEF u
    <3> QED BY <2>1 DEF Status
  <2>7. ev = {} => Phase(u, d, up, s2u)
    BY <1>3
  <2> HIDE DEF u, up
  <2>8. FifoOK(u, kids, d, up, s2u, ev')
    BY <1>1, <1>3, <2>1, <2>3, <2>4, <2>5, <2>6, <2>7 DEF FifoOK
  <2> QED BY <1>3, <2>8, FlowInv
<1> QED BY <1>2, <1>3 DEF UIWrites

\* send_request: the three writes of a request.
LEMMA SendInv == FifoInv /\ (SendHeader \/ SendComm \/ SendData) => FifoInv'
<1> SUFFICES ASSUME FifoInv, SendHeader \/ SendComm \/ SendData PROVE FifoInv'
  OBVIOUS
<1>1. ui \in UIs /\ d \in Ds /\ u2s \in Seq(Cells) /\ s2u \in Seq(Cells)
  BY DEF FifoInv, FifoOK
<1>2. ev = {} => Phase(ui, d, u2s, s2u)
  BY DEF FifoInv, FifoOK
<1>3. ASSUME NEW next \in {"comm", "data", "wait"}, NEW u, u = [ui EXCEPT !.pc = next, !.stat = "none"]
      PROVE  u.pc = next /\ H(u) = H(ui) /\ C(u) = C(ui) /\ D(u) = D(ui)
  BY <1>1, <1>3 DEF UIs, H, C, D
<1>4. CASE SendHeader
  <2>1. ui.pc = "idle" /\ UIWrites("h", "comm")
    BY <1>4 DEF SendHeader
  <2>2. ASSUME ev = {}, DReads(d)
        PROVE  Phase([ui EXCEPT !.pc = "comm", !.stat = "none"], d,
                     Append(u2s, Cell("h", ui.id, ui.life)), s2u)
    <3>1. AtRest(ui, d, u2s, s2u)
      BY <1>2, <2>1, <2>2 DEF Phase, Asking, Heard, Answering, Failing
    <3>2. d.pc \in {"loop", "sleep"} /\ u2s = <<>> /\ s2u = <<>>
      BY <2>1, <2>2, <3>1 DEF AtRest, DReads
    <3> DEFINE u == [ui EXCEPT !.pc = "comm", !.stat = "none"]
    <3>3. u.pc = "comm" /\ H(u) = H(ui)
      BY <1>3
    <3>4. Append(u2s, Cell("h", ui.id, ui.life)) = <<H(ui)>>
      BY <3>2 DEF H
    <3>5. Phase(u, d, Append(u2s, Cell("h", ui.id, ui.life)), s2u)
      <4> HIDE DEF u
      <4> QED BY <3>2, <3>3, <3>4 DEF Phase, Asking
    <3> QED BY <3>5
  <2> QED BY <2>1, <2>2, UIWritesInv
<1>5. CASE SendComm
  <2>1. ui.pc = "comm" /\ UIWrites("c", "data")
    BY <1>5 DEF SendComm
  <2>2. ASSUME ev = {}, DReads(d)
        PROVE  Phase([ui EXCEPT !.pc = "data", !.stat = "none"], d,
                     Append(u2s, Cell("c", ui.id, ui.life)), s2u)
    <3>1. d.pc \in {"loop", "sleep"} /\ u2s = <<H(ui)>> /\ s2u = <<>>
      BY <1>2, <2>1, <2>2 DEF Phase, AtRest, Asking, Heard, Answering, Failing
    <3> DEFINE u == [ui EXCEPT !.pc = "data", !.stat = "none"]
    <3>3. u.pc = "data" /\ H(u) = H(ui) /\ C(u) = C(ui)
      BY <1>3
    <3>4. Append(u2s, Cell("c", ui.id, ui.life)) = <<H(ui), C(ui)>>
      <4>1. H(ui) \in Cells /\ C(ui) \in Cells
        BY <1>1, CellType
      <4>2. Append(<<H(ui)>>, C(ui)) = <<H(ui), C(ui)>>
        BY <4>1, AppendFacts
      <4> QED BY <3>1, <4>2, Zenon DEF C
    <3>5. Phase(u, d, Append(u2s, Cell("c", ui.id, ui.life)), s2u)
      <4> HIDE DEF u
      <4> QED BY <3>1, <3>3, <3>4 DEF Phase, Asking
    <3> QED BY <3>5
  <2> QED BY <2>1, <2>2, UIWritesInv
<1>6. CASE SendData
  <2>1. ui.pc = "data" /\ UIWrites("d", "wait")
    BY <1>6 DEF SendData
  <2>2. ASSUME ev = {}, DReads(d)
        PROVE  Phase([ui EXCEPT !.pc = "wait", !.stat = "none"], d,
                     Append(u2s, Cell("d", ui.id, ui.life)), s2u)
    <3>1. d.pc \in {"loop", "sleep"} /\ u2s = <<H(ui), C(ui)>> /\ s2u = <<>>
      BY <1>2, <2>1, <2>2 DEF Phase, AtRest, Asking, Heard, Answering, Failing
    <3> DEFINE u == [ui EXCEPT !.pc = "wait", !.stat = "none"]
    <3>3. u.pc = "wait" /\ H(u) = H(ui) /\ C(u) = C(ui) /\ D(u) = D(ui)
      BY <1>3
    <3>4. Append(u2s, Cell("d", ui.id, ui.life)) = <<H(ui), C(ui), D(ui)>>
      <4>1. H(ui) \in Cells /\ C(ui) \in Cells /\ D(ui) \in Cells
        BY <1>1, CellType
      <4>2. Append(<<H(ui), C(ui)>>, D(ui)) = <<H(ui), C(ui), D(ui)>>
        BY <4>1, AppendFacts
      <4> QED BY <3>1, <4>2, Zenon DEF D
    <3>5. Phase(u, d, Append(u2s, Cell("d", ui.id, ui.life)), s2u)
      <4> HIDE DEF u
      <4> QED BY <3>1, <3>3, <3>4 DEF Phase, Asking
    <3> QED BY <3>5
  <2> QED BY <2>1, <2>2, UIWritesInv
<1> QED BY <1>4, <1>5, <1>6

\* The end of a request keeps the invariant when it leaves both FIFOs empty
\* in an undisturbed exchange, and the status says what happened.
LEMMA DoneInv ==
    ASSUME FifoInv, ui.pc # "down", ev \subseteq ev',
           NEW stat \in {"failed", "empty", "other", "ok", "stale"}, NEW dn \in Seq(Cells),
           Done(stat, dn),
           "leftover" \notin ev => \A i \in 1 .. Len(dn) : Own(ui, dn[i]),
           ev' = {} => u2s = <<>> /\ dn = <<>> /\ d.pc \in {"loop", "sleep", "reopen"},
           stat = "empty" => ev' # {} \/ ui.life > 1,
           stat = "other" => ev' # {},
           stat = "stale" => "leftover" \in ev'
    PROVE  FifoInv'
<1> DEFINE u == [ui EXCEPT !.pc = "idle", !.id = @ + 1, !.stat = stat]
<1>1. ui \in UIs /\ d \in Ds /\ u2s \in Seq(Cells) /\ s2u \in Seq(Cells)
  BY DEF FifoInv, FifoOK
<1>2. /\ u \in UIs /\ u.pc = "idle" /\ u.life = ui.life /\ u.stat = stat
      /\ u.seen = ui.seen
  <2>1. PICK n \in Nat \ {0} : n = ui.id
    BY <1>1 DEF UIs
  <2>2. n + 1 \in Nat \ {0}
    OBVIOUS
  <2>3. u = [ui EXCEPT !.pc = "idle", !.id = n + 1, !.stat = stat]
    BY <2>1, <1>1 DEF UIs
  <2> QED BY <2>2, <2>3, <1>1 DEF UIs
<1>3. Flow(u, kids, d, u2s, dn)
  BY DEF Done
<1> HIDE DEF u
<1>4. ASSUME ev' = {} PROVE Opened(u, kids, d) /\ Phase(u, d, u2s, dn)
  <2>1. ev = {}
    BY <1>4
  <2>2. Opened(ui, kids, d)
    BY <2>1 DEF FifoInv, FifoOK
  <2>3. Opened(u, kids, d)
    BY <2>2, <1>2 DEF Opened, UIOpen
  <2>4. Phase(u, d, u2s, dn)
    BY <1>2, <1>4 DEF Phase, AtRest
  <2> QED BY <2>3, <2>4
<1>5. ASSUME "leftover" \notin ev' PROVE OnlyOwn(u, d, u2s, dn)
  <2>1. "leftover" \notin ev
    BY <1>5
  <2>2. OnlyOwn(ui, d, u2s, s2u)
    BY <2>1 DEF FifoInv, FifoOK
  <2>3. OnlyOwn(u, d, u2s, s2u)
    BY <2>2, <1>2, OwnPc
  <2>4. \A i \in 1 .. Len(dn) : Own(u, dn[i])
    BY <2>1, <1>2 DEF Own
  <2> QED BY <2>3, <2>4 DEF OnlyOwn
<1>6. Status(u, ev')
  BY <1>2 DEF Status
<1>7. FifoOK(u, kids, d, u2s, dn, ev')
  BY <1>1, <1>2, <1>4, <1>5, <1>6 DEF FifoOK
<1> QED BY <1>3, <1>7, FlowInv

\* select of send_request: the end of the file is seen only when the system
\* application has closed a FIFO it had open, which no first user interface
\* meets.
LEMMA WaitInv == FifoInv /\ Wait => FifoInv'
<1> SUFFICES ASSUME FifoInv, Wait PROVE FifoInv'
  OBVIOUS
<1> DEFINE u == [ui EXCEPT !.pc = "read"]
<1>1. ui \in UIs /\ d \in Ds /\ u2s \in Seq(Cells) /\ s2u \in Seq(Cells) /\ Status(ui, ev)
  BY DEF FifoInv, FifoOK
<1>2. /\ ui.pc = "wait" /\ Ready /\ ui' = u
      /\ u2s' = u2s /\ s2u' = s2u /\ d' = d /\ kids' = kids /\ ev' = ev
  BY DEF Wait
<1>3. /\ u \in UIs /\ u.pc = "read" /\ u.life = ui.life /\ u.stat = ui.stat /\ u.id = ui.id
      /\ u.seen = ui.seen
  BY <1>1 DEF UIs
<1> HIDE DEF u
<1>4. ASSUME ev = {} PROVE Opened(u, kids, d) /\ Phase(u, d, u2s, s2u)
  <2>1. Opened(ui, kids, d) /\ Phase(ui, d, u2s, s2u)
    BY <1>4 DEF FifoInv, FifoOK
  <2>2. Opened(u, kids, d)
    BY <2>1, <1>2, <1>3 DEF Opened, UIOpen
  <2>3. CASE s2u # <<>>
    <3>1. Answering(ui, d, u2s, s2u)
      BY <2>1, <2>3 DEF Phase, AtRest, Asking, Heard, Failing
    <3>2. H(u) = H(ui) /\ C(u) = C(ui) /\ D(u) = D(ui)
      BY <1>3 DEF H, C, D
    <3>3. Answering(u, d, u2s, s2u)
      BY <3>1, <3>2, <1>3 DEF Answering
    <3> QED BY <2>2, <3>3 DEF Phase
  <2>4. CASE s2u = <<>>
    <3>1. ui.seen /\ ~DWrites(d)
      BY <2>4, <1>2 DEF Ready
    <3>2. d.pc = "reopen"
      BY <2>1, <3>1, <1>2 DEF Opened
    <3>3. Failing(ui, d, u2s, s2u)
      BY <2>1, <1>2, <3>2 DEF Phase, AtRest, Asking, Heard, Answering
    <3>4. ~(ui.life <= 1)
      BY <2>1, <3>1 DEF Opened, DWrites
    <3>5. ui.life > 1
      BY <3>4, <1>1 DEF UIs
    <3>6. Failing(u, d, u2s, s2u)
      BY <3>2, <3>3, <3>5, <1>3 DEF Failing
    <3> QED BY <2>2, <3>6 DEF Phase
  <2> QED BY <2>3, <2>4
<1>5. ASSUME "leftover" \notin ev PROVE OnlyOwn(u, d, u2s, s2u)
  <2>1. OnlyOwn(ui, d, u2s, s2u)
    BY <1>5 DEF FifoInv, FifoOK
  <2> QED BY <2>1, <1>2, <1>3, OwnPc
<1>6. Status(u, ev)
  BY <1>1, <1>3 DEF Status
<1>7. FifoOK(u, kids, d, u2s, s2u, ev)
  BY <1>1, <1>3, <1>4, <1>5, <1>6 DEF FifoOK
<1> QED BY <1>2, <1>7 DEF FifoInv

\* The 30 seconds of send_request.
LEMMA TimeoutInv == FifoInv /\ Timeout => FifoInv'
<1> SUFFICES ASSUME FifoInv, Timeout PROVE FifoInv'
  OBVIOUS
<1>1. s2u \in Seq(Cells)
  BY DEF FifoInv, FifoOK
<1>2. ui.pc = "wait" /\ Done("failed", s2u) /\ ev' = ev \cup {"disturbed"}
  BY DEF Timeout
<1>3. "leftover" \notin ev => \A i \in 1 .. Len(s2u) : Own(ui, s2u[i])
  BY <1>2 DEF FifoInv, FifoOK, OnlyOwn
<1>4. ev \subseteq ev' /\ ev' # {}
  BY <1>2
<1> QED BY <1>1, <1>2, <1>3, <1>4, DoneInv

\* get_response: in an undisturbed exchange the answer is this request's.
LEMMA GetResponseInv == FifoInv /\ GetResponse => FifoInv'
<1> SUFFICES ASSUME FifoInv, GetResponse PROVE FifoInv'
  OBVIOUS
<1>1. ui \in UIs /\ d \in Ds /\ u2s \in Seq(Cells) /\ s2u \in Seq(Cells)
  BY DEF FifoInv, FifoOK
<1>2. /\ ui.pc = "read"
      /\ ev' = IF s2u # <<>> /\ Len(s2u) < 3 THEN ev \cup {"disturbed"} ELSE ev
  BY DEF GetResponse
<1>3. ev \subseteq ev' /\ (ev' = {} => ev = {} /\ (s2u # <<>> => Len(s2u) >= 3))
  <2>1. Len(s2u) \in Nat
    BY <1>1
  <2> QED BY <1>2, <2>1
<1>4. /\ ev = {} => Phase(ui, d, u2s, s2u)
      /\ "leftover" \notin ev => \A i \in 1 .. Len(s2u) : Own(ui, s2u[i])
  BY <1>2 DEF FifoInv, FifoOK, OnlyOwn
<1>5. ASSUME ev' = {}, s2u = <<>>
      PROVE  u2s = <<>> /\ d.pc \in {"loop", "reopen"} /\ ui.life > 1
  BY <1>2, <1>3, <1>4, <1>5 DEF Phase, AtRest, Asking, Heard, Answering, Failing
<1>6. ASSUME ev' = {}, s2u # <<>>
      PROVE  /\ u2s = <<>> /\ d.pc = "loop" /\ Len(s2u) = 3 /\ Rest(s2u, 3) = <<>>
             /\ IsMessage(s2u) /\ s2u[1].id = ui.id
  <2>1. Answering(ui, d, u2s, s2u)
    BY <1>3, <1>4, <1>6 DEF Phase, AtRest, Asking, Heard, Failing
  <2>2. Len(s2u) >= 3
    BY <1>3, <1>6
  <2>3. u2s = <<>> /\ s2u = <<H(ui), C(ui), D(ui)>> /\ d.pc = "loop"
    <3>1. Len(<<H(ui)>>) = 1 /\ Len(<<H(ui), C(ui)>>) = 2
      OBVIOUS
    <3>2. s2u # <<H(ui)>> /\ s2u # <<H(ui), C(ui)>>
      <4>1. PICK n : n = Len(s2u)
        OBVIOUS
      <4>2. n # 1 /\ n # 2
        BY <2>2, <4>1
      <4> QED BY <3>1, <4>1, <4>2, Zenon
    <3> QED BY <2>1, <3>2 DEF Answering
  <2>4. /\ H(ui) \in Cells /\ C(ui) \in Cells /\ D(ui) \in Cells
        /\ H(ui).k = "h" /\ C(ui).k = "c" /\ D(ui).k = "d"
        /\ C(ui).id = H(ui).id /\ D(ui).id = H(ui).id
        /\ C(ui).life = H(ui).life /\ D(ui).life = H(ui).life /\ H(ui).id = ui.id
    BY <1>1, CellType
  <2>5. IsMessage(s2u) /\ Rest(s2u, 3) = <<>>
    BY <2>3, <2>4, MessageFacts
  <2>6. Len(s2u) = 3 /\ s2u[1] = H(ui)
    BY <2>3
  <2> QED BY <2>3, <2>4, <2>5, <2>6
<1>7. \A n \in Nat : /\ Rest(s2u, n) \in Seq(Cells)
                     /\ "leftover" \notin ev =>
                          \A i \in 1 .. Len(Rest(s2u, n)) : Own(ui, Rest(s2u, n)[i])
  BY <1>1, <1>4, RestFacts
<1>8. <<>> \in Seq(Cells) /\ \A i \in 1 .. Len(<<>>) : Own(ui, <<>>[i])
  OBVIOUS
<1>9. CASE s2u = <<>> /\ Done("empty", s2u)
  BY <1>2, <1>3, <1>5, <1>8, <1>9, DoneInv
<1>10. ASSUME s2u # <<>>, IsMessage(s2u),
              \/ Len(s2u) = 1 /\ Done("failed", <<>>)
              \/ Len(s2u) > 1 /\ s2u[1].id # ui.id /\ Done("other", Rest(s2u, 2))
              \/ Len(s2u) = 2 /\ s2u[1].id = ui.id /\ Done("failed", <<>>)
              \/ /\ Len(s2u) >= 3 /\ s2u[1].id = ui.id
                 /\ Done(IF s2u[1].life = ui.life THEN "ok" ELSE "stale", Rest(s2u, 3))
       PROVE  FifoInv'
  <2>1. CASE Len(s2u) < 3 /\ Done("failed", <<>>)
    <3>1. ev' # {}
      BY <1>3, <1>10, <2>1, <1>1
    <3> QED BY <1>2, <1>3, <1>8, <2>1, <3>1, DoneInv
  <2>2. CASE s2u[1].id # ui.id /\ Done("other", Rest(s2u, 2))
    <3>1. ev' # {}
      BY <1>6, <1>10, <2>2
    <3> QED BY <1>2, <1>3, <1>7, <2>2, <3>1, DoneInv
  <2>3. CASE /\ Len(s2u) >= 3 /\ s2u[1].id = ui.id
             /\ Done(IF s2u[1].life = ui.life THEN "ok" ELSE "stale", Rest(s2u, 3))
    <3>1. s2u[1] \in Cells /\ 1 \in 1 .. Len(s2u)
      BY <1>1, <2>3
    <3>2. s2u[1].id # 0
      BY <1>1, <2>3 DEF UIs
    <3>3. s2u[1].life # ui.life => "leftover" \in ev
      BY <1>4, <3>1, <3>2 DEF Own
    <3>4. s2u[1].life # ui.life => "leftover" \in ev'
      BY <3>3, <1>3
    <3>5. ev' = {} => u2s = <<>> /\ Rest(s2u, 3) = <<>> /\ d.pc \in {"loop", "sleep", "reopen"}
      BY <1>6, <1>10
    <3>6. CASE s2u[1].life = ui.life
      <4>1. Done("ok", Rest(s2u, 3))
        BY <2>3, <3>6
      <4> QED BY <1>2, <1>3, <1>7, <3>5, <4>1, DoneInv
    <3>7. CASE s2u[1].life # ui.life
      <4>1. Done("stale", Rest(s2u, 3))
        BY <2>3, <3>7
      <4> QED BY <1>2, <1>3, <1>7, <3>4, <3>5, <3>7, <4>1, DoneInv
    <3> QED BY <3>6, <3>7
  <2>4. (Len(s2u) = 1 => Len(s2u) < 3) /\ (Len(s2u) = 2 => Len(s2u) < 3)
    <3>1. PICK n \in Nat : n = Len(s2u)
      BY <1>1
    <3>2. (n = 1 => n < 3) /\ (n = 2 => n < 3)
      OBVIOUS
    <3> QED BY <3>1, <3>2
  <2> QED BY <1>10, <2>1, <2>2, <2>3, <2>4
<1>11. ASSUME s2u # <<>>, ~IsMessage(s2u), NEW n \in 1 .. Len(s2u),
              NEW stat \in {"failed", "empty", "other"}, Done(stat, Rest(s2u, n))
       PROVE  FifoInv'
  <2>1. ev' # {}
    BY <1>6, <1>11
  <2>2. n \in Nat
    OBVIOUS
  <2> QED BY <1>2, <1>3, <1>7, <1>11, <2>1, <2>2, DoneInv
<1>12. CASE s2u # <<>> /\ IsMessage(s2u) /\ ~(s2u = <<>> /\ Done("empty", s2u))
  <2>1. LET whole == Len(s2u) >= 3
            mine == s2u[1].id = ui.id
        IN  CASE Len(s2u) = 1 -> Done("failed", <<>>)
              [] Len(s2u) > 1 /\ ~mine -> Done("other", Rest(s2u, 2))
              [] Len(s2u) = 2 /\ mine -> Done("failed", <<>>)
              [] whole /\ mine ->
                   Done(IF s2u[1].life = ui.life THEN "ok" ELSE "stale", Rest(s2u, 3))
    BY <1>12 DEF GetResponse
  <2>2. PICK n \in Nat : n = Len(s2u) /\ n # 0
    BY <1>1, <1>12
  <2>3. n = 1 \/ n = 2 \/ n >= 3
    BY <2>2
  <2>4. CASE Len(s2u) = 1
    <3>1. Done("failed", <<>>)
      BY <2>1, <2>4
    <3> QED BY <1>10, <1>12, <2>4, <3>1
  <2>5. CASE Len(s2u) > 1 /\ s2u[1].id # ui.id
    <3>1. Len(s2u) # 1
      BY <2>2, <2>5
    <3>2. Done("other", Rest(s2u, 2))
      BY <2>1, <2>5, <3>1
    <3> QED BY <1>10, <1>12, <2>5, <3>2
  <2>6. CASE Len(s2u) = 2 /\ s2u[1].id = ui.id
    <3>1. Done("failed", <<>>)
      BY <2>1, <2>6
    <3> QED BY <1>10, <1>12, <2>6, <3>1
  <2>7. CASE Len(s2u) >= 3 /\ s2u[1].id = ui.id
    <3>1. Done(IF s2u[1].life = ui.life THEN "ok" ELSE "stale", Rest(s2u, 3))
      BY <2>1, <2>7
    <3> QED BY <1>10, <1>12, <2>7, <3>1
  <2> QED BY <2>2, <2>3, <2>4, <2>5, <2>6, <2>7
<1> QED BY <1>9, <1>11, <1>12 DEF GetResponse

\* A user interface that is killed.
LEMMA UICrashInv == FifoInv /\ UICrash => FifoInv'
<1> SUFFICES ASSUME FifoInv, UICrash PROVE FifoInv'
  OBVIOUS
<1>1. d \in Ds /\ u2s \in Seq(Cells) /\ s2u \in Seq(Cells)
  BY DEF FifoInv, FifoOK
<1>2. Flow(DownUI(ui), kids, d, u2s, s2u) /\ ev' = ev \cup {"disturbed"}
  BY DEF UICrash
<1>3. ev' # {}
  BY <1>2
<1>4. FifoOK(DownUI(ui), kids, d, u2s, s2u, ev')
  BY <1>1, <1>3, DownOK
<1> QED BY <1>2, <1>4, FlowInv

\* A step of the system application leaves the user interface as it is: it
\* keeps the invariant when it takes an undisturbed exchange on, and what it
\* leaves in the FIFOs is of this user interface.
LEMMA DStepInv ==
    ASSUME FifoInv, NEW p \in Ds, NEW up \in Seq(Cells), NEW dn \in Seq(Cells),
           Flow(ui, kids, p, up, dn), ev \subseteq ev',
           ev' = {} => Opened(ui, kids, p) /\ Phase(ui, p, up, dn),
           "leftover" \notin ev' => OnlyOwn(ui, p, up, dn)
    PROVE  FifoInv'
<1>1. ui \in UIs /\ Status(ui, ev)
  BY DEF FifoInv, FifoOK
<1>2. Status(ui, ev')
  BY <1>1 DEF Status
<1>3. FifoOK(ui, kids, p, up, dn, ev')
  BY <1>1, <1>2 DEF FifoOK
<1> QED BY <1>3, FlowInv

\* A system application that starts or stops holds no request.
LEMMA OwnDown ==
    ASSUME NEW p, p.pc \in {"down", "loop", "sleep", "close", "reopen"}, NEW up, NEW dn,
           OnlyOwn(ui, d, up, dn)
    PROVE  OnlyOwn(ui, p, up, dn)
BY DEF OnlyOwn

\* main and init_admin of the system application: nobody has come before it.
LEMMA InitAdminInv ==
    ASSUME FifoInv, NEW next \in {"loop", "sleep"}, InitAdmin(next)
    PROVE  FifoInv'
<1> DEFINE p == [DownD(d.ups + 1) EXCEPT !.pc = next, !.out = UIOpen(ui, kids)]
<1>1. ui \in UIs /\ d \in Ds /\ u2s \in Seq(Cells) /\ s2u \in Seq(Cells)
  BY DEF FifoInv, FifoOK
<1>2. d.pc = "down" /\ Flow(ui, kids, p, u2s, s2u) /\ ev' = ev
  BY DEF InitAdmin
<1>3. UIOpen(ui, kids) \in BOOLEAN
  BY DEF UIOpen
<1>4. d.ups + 1 \in Nat
  <2>1. d.ups \in Nat
    BY <1>1 DEF Ds
  <2> QED BY <2>1
<1>5. /\ p \in Ds /\ p.pc = next /\ p.out = UIOpen(ui, kids) /\ p.leak = 0 /\ p.gid = TRUE
      /\ p.seen = FALSE
  BY <1>3, <1>4 DEF DownD, Ds
<1> HIDE DEF p
<1>6. ASSUME ev = {} PROVE Opened(ui, kids, p) /\ Phase(ui, p, u2s, s2u)
  <2>1. Opened(ui, kids, d) /\ Phase(ui, d, u2s, s2u)
    BY <1>6 DEF FifoInv, FifoOK
  <2>2. ui.pc = "down" /\ kids = {} /\ ui.life = 0
    BY <1>2, <2>1 DEF Opened
  <2>3. ~UIOpen(ui, kids)
    BY <2>2 DEF UIOpen
  <2>4. u2s = <<>> /\ s2u = <<>>
    BY <2>1, <2>2 DEF Phase, AtRest, Asking, Heard, Answering, Failing
  <2>6. ~ui.seen
    BY <2>1, <2>2 DEF Opened
  <2>7. Phase(ui, p, u2s, s2u)
    BY <2>2, <2>4, <1>5 DEF Phase, AtRest
  <2>8. ~DWrites(p)
    BY <1>5, <2>3 DEF DWrites
  <2>9. Opened(ui, kids, p)
    BY <2>2, <2>3, <2>6, <2>8, <1>5 DEF Opened
  <2> QED BY <2>7, <2>9
<1>7. ASSUME "leftover" \notin ev PROVE OnlyOwn(ui, p, u2s, s2u)
  <2>1. OnlyOwn(ui, d, u2s, s2u)
    BY <1>7 DEF FifoInv, FifoOK
  <2> QED BY <2>1, <1>5, OwnDown
<1> QED BY <1>1, <1>2, <1>5, <1>6, <1>7, DStepInv

\* The system application is stopped, or killed by its write.
LEMMA DGoneInv ==
    ASSUME FifoInv, Flow(ui, kids, DownD(d.ups), u2s, s2u), ev \subseteq ev', ev' # {}
    PROVE  FifoInv'
<1>1. d \in Ds /\ u2s \in Seq(Cells) /\ s2u \in Seq(Cells)
  BY DEF FifoInv, FifoOK
<1>2. d.ups \in Nat
  BY <1>1 DEF Ds
<1>3. DownD(d.ups) \in Ds /\ DownD(d.ups).pc = "down"
  BY <1>2 DEF DownD, Ds
<1>4. "leftover" \notin ev => OnlyOwn(ui, d, u2s, s2u)
  BY DEF FifoInv, FifoOK
<1>5. "leftover" \notin ev' => OnlyOwn(ui, DownD(d.ups), u2s, s2u)
  BY <1>3, <1>4, OwnDown
<1> QED BY <1>1, <1>3, <1>5, DStepInv

\* The fields of a system application that only moves to another step.
LEMMA DMoves ==
    ASSUME NEW p \in Ds, NEW pc \in {"down", "loop", "sleep", "open", "answer", "comm",
                                      "data", "close", "reopen"}, NEW q,
           q = [p EXCEPT !.pc = pc]
    PROVE  /\ q \in Ds /\ q.pc = pc /\ q.out = p.out /\ q.gid = p.gid /\ q.leak = p.leak
           /\ q.req = p.req /\ q.seen = p.seen
BY DEF Ds

\* get_request: an undisturbed request is whole when it is read whole, and
\* the system application fails on an empty FIFO only once the user
\* interface has gone.
LEMMA GetRequestInv == FifoInv /\ GetRequest => FifoInv'
<1> SUFFICES ASSUME FifoInv, GetRequest PROVE FifoInv'
  OBVIOUS
<1>1. ui \in UIs /\ d \in Ds /\ u2s \in Seq(Cells) /\ s2u \in Seq(Cells)
  BY DEF FifoInv, FifoOK
<1>2. d.pc = "loop"
  BY DEF GetRequest
<1>3. /\ ev = {} => Opened(ui, kids, d) /\ Phase(ui, d, u2s, s2u)
      /\ "leftover" \notin ev => OnlyOwn(ui, d, u2s, s2u)
  BY DEF FifoInv, FifoOK
<1>4. /\ Failed(d) \in Ds /\ Failed(d).pc = "close" /\ Failed(d).out = d.out
      /\ Failed(d).gid = d.gid /\ Failed(d).leak = d.leak /\ Failed(d).seen = d.seen
  BY <1>1, DMoves DEF Failed
<1>5. ASSUME NEW n \in Nat, NEW p \in Ds, "leftover" \notin ev,
             p.pc = "close" \/ OwnReq(ui, p.req)
      PROVE  OnlyOwn(ui, p, Rest(u2s, n), s2u)
  <2>1. OnlyOwn(ui, d, u2s, s2u)
    BY <1>3, <1>5
  <2>2. ui.pc # "down" => \A i \in 1 .. Len(Rest(u2s, n)) : Own(ui, Rest(u2s, n)[i])
    BY <2>1, <1>1, RestFacts DEF OnlyOwn
  <2> QED BY <2>1, <2>2, <1>5 DEF OnlyOwn
<1>6. ASSUME ev = {}, u2s # <<>>
      PROVE  /\ Asking(ui, d, u2s, s2u) /\ s2u = <<>> /\ IsMessage(u2s)
             /\ Len(u2s) >= 3 => /\ ui.pc = "wait" /\ u2s[1].id = ui.id
                                 /\ u2s[1].life = ui.life /\ Rest(u2s, 3) = <<>>
  <2>1. Asking(ui, d, u2s, s2u)
    BY <1>3, <1>6 DEF Phase, AtRest, Heard, Answering, Failing
  <2>2. /\ H(ui) \in Cells /\ C(ui) \in Cells /\ D(ui) \in Cells
        /\ H(ui).k = "h" /\ C(ui).k = "c" /\ D(ui).k = "d"
        /\ C(ui).id = H(ui).id /\ D(ui).id = H(ui).id /\ H(ui).life = ui.life
        /\ C(ui).life = H(ui).life /\ D(ui).life = H(ui).life /\ H(ui).id = ui.id
    BY <1>1, CellType
  <2>3. /\ IsMessage(<<H(ui)>>) /\ IsMessage(<<H(ui), C(ui)>>)
        /\ IsMessage(<<H(ui), C(ui), D(ui)>>) /\ Rest(<<H(ui), C(ui), D(ui)>>, 3) = <<>>
    BY <2>2, MessageFacts
  <2>4. IsMessage(u2s) /\ s2u = <<>>
    BY <2>1, <2>3, Zenon DEF Asking
  <2>5. ASSUME Len(u2s) >= 3
        PROVE  /\ ui.pc = "wait" /\ u2s[1].id = ui.id
               /\ u2s[1].life = ui.life /\ Rest(u2s, 3) = <<>>
    <3>1. Len(<<H(ui)>>) = 1 /\ Len(<<H(ui), C(ui)>>) = 2
      OBVIOUS
    <3>2. PICK n : n = Len(u2s)
      OBVIOUS
    <3>3. n # 1 /\ n # 2
      BY <2>5, <3>2
    <3>4. u2s # <<H(ui)>> /\ u2s # <<H(ui), C(ui)>>
      BY <3>1, <3>2, <3>3, Zenon
    <3>5. ui.pc = "wait" /\ u2s = <<H(ui), C(ui), D(ui)>>
      BY <2>1, <3>4 DEF Asking
    <3>6. u2s[1] = H(ui)
      BY <3>5
    <3> QED BY <3>5, <3>6, <2>2, <2>3
  <2> QED BY <2>1, <2>4, <2>5
<1>7. CASE u2s = <<>> /\ d.seen /\ ~UIOpen(ui, kids) /\ Flow(ui, kids, Failed(d), u2s, s2u) /\ ev' = ev
  <2>1. ASSUME ev = {} PROVE Opened(ui, kids, Failed(d)) /\ Phase(ui, Failed(d), u2s, s2u)
    <3>1. Opened(ui, kids, d) /\ Phase(ui, d, u2s, s2u)
      BY <1>3, <2>1
    <3>2. ui.pc = "down"
      BY <1>7 DEF UIOpen
    <3>3. s2u = <<>>
      BY <3>1, <3>2 DEF Phase, AtRest, Asking, Heard, Answering, Failing
    <3>4. Phase(ui, Failed(d), u2s, s2u)
      BY <1>4, <1>7, <3>2, <3>3 DEF Phase, AtRest
    <3>5. DWrites(Failed(d)) <=> DWrites(d)
      BY <1>4 DEF DWrites
    <3>6. Opened(ui, kids, Failed(d))
      BY <1>4, <1>7, <3>1, <3>2, <3>5 DEF Opened
    <3> QED BY <3>4, <3>6
  <2>2. "leftover" \notin ev => OnlyOwn(ui, Failed(d), u2s, s2u)
    BY <1>3, <1>4, OwnDown
  <2> QED BY <1>1, <1>4, <1>7, <2>1, <2>2, DStepInv
<1>8. CASE /\ u2s # <<>> /\ Len(u2s) < 3 /\ Flow(ui, kids, Failed(d), <<>>, s2u)
           /\ ev' = ev \cup {"disturbed"}
  <2>1. "leftover" \notin ev => OnlyOwn(ui, Failed(d), <<>>, s2u)
    BY <1>3, <1>4 DEF OnlyOwn
  <2>2. "leftover" \notin ev' => "leftover" \notin ev
    BY <1>8
  <2>3. ev \subseteq ev' /\ ev' # {}
    BY <1>8
  <2>4. <<>> \in Seq(Cells)
    OBVIOUS
  <2> QED BY <1>1, <1>4, <1>8, <2>1, <2>2, <2>3, <2>4, DStepInv
<1>9. ASSUME u2s # <<>>, IsMessage(u2s), Len(u2s) >= 3, NEW p,
             p = [d EXCEPT !.pc = "open", !.req = <<u2s[1].id, u2s[1].life>>],
             Flow(ui, kids, p, Rest(u2s, 3), s2u), ev' = ev
      PROVE  FifoInv'
  <2>1. u2s[1] \in Cells /\ 1 \in 1 .. Len(u2s)
    BY <1>1, <1>9
  <2>2. u2s[1].id \in Nat /\ u2s[1].life \in Nat
    BY <2>1 DEF Cells
  <2>3. /\ p \in Ds /\ p.pc = "open" /\ p.req = <<u2s[1].id, u2s[1].life>>
        /\ p.out = d.out /\ p.gid = d.gid /\ p.leak = d.leak /\ p.seen = d.seen
    BY <1>1, <1>9, <2>2 DEF Ds
  <2>4. ASSUME ev = {} PROVE Opened(ui, kids, p) /\ Phase(ui, p, Rest(u2s, 3), s2u)
    <3>1. /\ s2u = <<>> /\ ui.pc = "wait" /\ Rest(u2s, 3) = <<>>
          /\ p.req = <<ui.id, ui.life>>
      BY <1>6, <1>9, <2>3, <2>4
    <3>2. Phase(ui, p, Rest(u2s, 3), s2u)
      BY <2>3, <3>1 DEF Phase, Heard
    <3>3. Opened(ui, kids, d)
      BY <1>3, <2>4
    <3>4. DWrites(p) <=> DWrites(d)
      BY <2>3 DEF DWrites
    <3>5. Opened(ui, kids, p)
      BY <2>3, <3>1, <3>3, <3>4, <1>2 DEF Opened
    <3> QED BY <3>2, <3>5
  <2>5. ASSUME "leftover" \notin ev PROVE OnlyOwn(ui, p, Rest(u2s, 3), s2u)
    <3>1. CASE ui.pc = "down"
      BY <3>1 DEF OnlyOwn
    <3>2. CASE ui.pc # "down"
      <4>1. Own(ui, u2s[1])
        BY <1>3, <2>1, <2>5, <3>2 DEF OnlyOwn
      <4>2. OwnReq(ui, p.req)
        BY <4>1, <2>3 DEF Own, OwnReq
      <4> QED BY <1>5, <2>3, <2>5, <4>2
    <3> QED BY <3>1, <3>2
  <2>6. Rest(u2s, 3) \in Seq(Cells)
    BY <1>1, RestFacts
  <2> QED BY <1>1, <1>9, <2>3, <2>4, <2>5, <2>6, DStepInv
<1>10. ASSUME u2s # <<>>, ~IsMessage(u2s), NEW n \in 1 .. Len(u2s),
              NEW p \in {Failed(d), [d EXCEPT !.pc = "open", !.req = <<0, 0>>]},
              Flow(ui, kids, p, Rest(u2s, n), s2u), ev' = ev
       PROVE  FifoInv'
  <2>1. ev # {}
    BY <1>6, <1>10
  <2>2. p \in Ds /\ (p.pc = "close" \/ p.req = <<0, 0>>)
    <3>1. CASE p = Failed(d)
      BY <1>4, <3>1
    <3>2. CASE p = [d EXCEPT !.pc = "open", !.req = <<0, 0>>]
      <4>1. <<0, 0>> \in Nat \X Nat
        OBVIOUS
      <4> QED BY <3>2, <4>1, <1>1 DEF Ds
    <3> QED BY <1>10, <3>1, <3>2
  <2>3. p.pc = "close" \/ OwnReq(ui, p.req)
    BY <2>2 DEF OwnReq
  <2>4. n \in Nat
    OBVIOUS
  <2>5. "leftover" \notin ev => OnlyOwn(ui, p, Rest(u2s, n), s2u)
    BY <1>5, <2>2, <2>3, <2>4
  <2>6. Rest(u2s, n) \in Seq(Cells)
    BY <1>1, <2>4, RestFacts
  <2> QED BY <1>1, <1>10, <2>1, <2>2, <2>5, <2>6, DStepInv
<1> QED BY <1>7, <1>8, <1>9, <1>10 DEF GetRequest

\* admin_handler opens s2u, or fails: with the user interface there, only
\* for want of a descriptor.
LEMMA OpenOutInv == FifoInv /\ OpenOut => FifoInv'
<1> SUFFICES ASSUME FifoInv, OpenOut PROVE FifoInv'
  OBVIOUS
<1>1. ui \in UIs /\ d \in Ds /\ u2s \in Seq(Cells) /\ s2u \in Seq(Cells)
  BY DEF FifoInv, FifoOK
<1> DEFINE canopen == UIOpen(ui, kids) /\ d.leak < FdMax
           l == IF d.out \/ ~canopen THEN d.leak ELSE d.leak + 1
           q == IF d.out \/ ~canopen THEN d ELSE [d EXCEPT !.leak = @ + 1]
           p == IF (d.out \/ canopen) /\ d.gid THEN [q EXCEPT !.pc = "answer"] ELSE Failed(q)
<1>2. d.pc = "open" /\ Flow(ui, kids, p, u2s, s2u) /\ ev' = ev
  BY DEF OpenOut
<1>3. d.leak \in Nat /\ FdMax \in Nat
  BY <1>1, FifoAssumption DEF Ds
<1>4. q \in Ds /\ q.leak = l /\ q.out = d.out /\ q.gid = d.gid /\ q.seen = d.seen /\ q.req = d.req
  <2>1. CASE d.out \/ ~canopen
    BY <2>1, <1>1
  <2>2. CASE ~(d.out \/ ~canopen)
    <3>1. d.leak + 1 \in Nat
      BY <1>3
    <3>2. q = [d EXCEPT !.leak = d.leak + 1] /\ l = d.leak + 1
      BY <2>2
    <3> QED BY <3>1, <3>2, <1>1 DEF Ds
  <2> QED BY <2>1, <2>2
<1>5. /\ p \in Ds /\ p.leak = l /\ p.out = d.out /\ p.gid = d.gid /\ p.seen = d.seen
      /\ p.req = d.req
      /\ p.pc = IF (d.out \/ canopen) /\ d.gid THEN "answer" ELSE "close"
  <2> HIDE DEF q, l
  <2>1. CASE (d.out \/ canopen) /\ d.gid
    <3>1. p = [q EXCEPT !.pc = "answer"]
      BY <2>1
    <3> HIDE DEF p, canopen
    <3>2. /\ p \in Ds /\ p.pc = "answer" /\ p.out = q.out /\ p.gid = q.gid /\ p.leak = q.leak
          /\ p.req = q.req /\ p.seen = q.seen
      BY <3>1, <1>4, DMoves
    <3> QED BY <2>1, <3>2, <1>4
  <2>2. CASE ~((d.out \/ canopen) /\ d.gid)
    <3>1. p = [q EXCEPT !.pc = "close"]
      BY <2>2 DEF Failed
    <3> HIDE DEF p, canopen
    <3>2. /\ p \in Ds /\ p.pc = "close" /\ p.out = q.out /\ p.gid = q.gid /\ p.leak = q.leak
          /\ p.req = q.req /\ p.seen = q.seen
      BY <3>1, <1>4, DMoves
    <3> QED BY <2>2, <3>2, <1>4
  <2> QED BY <2>1, <2>2
<1>6. /\ l \in Nat /\ l >= d.leak /\ (l > 0 => d.leak > 0 \/ FdMax > 0)
      /\ ~d.out /\ UIOpen(ui, kids) /\ ~canopen => l >= FdMax
      /\ ~d.out /\ canopen => l > 0
  BY <1>3
<1> HIDE DEF p, q, l
<1>7. ASSUME ev = {} PROVE Opened(ui, kids, p) /\ Phase(ui, p, u2s, s2u)
  <2>1. Opened(ui, kids, d) /\ Phase(ui, d, u2s, s2u)
    BY <1>7 DEF FifoInv, FifoOK
  <2>2. Heard(ui, d, u2s, s2u)
    BY <1>2, <2>1 DEF Phase, AtRest, Asking, Answering, Failing
  <2>3. ui.pc = "wait" /\ UIOpen(ui, kids)
    BY <2>2 DEF Heard, UIOpen
  <2>4. Phase(ui, p, u2s, s2u)
    BY <2>2, <1>5 DEF Phase, Heard, Failing
  <2>5. DWrites(d) => DWrites(p)
    BY <1>3, <1>5, <1>6 DEF DWrites
  <2>6. DWrites(p) => DWrites(d) \/ FdMax > 0
    BY <1>5, <1>6 DEF DWrites
  <2>7. ui.life # 0
    BY <2>1, <2>3 DEF Opened
  <2>8. ASSUME ui.life <= 1
        PROVE  /\ ~p.out /\ (ui.seen => p.leak > 0)
               /\ (p.pc \in {"close", "reopen"} \/ ~p.gid) => p.leak >= FdMax
    <3>1. ~d.out /\ (ui.seen => d.leak > 0) /\ (~d.gid => d.leak >= FdMax)
      BY <2>1, <2>3, <2>8 DEF Opened
    <3>2. ~p.out /\ (ui.seen => p.leak > 0)
      BY <3>1, <1>3, <1>5, <1>6
    <3>3. ~d.gid => p.leak >= FdMax
      BY <3>1, <1>3, <1>5, <1>6
    <3>4. p.pc \in {"close", "reopen"} => ~d.gid \/ ~canopen
      BY <1>5
    <3>5. ~canopen => p.leak >= FdMax
      BY <3>1, <2>3, <1>5, <1>6
    <3> QED BY <3>2, <3>3, <3>4, <3>5, <1>5
  <2>9. p.pc # "down" /\ p.pc # "reopen"
    BY <1>5
  <2> HIDE DEF canopen
  <2>10. Opened(ui, kids, p)
    BY <2>1, <2>3, <2>5, <2>6, <2>7, <2>8, <2>9, <1>2 DEF Opened
  <2> QED BY <2>4, <2>10
<1>8. ASSUME "leftover" \notin ev PROVE OnlyOwn(ui, p, u2s, s2u)
  <2>1. OnlyOwn(ui, d, u2s, s2u)
    BY <1>8 DEF FifoInv, FifoOK
  <2> QED BY <2>1, <1>2, <1>5 DEF OnlyOwn
<1> QED BY <1>1, <1>2, <1>5, <1>7, <1>8, DStepInv

\* A write of send_response takes the answer on.
LEMMA DWriteInv ==
    ASSUME NEW k \in {"h", "c", "d"}, NEW next \in {"comm", "data", "loop"},
           FifoInv, DWrite(k, next), d.pc \in {"answer", "comm", "data"},
           \A p : ev = {} /\ p = [d EXCEPT !.pc = next] =>
             Phase(ui, p, u2s, Append(s2u, Cell(k, d.req[1], d.req[2])))
    PROVE  FifoInv'
<1> DEFINE c == Cell(k, d.req[1], d.req[2])
           p == [d EXCEPT !.pc = next]
<1>1. ui \in UIs /\ d \in Ds /\ u2s \in Seq(Cells) /\ s2u \in Seq(Cells)
  BY DEF FifoInv, FifoOK
<1>2. CASE ~UIOpen(ui, kids) /\ Flow(ui, kids, DownD(d.ups), u2s, s2u) /\ ev' = ev \cup {"sigpipe"}
  <2>1. ev \subseteq ev' /\ ev' # {}
    BY <1>2
  <2> QED BY <1>2, <2>1, DGoneInv
<1>3. CASE UIOpen(ui, kids) /\ Flow(ui, kids, p, u2s, Append(s2u, c)) /\ ev' = ev
  <2>1. /\ p \in Ds /\ p.pc = next /\ p.out = d.out /\ p.gid = d.gid /\ p.leak = d.leak
        /\ p.req = d.req /\ p.seen = d.seen
    BY <1>1, DMoves
  <2>2. d.req \in Nat \X Nat
    BY <1>1 DEF Ds
  <2>3. c \in Cells /\ c.id = d.req[1] /\ c.life = d.req[2]
    BY <2>2 DEF Cell, Cells
  <2>4. ev = {} => Phase(ui, p, u2s, Append(s2u, c))
    OBVIOUS
  <2> HIDE DEF p, c
  <2>5. ASSUME ev = {} PROVE Opened(ui, kids, p)
    <3>1. Opened(ui, kids, d)
      BY <2>5 DEF FifoInv, FifoOK
    <3>2. DWrites(p) <=> DWrites(d)
      BY <2>1 DEF DWrites
    <3> QED BY <3>1, <3>2, <2>1 DEF Opened
  <2>6. ASSUME "leftover" \notin ev PROVE OnlyOwn(ui, p, u2s, Append(s2u, c))
    <3>1. OnlyOwn(ui, d, u2s, s2u)
      BY <2>6 DEF FifoInv, FifoOK
    <3>2. ui.pc # "down" => OwnReq(ui, d.req)
      BY <3>1 DEF OnlyOwn
    <3>3. ui.pc # "down" => Own(ui, c)
      BY <3>2, <2>3 DEF Own, OwnReq
    <3>4. /\ Len(Append(s2u, c)) = Len(s2u) + 1 /\ Append(s2u, c)[Len(s2u) + 1] = c
          /\ \A i \in 1 .. Len(s2u) : Append(s2u, c)[i] = s2u[i]
          /\ \A i \in 1 .. Len(s2u) + 1 : i \in 1 .. Len(s2u) \/ i = Len(s2u) + 1
      BY <1>1, <2>3
    <3>5. ui.pc # "down" => \A i \in 1 .. Len(Append(s2u, c)) : Own(ui, Append(s2u, c)[i])
      BY <3>1, <3>3, <3>4 DEF OnlyOwn
    <3> QED BY <3>1, <3>2, <3>5, <2>1 DEF OnlyOwn
  <2>7. Append(s2u, c) \in Seq(Cells)
    BY <1>1, <2>3
  <2> QED BY <1>1, <1>3, <2>1, <2>4, <2>5, <2>6, <2>7, DStepInv
<1> QED BY <1>2, <1>3 DEF DWrite

\* send_response: the three writes of an answer.
LEMMA AnswerInv == FifoInv /\ (AnswerHeader \/ AnswerComm \/ AnswerData) => FifoInv'
<1> SUFFICES ASSUME FifoInv, AnswerHeader \/ AnswerComm \/ AnswerData PROVE FifoInv'
  OBVIOUS
<1>1. ui \in UIs /\ d \in Ds /\ u2s \in Seq(Cells) /\ s2u \in Seq(Cells)
  BY DEF FifoInv, FifoOK
<1>2. ev = {} => Phase(ui, d, u2s, s2u)
  BY DEF FifoInv, FifoOK
<1>3. H(ui) \in Cells /\ C(ui) \in Cells /\ D(ui) \in Cells
  BY <1>1, CellType
<1>4. /\ Append(<<>>, H(ui)) = <<H(ui)>> /\ Append(<<H(ui)>>, C(ui)) = <<H(ui), C(ui)>>
      /\ Append(<<H(ui), C(ui)>>, D(ui)) = <<H(ui), C(ui), D(ui)>>
  BY <1>3, AppendFacts
<1>5. ASSUME d.req = <<ui.id, ui.life>>
      PROVE  /\ Cell("h", d.req[1], d.req[2]) = H(ui) /\ Cell("c", d.req[1], d.req[2]) = C(ui)
             /\ Cell("d", d.req[1], d.req[2]) = D(ui)
  BY <1>5 DEF H, C, D
<1>6. ASSUME NEW next \in {"comm", "data", "loop"}, NEW p, p = [d EXCEPT !.pc = next]
      PROVE  p.pc = next /\ p.req = d.req
  BY <1>1, <1>6, DMoves
<1>7. CASE AnswerHeader
  <2>1. d.pc = "answer" /\ DWrite("h", "comm")
    BY <1>7 DEF AnswerHeader
  <2>2. ASSUME NEW p, ev = {}, p = [d EXCEPT !.pc = "comm"]
        PROVE  Phase(ui, p, u2s, Append(s2u, Cell("h", d.req[1], d.req[2])))
    <3>1. Heard(ui, d, u2s, s2u)
      BY <1>2, <2>1, <2>2 DEF Phase, AtRest, Asking, Answering, Failing
    <3>2. Append(s2u, Cell("h", d.req[1], d.req[2])) = <<H(ui)>>
      BY <3>1, <1>4, <1>5, Zenon DEF Heard
    <3>3. p.pc = "comm" /\ p.req = d.req
      BY <1>6, <2>2
    <3> QED BY <3>1, <3>2, <3>3 DEF Phase, Heard, Answering
  <2> QED BY <2>1, <2>2, DWriteInv
<1>8. CASE AnswerComm
  <2>1. d.pc = "comm" /\ DWrite("c", "data")
    BY <1>8 DEF AnswerComm
  <2>2. ASSUME NEW p, ev = {}, p = [d EXCEPT !.pc = "data"]
        PROVE  Phase(ui, p, u2s, Append(s2u, Cell("c", d.req[1], d.req[2])))
    <3>1. Answering(ui, d, u2s, s2u)
      BY <1>2, <2>1, <2>2 DEF Phase, AtRest, Asking, Heard, Failing
    <3>2. s2u = <<H(ui)>> /\ d.req = <<ui.id, ui.life>>
      BY <3>1, <2>1 DEF Answering
    <3>3. Append(s2u, Cell("c", d.req[1], d.req[2])) = <<H(ui), C(ui)>>
      BY <3>2, <1>4, <1>5, Zenon
    <3>4. p.pc = "data" /\ p.req = d.req
      BY <1>6, <2>2
    <3>5. Answering(ui, p, u2s, Append(s2u, Cell("c", d.req[1], d.req[2])))
      BY <3>1, <3>2, <3>3, <3>4, Zenon DEF Answering
    <3> QED BY <3>5 DEF Phase
  <2> QED BY <2>1, <2>2, DWriteInv
<1>9. CASE AnswerData
  <2>1. d.pc = "data" /\ DWrite("d", "loop")
    BY <1>9 DEF AnswerData
  <2>2. ASSUME NEW p, ev = {}, p = [d EXCEPT !.pc = "loop"]
        PROVE  Phase(ui, p, u2s, Append(s2u, Cell("d", d.req[1], d.req[2])))
    <3>1. Answering(ui, d, u2s, s2u)
      BY <1>2, <2>1, <2>2 DEF Phase, AtRest, Asking, Heard, Failing
    <3>2. s2u = <<H(ui), C(ui)>> /\ d.req = <<ui.id, ui.life>>
      BY <3>1, <2>1 DEF Answering
    <3>3. Append(s2u, Cell("d", d.req[1], d.req[2])) = <<H(ui), C(ui), D(ui)>>
      BY <3>2, <1>4, <1>5, Zenon
    <3>4. p.pc = "loop"
      BY <1>6, <2>2
    <3>5. Answering(ui, p, u2s, Append(s2u, Cell("d", d.req[1], d.req[2])))
      BY <3>1, <3>2, <3>3, <3>4, Zenon DEF Answering
    <3> QED BY <3>5 DEF Phase
  <2> QED BY <2>1, <2>2, DWriteInv
<1> QED BY <1>7, <1>8, <1>9

\* system_handler closes the FIFOs; it still has what it never closes.
LEMMA CloseFIFOInv == FifoInv /\ CloseFIFO => FifoInv'
<1> SUFFICES ASSUME FifoInv, CloseFIFO PROVE FifoInv'
  OBVIOUS
<1> DEFINE p == [d EXCEPT !.pc = "reopen", !.out = FALSE]
<1>1. ui \in UIs /\ d \in Ds /\ u2s \in Seq(Cells) /\ s2u \in Seq(Cells)
  BY DEF FifoInv, FifoOK
<1>2. d.pc = "close" /\ Flow(ui, kids, p, u2s, s2u) /\ ev' = ev
  BY DEF CloseFIFO
<1>3. /\ p \in Ds /\ p.pc = "reopen" /\ p.out = FALSE /\ p.gid = d.gid /\ p.leak = d.leak
      /\ p.seen = d.seen
  BY <1>1 DEF Ds
<1> HIDE DEF p
<1>4. ASSUME ev = {} PROVE Opened(ui, kids, p) /\ Phase(ui, p, u2s, s2u)
  <2>1. Opened(ui, kids, d) /\ Phase(ui, d, u2s, s2u)
    BY <1>4 DEF FifoInv, FifoOK
  <2>2. DWrites(p) => DWrites(d)
    BY <1>3 DEF DWrites
  <2>3. Opened(ui, kids, p)
    BY <2>1, <2>2, <1>2, <1>3 DEF Opened
  <2>4. Phase(ui, p, u2s, s2u)
    BY <2>1, <1>2, <1>3 DEF Phase, AtRest, Asking, Heard, Answering, Failing
  <2> QED BY <2>3, <2>4
<1>5. "leftover" \notin ev => OnlyOwn(ui, p, u2s, s2u)
  <2>1. "leftover" \notin ev => OnlyOwn(ui, d, u2s, s2u)
    BY DEF FifoInv, FifoOK
  <2> QED BY <2>1, <1>3, OwnDown
<1> QED BY <1>1, <1>2, <1>3, <1>4, <1>5, DStepInv

\* And opens them again, s2u when the user interface reads it and there is a
\* descriptor left.
LEMMA ReopenInv == FifoInv /\ Reopen => FifoInv'
<1> SUFFICES ASSUME FifoInv, Reopen PROVE FifoInv'
  OBVIOUS
<1>1. ui \in UIs /\ d \in Ds /\ u2s \in Seq(Cells) /\ s2u \in Seq(Cells)
  BY DEF FifoInv, FifoOK
<1> DEFINE o == UIOpen(ui, kids) /\ d.leak < FdMax
<1>2. PICK gid \in BOOLEAN :
        Flow(ui, kids, [d EXCEPT !.pc = "loop", !.gid = gid,
                                 !.out = UIOpen(ui, kids) /\ d.leak < FdMax], u2s, s2u)
  BY DEF Reopen
<1> DEFINE p == [d EXCEPT !.pc = "loop", !.gid = gid, !.out = o]
<1>3. d.pc = "reopen" /\ Flow(ui, kids, p, u2s, s2u) /\ ev' = ev
  BY <1>2 DEF Reopen
<1>4. o \in BOOLEAN /\ d.leak \in Nat /\ FdMax \in Nat
  BY <1>1, FifoAssumption DEF Ds
<1>5. /\ o => UIOpen(ui, kids) /\ FdMax > 0 /\ d.leak < FdMax
      /\ UIOpen(ui, kids) /\ ~o => d.leak >= FdMax
  BY <1>4
<1> HIDE DEF o
<1>6. /\ p \in Ds /\ p.pc = "loop" /\ p.out = o /\ p.gid = gid /\ p.leak = d.leak
      /\ p.seen = d.seen
  BY <1>1, <1>4 DEF Ds
<1> HIDE DEF p
<1>7. ASSUME ev = {} PROVE Opened(ui, kids, p) /\ Phase(ui, p, u2s, s2u)
  <2>1. Opened(ui, kids, d) /\ Phase(ui, d, u2s, s2u)
    BY <1>7 DEF FifoInv, FifoOK
  <2>2. DWrites(p) => DWrites(d) \/ FdMax > 0
    BY <1>5, <1>6 DEF DWrites
  <2>3. ui.pc # "down" /\ ui.seen => DWrites(p)
    <3>1. SUFFICES ASSUME ui.pc # "down", ui.seen, ~o PROVE d.leak > 0
      BY <1>6 DEF DWrites
    <3>2. FdMax > 0
      BY <2>1, <3>1 DEF Opened
    <3>3. d.leak >= FdMax
      BY <3>1, <1>5 DEF UIOpen
    <3> QED BY <3>2, <3>3, <1>4
  <2>4. ui.life # 0
    BY <2>1, <1>3 DEF Opened
  <2>5. ASSUME ui.life <= 1
        PROVE  /\ ~p.out /\ (ui.seen => p.leak > 0)
               /\ UIOpen(ui, kids) => p.leak >= FdMax
    <3>1. (ui.seen => d.leak > 0) /\ (UIOpen(ui, kids) => d.leak >= FdMax)
      BY <2>1, <2>5, <1>3 DEF Opened
    <3>2. ~o
      BY <3>1, <1>4, <1>5
    <3> QED BY <3>1, <3>2, <1>6
  <2>6. Opened(ui, kids, p)
    BY <2>1, <2>2, <2>3, <2>4, <2>5, <1>6 DEF Opened
  <2>7. Phase(ui, p, u2s, s2u)
    BY <2>1, <1>3, <1>6 DEF Phase, AtRest, Asking, Heard, Answering, Failing
  <2> QED BY <2>6, <2>7
<1>8. "leftover" \notin ev => OnlyOwn(ui, p, u2s, s2u)
  <2>1. "leftover" \notin ev => OnlyOwn(ui, d, u2s, s2u)
    BY DEF FifoInv, FifoOK
  <2> QED BY <2>1, <1>6, OwnDown
<1> QED BY <1>1, <1>3, <1>6, <1>7, <1>8, DStepInv

\* Every step of the system application keeps the invariant.
LEMMA DNextInv == FifoInv /\ DNext => FifoInv'
<1> SUFFICES ASSUME FifoInv, DNext PROVE FifoInv'
  OBVIOUS
<1>1. CASE PriMain \/ SecMain \/ AndMain
  BY <1>1, InitAdminInv DEF PriMain, SecMain, AndMain
<1>2. CASE DStop
  <2>1. Flow(ui, kids, DownD(d.ups), u2s, s2u) /\ ev \subseteq ev' /\ ev' # {}
    BY <1>2 DEF DStop
  <2> QED BY <2>1, DGoneInv
<1> QED BY <1>1, <1>2, GetRequestInv, OpenOutInv, AnswerInv, CloseFIFOInv, ReopenInv DEF DNext

\* And every step of a request.
LEMMA UINextInv == FifoInv /\ UINext => FifoInv'
BY SendInv, WaitInv, TimeoutInv, GetResponseInv DEF UINext

\* A change of the listeners, or the end of the user interface, while no
\* request is under way.
LEMMA KidsInv ==
    ASSUME FifoInv, NEW u \in UIs, NEW ks, Flow(u, ks, d, u2s, s2u), ev' = ev,
           u.life = ui.life /\ u.seen = ui.seen,
           u = ui \/ (ui.pc = "idle" /\ u.pc = "down" /\ u.stat = "none"),
           ks \subseteq kids \/ ui.pc = "idle"
    PROVE  FifoInv'
<1>1. ui \in UIs /\ d \in Ds /\ u2s \in Seq(Cells) /\ s2u \in Seq(Cells) /\ Status(ui, ev)
  BY DEF FifoInv, FifoOK
<1>2. ASSUME ev = {} PROVE Opened(u, ks, d) /\ Phase(u, d, u2s, s2u)
  <2>1. Opened(ui, kids, d) /\ Phase(ui, d, u2s, s2u)
    BY <1>2 DEF FifoInv, FifoOK
  <2>2. UIOpen(u, ks) => UIOpen(ui, kids)
    BY DEF UIOpen
  <2>3. kids = {} => ks = {} \/ ui.pc = "idle"
    OBVIOUS
  <2>4. Opened(u, ks, d)
    <3>1. d.pc = "down" => u.pc = "down" /\ ks = {} /\ u.life = 0
      BY <2>1, <2>3 DEF Opened
    <3>2. u.pc # "down" /\ u.seen /\ d.pc # "reopen" => DWrites(d)
      BY <2>1 DEF Opened
    <3>3. DWrites(d) \/ u.seen => FdMax > 0
      BY <2>1 DEF Opened
    <3>4. u.life = 0 => /\ u.pc = "down" /\ ~u.seen /\ ks = {} /\ ~d.seen /\ d.gid
                        /\ d.pc \in {"down", "loop", "sleep"}
      BY <2>1, <2>3 DEF Opened
    <3>5. u.life <= 1 =>
         /\ ~d.out /\ (u.seen => d.leak > 0)
         /\ UIOpen(u, ks) /\ (d.pc \in {"close", "reopen"} \/ ~d.gid) => d.leak >= FdMax
      BY <2>1, <2>2 DEF Opened
    <3> QED BY <3>1, <3>2, <3>3, <3>4, <3>5 DEF Opened
  <2>5. Phase(u, d, u2s, s2u)
    BY <2>1 DEF Phase, AtRest, Asking, Heard, Answering, Failing
  <2> QED BY <2>4, <2>5
<1>3. "leftover" \notin ev => OnlyOwn(u, d, u2s, s2u)
  BY DEF FifoInv, FifoOK, OnlyOwn
<1>4. Status(u, ev)
  BY <1>1 DEF Status
<1>5. FifoOK(u, ks, d, u2s, s2u, ev')
  BY <1>1, <1>2, <1>3, <1>4 DEF FifoOK
<1> QED BY <1>5, FlowInv

\* The fields of a user interface that has ended.
LEMMA DownFields ==
    ASSUME NEW u \in UIs
    PROVE  /\ DownUI(u) \in UIs /\ DownUI(u).pc = "down" /\ DownUI(u).stat = "none"
           /\ DownUI(u).life = u.life /\ DownUI(u).seen = u.seen
BY DEF DownUI, UIs

\* The steps that fork and end listeners.
LEMMA ListenerFifo ==
    ASSUME FifoInv, ev' = ev
    PROVE  /\ \A c, f : ui.pc = "idle" /\ Fork(c, f) => FifoInv'
           /\ \A c : ui.pc = "idle" /\ KillListener(ui, c) => FifoInv'
           /\ \A c : ui.pc = "idle" /\ KillListener(DownUI(ui), c) => FifoInv'
           /\ \A k : Exit(k) => FifoInv'
<1>1. ui \in UIs
  BY DEF FifoInv, FifoOK
<1>2. ASSUME NEW c, NEW f, ui.pc = "idle", Fork(c, f) PROVE FifoInv'
  <2>1. \E ks : Flow(ui, ks, d, u2s, s2u)
    BY <1>2 DEF Fork
  <2> QED BY <1>1, <1>2, <2>1, KidsInv
<1>3. ASSUME NEW c, ui.pc = "idle", KillListener(ui, c) PROVE FifoInv'
  <2>1. Flow(ui, kids, d, u2s, s2u)
    BY <1>3 DEF KillListener
  <2> QED BY <1>1, <1>3, <2>1, KidsInv
<1>4. ASSUME NEW c, ui.pc = "idle", KillListener(DownUI(ui), c) PROVE FifoInv'
  <2>1. Flow(DownUI(ui), kids, d, u2s, s2u)
    BY <1>4 DEF KillListener
  <2> QED BY <1>1, <1>4, <2>1, KidsInv, DownFields
<1>5. ASSUME NEW k, Exit(k) PROVE FifoInv'
  <2>1. Flow(ui, kids \ {k}, d, u2s, s2u)
    BY <1>5 DEF Exit
  <2>2. kids \ {k} \subseteq kids
    OBVIOUS
  <2> QED BY <1>1, <2>1, <2>2, KidsInv
<1> QED BY <1>2, <1>3, <1>4, <1>5

\* Every step keeps the exchange in step.
LEMMA FifoNext == FifoInv /\ [Next]_vars => FifoInv'
<1> SUFFICES ASSUME FifoInv, [Next]_vars PROVE FifoInv'
  OBVIOUS
<1>1. CASE UNCHANGED fifoVars
  BY <1>1 DEF fifoVars, FifoInv
<1>2. CASE NotForked(cmd')  /\ ev' = ev
  BY <1>2 DEF NotForked, FifoInv
<1>3. CASE Start
  BY <1>3, UIStartInv DEF Start
<1>4. CASE Quit
  BY <1>4, ListenerFifo DEF Quit, Idle
<1>5. CASE Crash
  BY <1>5, UICrashInv DEF Crash
<1>6. CASE Request
  BY <1>6, UINextInv DEF Request
<1>7. CASE System
  BY <1>7, DNextInv DEF System
<1>8. CASE AnonSetOff
  BY <1>8, <1>2, ListenerFifo DEF AnonSetOff, Idle, NotForked
<1>9. CASE AnonSetOn
  BY <1>9, ListenerFifo DEF AnonSetOn, Idle
<1>10. CASE AnonSetOnly
  BY <1>10, <1>2, ListenerFifo DEF AnonSetOnly, Idle, NotForked
<1>11. ASSUME NEW v, AnonIpver(v) PROVE FifoInv'
  BY <1>11, <1>2 DEF AnonIpver, NotForked
<1>12. ASSUME NEW s, AnonNet(s) PROVE FifoInv'
  BY <1>12, <1>2, ListenerFifo DEF AnonNet, Idle, NotForked
<1>13. ASSUME NEW id, AnonDef(id) \/ AnonAccept(id) PROVE FifoInv'
  BY <1>13, <1>1 DEF AnonDef, AnonAccept, Keep
<1>14. ASSUME NEW k, Listen(k) PROVE FifoInv'
  <2>1. CASE Exit(k)
    BY <2>1, ListenerFifo DEF Exit
  <2> QED BY <1>14, <1>1, <2>1 DEF Listen
<1>15. ASSUME NEW k, \/ Receive(k) \/ ReadLength(k) \/ ReadData(k) \/ EndSession(k)
                     \/ \E peer \in Peers : Connect(k, peer) \/ ConnectFailed(k, peer)
       PROVE  FifoInv'
  BY <1>15, <1>1 DEF Receive, ReadLength, ReadData, EndSession, Connect, ConnectFailed, Received
<1>16. ASSUME NEW k, Die(k) PROVE FifoInv'
  <2>1. Exit(k) /\ ev' = ev
    BY <1>16 DEF Die, Exit
  <2> QED BY <2>1, ListenerFifo
<1>17. CASE Transmit \/ Arrive
  BY <1>17, <1>1 DEF Transmit, Arrive
<1>18. CASE UNCHANGED vars
  BY <1>18, <1>1 DEF vars
<1> QED BY <1>3, <1>4, <1>5, <1>6, <1>7, <1>8, <1>9, <1>10, <1>11, <1>12, <1>13, <1>14,
           <1>15, <1>16, <1>17, <1>18 DEF Next

\* The FIFOs are empty and neither process runs at first.
LEMMA FifoInitInv == Init => FifoInv
<1> SUFFICES ASSUME Init PROVE FifoInv
  OBVIOUS
<1>1. /\ u2s = <<>> /\ s2u = <<>> /\ kids = {} /\ ev = {} /\ d = DownD(0)
      /\ ui = [pc |-> "down", id |-> 1, life |-> 0, stat |-> "none", seen |-> FALSE]
  BY DEF Init, FifoInit
<1>2. ui \in UIs /\ ui.pc = "down" /\ ui.life = 0 /\ ui.stat = "none" /\ ~ui.seen
  BY <1>1 DEF UIs
<1>3. d \in Ds /\ d.pc = "down" /\ ~d.out /\ d.gid /\ d.leak = 0 /\ ~d.seen
  <2>1. <<0, 0>> \in Nat \X Nat
    OBVIOUS
  <2> QED BY <1>1, <2>1 DEF DownD, Ds
<1>4. Opened(ui, kids, d)
  BY <1>1, <1>2, <1>3 DEF Opened, UIOpen, DWrites
<1>5. Phase(ui, d, u2s, s2u)
  BY <1>1, <1>2, <1>3 DEF Phase, AtRest
<1>6. OnlyOwn(ui, d, u2s, s2u) /\ Status(ui, ev)
  BY <1>2 DEF OnlyOwn, Status
<1>7. u2s \in Seq(Cells) /\ s2u \in Seq(Cells)
  BY <1>1
<1> QED BY <1>2, <1>3, <1>4, <1>5, <1>6, <1>7 DEF FifoInv, FifoOK

\* The invariant of the exchange, for every number of requests, of user
\* interfaces and of descriptors, and whatever the listeners do meanwhile.
THEOREM FifoInvariant == Spec => []FifoInv
BY FifoInitInv, FifoNext, PTL DEF Spec

\* An undisturbed exchange of p3fifo.c and p3admin.c stays in step: whatever
\* is in a FIFO is of the request being worked on, and request and answer
\* are never in flight together.
THEOREM InStepThm == Spec => []InStep
<1>1. FifoInv => InStep
  <2> SUFFICES ASSUME FifoInv, ev = {}
               PROVE  /\ \A q \in {u2s, s2u} : \A i \in 1..Len(q) : q[i].id = ui.id /\ q[i].life = ui.life
                      /\ u2s = <<>> \/ s2u = <<>>
                      /\ s2u # <<>> => ui.pc \in {"wait", "read"}
    BY DEF InStep
  <2>1. ui \in UIs /\ Phase(ui, d, u2s, s2u)
    BY DEF FifoInv, FifoOK
  <2>2. /\ H(ui).id = ui.id /\ C(ui).id = ui.id /\ D(ui).id = ui.id
        /\ H(ui).life = ui.life /\ C(ui).life = ui.life /\ D(ui).life = ui.life
    BY <2>1, CellType
  <2>3. \A q \in {u2s, s2u} : \/ q = <<>> \/ q = <<H(ui)>> \/ q = <<H(ui), C(ui)>>
                              \/ q = <<H(ui), C(ui), D(ui)>>
    BY <2>1, Zenon DEF Phase, AtRest, Asking, Heard, Answering, Failing
  <2>4. ASSUME NEW q, \/ q = <<>> \/ q = <<H(ui)>> \/ q = <<H(ui), C(ui)>>
                      \/ q = <<H(ui), C(ui), D(ui)>>
        PROVE  \A i \in 1 .. Len(q) : q[i].id = ui.id /\ q[i].life = ui.life
    <3>1. CASE q = <<>>
      BY <3>1
    <3>2. CASE q = <<H(ui)>>
      BY <2>2, <3>2
    <3>3. CASE q = <<H(ui), C(ui)>>
      BY <2>2, <3>3
    <3>4. CASE q = <<H(ui), C(ui), D(ui)>>
      <4>1. Len(q) = 3 /\ q[1] = H(ui) /\ q[2] = C(ui) /\ q[3] = D(ui)
        BY <3>4
      <4>2. \A i \in 1 .. 3 : i = 1 \/ i = 2 \/ i = 3
        OBVIOUS
      <4> QED BY <2>2, <4>1, <4>2
    <3> QED BY <2>4, <3>1, <3>2, <3>3, <3>4
  <2>5. u2s = <<>> \/ s2u = <<>>
    BY <2>1 DEF Phase, AtRest, Asking, Heard, Answering, Failing
  <2>6. s2u # <<>> => ui.pc \in {"wait", "read"}
    BY <2>1 DEF Phase, AtRest, Asking, Heard, Answering, Failing
  <2> QED BY <2>3, <2>4, <2>5, <2>6
<1> QED BY <1>1, FifoInvariant, PTL

\* send_request returns 0 for an answer that is not this request's, or for
\* none, only after the exchange was disturbed or for a later user interface.
THEOREM AnsweredThm == Spec => []Answered
<1>1. FifoInv => Answered
  BY DEF FifoInv, FifoOK, Status, Answered
<1> QED BY <1>1, FifoInvariant, PTL

-----------------------------------------------------------------------------
(* The listeners: types                                                    *)

\* What there is at first.
LEMMA NoneType == NoCmd \in Cmds /\ NoKid \in Kids /\ NoLink \in Links
<1>1. MaxMsgs \in Nat
  BY AnonAssumption
<1>2. NoCmd \in Cmds
  BY DEF NoCmd, Cmds, Vers, Nets
<1>3. NoKid \in Kids
  BY DEF NoKid, Kids, Vers, Nets, AnyPeer
<1>4. NoLink \in Links
  BY <1>1 DEF NoLink, Links
<1> QED BY <1>2, <1>3, <1>4

\* The listeners that a step of the process itself changes.
LEMMA ForkType ==
    ASSUME AnonType, NEW c \in Cmds, NEW f \in Cmds, Fork(c, f)
    PROVE  cmd' \in Cmds /\ lis' \in [Listeners -> Kids] /\ kids' \subseteq Listeners
<1>1. lis \in [Listeners -> Kids] /\ kids \subseteq Listeners
  BY DEF AnonType
<1>2. ASSUME NEW k \in Unused, Flow(ui, kids \cup {k}, d, u2s, s2u),
             lis' = [lis EXCEPT ![k] = [NoKid EXCEPT !.pc = "listen", !.net = c.net,
                                          !.ver = c.ver, !.sub = c.sub]],
             cmd' = [c EXCEPT !.pid = k]
      PROVE  cmd' \in Cmds /\ lis' \in [Listeners -> Kids] /\ kids' \subseteq Listeners
  <2>1. k \in Listeners /\ k \in Nat
    BY DEF Unused, Listeners
  <2>2. cmd' \in Cmds
    BY <1>2, <2>1 DEF Cmds
  <2>3. [NoKid EXCEPT !.pc = "listen", !.net = c.net, !.ver = c.ver, !.sub = c.sub] \in Kids
    BY NoneType DEF Kids, Cmds
  <2>4. lis' \in [Listeners -> Kids]
    BY <1>1, <1>2, <2>1, <2>3
  <2>5. kids' \subseteq Listeners
    BY <1>1, <1>2, <2>1 DEF Flow, Ends
  <2> QED BY <2>2, <2>4, <2>5
<1>3. CASE Flow(ui, kids, d, u2s, s2u) /\ cmd' = [f EXCEPT !.pid = 0] /\ UNCHANGED lis
  BY <1>1, <1>3 DEF Cmds, Flow, Ends
<1> QED BY <1>2, <1>3 DEF Fork

\* A listener that ends takes its session with it.
LEMMA ExitType ==
    ASSUME AnonType, NEW k \in Listeners
    PROVE  Exited(k) \in [Listeners -> Kids] /\ Unlinked(k) \in Links
BY NoneType DEF AnonType, Exited, Unlinked

\* OFF and quit tell the listener that anonpid names to end.
LEMMA KillType ==
    ASSUME AnonType, NEW u, NEW c \in Cmds, KillListener(u, c)
    PROVE  /\ cmd' \in Cmds /\ lis' \in [Listeners -> Kids] /\ link' \in Links
           /\ kids' \subseteq Listeners
<1>1. kids' = kids /\ cmd' = [c EXCEPT !.pid = 0]
  BY DEF KillListener, Flow, Ends
<1>2. kids' \subseteq Listeners
  BY <1>1 DEF AnonType
<1>3. cmd' \in Cmds
  BY <1>1 DEF Cmds
<1>4. link' \in Links
  BY DEF KillListener, AnonType
<1>5. lis' \in [Listeners -> Kids]
  <2>1. lis \in [Listeners -> Kids] /\ kids \subseteq Listeners
    BY DEF AnonType
  <2>2. CASE cmd.pid \in kids
    <3>1. [lis[cmd.pid] EXCEPT !.told = TRUE] \in Kids
      BY <2>1, <2>2 DEF Kids
    <3>2. lis' = [lis EXCEPT ![cmd.pid] = [lis[cmd.pid] EXCEPT !.told = TRUE]]
      BY <2>1, <2>2 DEF KillListener
    <3> QED BY <2>1, <3>1, <3>2
  <2>3. CASE cmd.pid \notin kids
    BY <2>1, <2>3 DEF KillListener
  <2> QED BY <2>2, <2>3
<1> QED BY <1>2, <1>3, <1>4, <1>5

\* What net_receive has read.
LEMMA ReceivedType ==
    ASSUME AnonType, NEW k \in Listeners, NEW l \in Kids, NEW rest \in Seq(Bits),
           Received(k, l, rest)
    PROVE  AnonType'
<1>1. lis \in [Listeners -> Kids] /\ link \in Links
  BY DEF AnonType
<1>2. lis' \in [Listeners -> Kids]
  BY <1>1 DEF Received
<1>3. [link EXCEPT !.in = rest] \in Links
  BY <1>1 DEF Links
<1>4. link' \in Links
  BY <1>3, NoneType DEF Received
<1>5. kids' = kids /\ cmd' = cmd /\ lost' = lost
  BY DEF Received, fifoVars
<1> QED BY <1>2, <1>4, <1>5 DEF AnonType

\* The bytes one read takes, and those it leaves.
LEMMA ChunkType ==
    ASSUME NEW q \in Seq(Bits), NEW n \in Nat
    PROVE  /\ Rest(q, n) \in Seq(Bits)
           /\ n <= Len(q) => SubSeq(q, 1, n) \in Seq(Bits) /\ Len(SubSeq(q, 1, n)) = n
BY DEF Rest

\* A read takes one byte or two.
LEMMA ChunkLen ==
    ASSUME link.in \in Seq(Bits)
    PROVE  /\ Chunk \in Seq(Bits) /\ Len(Chunk) \in Nat
           /\ Len(link.in) >= 2 => Chunk = SubSeq(link.in, 1, 2) /\ Len(Chunk) = 2
<1>1. PICK n \in Nat : n = Len(link.in)
  OBVIOUS
<1>2. PICK m \in Nat : m <= n /\ (n >= 2 => m = 2) /\ m = IF n < 2 THEN n ELSE 2
  OBVIOUS
<1>3. Chunk = SubSeq(link.in, 1, m)
  BY <1>1, <1>2 DEF Chunk
<1>4. SubSeq(link.in, 1, m) \in Seq(Bits) /\ Len(SubSeq(link.in, 1, m)) = m
  BY <1>1, <1>2, ChunkType
<1> QED BY <1>1, <1>2, <1>3, <1>4

\* Requests are made by a user interface that runs, and fork nothing.
LEMMA RequestKids == FifoInv /\ UINext => kids' = kids /\ ui.pc # "down"
<1> SUFFICES ASSUME FifoInv, UINext PROVE kids' = kids /\ ui.pc # "down"
  OBVIOUS
<1>1. ASSUME NEW k, NEW next, UIWrites(k, next) PROVE kids' = kids
  BY <1>1 DEF UIWrites, Flow, Ends
<1>2. ASSUME NEW stat, NEW dn, Done(stat, dn) PROVE kids' = kids
  BY <1>2 DEF Done, Flow, Ends
<1>3. CASE SendHeader \/ SendComm \/ SendData
  BY <1>1, <1>3 DEF SendHeader, SendComm, SendData
<1>4. CASE Wait
  BY <1>4 DEF Wait
<1>5. CASE Timeout
  BY <1>2, <1>5 DEF Timeout
<1>6. CASE GetResponse
  <2>1. ui.pc = "read"
    BY <1>6 DEF GetResponse
  <2>2. \E stat, dn : Done(stat, dn)
    <3>1. CASE s2u = <<>> /\ Done("empty", s2u)
      BY <3>1
    <3>2. CASE /\ s2u # <<>> /\ ~IsMessage(s2u)
               /\ \E n \in 1 .. Len(s2u), stat \in {"failed", "empty", "other"} :
                    Done(stat, Rest(s2u, n))
      BY <3>2
    <3>3. CASE /\ s2u # <<>> /\ IsMessage(s2u)
               /\ LET whole == Len(s2u) >= 3
                      mine == s2u[1].id = ui.id
                  IN  CASE Len(s2u) = 1 -> Done("failed", <<>>)
                        [] Len(s2u) > 1 /\ ~mine -> Done("other", Rest(s2u, 2))
                        [] Len(s2u) = 2 /\ mine -> Done("failed", <<>>)
                        [] whole /\ mine ->
                             Done(IF s2u[1].life = ui.life THEN "ok" ELSE "stale", Rest(s2u, 3))
      <4>1. s2u \in Seq(Cells)
        BY DEF FifoInv, FifoOK
      <4>2. PICK n \in Nat : n = Len(s2u) /\ n # 0
        BY <3>3, <4>1
      <4>3. n = 1 \/ (n > 1 /\ (n = 2 \/ n >= 3))
        BY <4>2
      <4>4. Len(s2u) = 1 \/ (Len(s2u) > 1 /\ (Len(s2u) = 2 \/ Len(s2u) >= 3))
        BY <4>2, <4>3
      <4> QED BY <3>3, <4>4
    <3> QED BY <1>6, <3>1, <3>2, <3>3 DEF GetResponse
  <2> QED BY <1>2, <2>1, <2>2
<1> QED BY <1>3, <1>4, <1>5, <1>6 DEF UINext, SendHeader, SendComm, SendData, Wait, Timeout

\* Every step keeps the types of the settings, the listeners and the link.
LEMMA TypeNext == FifoInv /\ AnonType /\ [Next]_vars => AnonType'
<1> SUFFICES ASSUME FifoInv, AnonType, [Next]_vars PROVE AnonType'
  OBVIOUS
<1>1. /\ cmd \in Cmds /\ lis \in [Listeners -> Kids] /\ link \in Links
      /\ lost \in BOOLEAN /\ kids \subseteq Listeners
  BY DEF AnonType
<1>2. CASE UNCHANGED <<cmd, lis, link, lost, kids>>
  BY <1>1, <1>2 DEF AnonType
<1>3. CASE Start
  BY <1>1, <1>3, NoneType DEF Start, UIStart, Flow, Ends, AnonType
<1>4. CASE Quit
  BY <1>1, <1>4, NoneType, KillType DEF Quit, AnonType
<1>5. CASE Crash
  BY <1>1, <1>5, NoneType DEF Crash, UICrash, Flow, Ends, AnonType
<1>6. CASE Request
  <2>1. kids' = kids
    BY <1>6, RequestKids DEF Request
  <2> QED BY <1>1, <1>6, <2>1, NoneType DEF Request, AnonType
<1>7. CASE System
  <2>1. kids' = kids
    BY <1>7 DEF System, DNext, PriMain, SecMain, AndMain, InitAdmin, DStop, GetRequest, OpenOut,
                AnswerHeader, AnswerComm, AnswerData, DWrite, CloseFIFO, Reopen, Flow, Ends
  <2> QED BY <1>2, <1>7, <2>1 DEF System, anonVars
<1>8. CASE AnonSetOff
  <2>1. [cmd EXCEPT !.set = FALSE, !.net = FALSE, !.srdy = FALSE] \in Cmds
    BY <1>1 DEF Cmds
  <2> QED BY <1>1, <1>2, <1>8, <2>1, KillType DEF AnonSetOff, NotForked, AnonType
<1>9. CASE AnonSetOn
  <2> DEFINE c == [cmd EXCEPT !.set = TRUE, !.net = FALSE, !.srdy = FALSE]
  <2>1. c \in Cmds /\ [c EXCEPT !.set = FALSE] \in Cmds
    BY <1>1 DEF Cmds
  <2>2. Fork(c, [c EXCEPT !.set = FALSE]) /\ lost' \in BOOLEAN /\ link' = link
    BY <1>9 DEF AnonSetOn, Forked
  <2> HIDE DEF c
  <2> QED BY <1>1, <2>1, <2>2, ForkType DEF AnonType
<1>10. CASE AnonSetOnly
  <2> DEFINE c == [cmd EXCEPT !.set = TRUE, !.net = TRUE]
             f == [c EXCEPT !.set = FALSE, !.net = FALSE, !.srdy = FALSE]
  <2>1. c \in Cmds /\ f \in Cmds
    BY <1>1 DEF Cmds
  <2>2. (Fork(c, f) /\ Forked) \/ NotForked(c)
    BY <1>10 DEF AnonSetOnly
  <2>3. link' = link
    BY <1>10 DEF AnonSetOnly
  <2> HIDE DEF c, f
  <2> QED BY <1>1, <2>1, <2>2, <2>3, ForkType DEF AnonType, Forked, NotForked
<1>11. ASSUME NEW v \in {4, 6}, AnonIpver(v) PROVE AnonType'
  <2>1. [cmd EXCEPT !.ver = v] \in Cmds
    BY <1>1 DEF Cmds, Vers
  <2> QED BY <1>1, <1>11, <2>1 DEF AnonIpver, NotForked, AnonType
<1>12. ASSUME NEW s \in Subnets, AnonNet(s) PROVE AnonType'
  <2> DEFINE c == [cmd EXCEPT !.srdy = TRUE, !.sub = s, !.ver = IF @ = 0 THEN 4 ELSE @]
             f == [c EXCEPT !.set = FALSE, !.net = FALSE, !.srdy = FALSE]
  <2>1. c \in Cmds
    BY <1>1 DEF Cmds, Vers, Nets
  <2>2. (Fork(c, f) /\ Forked) \/ NotForked(c)
    BY <1>12 DEF AnonNet
  <2>3. link' = link
    BY <1>12 DEF AnonNet
  <2> HIDE DEF c
  <2>4. f \in Cmds
    BY <2>1 DEF Cmds
  <2> HIDE DEF f
  <2> QED BY <1>1, <2>1, <2>2, <2>3, <2>4, ForkType DEF AnonType, Forked, NotForked
<1>13. ASSUME NEW id, AnonDef(id) \/ AnonAccept(id) PROVE AnonType'
  BY <1>13, <1>2 DEF AnonDef, AnonAccept, Keep, fifoVars
<1>14. ASSUME NEW k \in Listeners, Exit(k) PROVE AnonType'
  BY <1>1, <1>14, ExitType DEF Exit, Flow, Ends, AnonType
<1>15. ASSUME NEW k \in Listeners, Listen(k), ~Exit(k) PROVE AnonType'
  <2>1. lis' = [lis EXCEPT ![k].pc = "loop"] /\ UNCHANGED <<cmd, link, lost, kids>>
    BY <1>15 DEF Listen, fifoVars
  <2>2. [lis[k] EXCEPT !.pc = "loop"] \in Kids
    BY <1>1 DEF Kids
  <2>3. lis' \in [Listeners -> Kids]
    BY <1>1, <2>1, <2>2
  <2> QED BY <1>1, <2>1, <2>3 DEF AnonType
<1>16. ASSUME NEW k \in Listeners, NEW peer \in Peers, Connect(k, peer) PROVE AnonType'
  <2>1. /\ lis' = [lis EXCEPT ![k].peer = peer, ![k].up = TRUE, ![k].last = <<>>]
        /\ link' = [NoLink EXCEPT !.to = k, !.left = MaxMsgs]
        /\ UNCHANGED <<cmd, lost, kids>>
    BY <1>16 DEF Connect, fifoVars
  <2>2. [lis[k] EXCEPT !.peer = peer, !.up = TRUE, !.last = <<>>] \in Kids
    <3>1. lis[k] \in Kids /\ peer \in AnyPeer /\ <<>> \in Seq(Bits)
      BY <1>1 DEF AnyPeer
    <3> QED BY <3>1 DEF Kids
  <2>3. lis' = [lis EXCEPT ![k] = [lis[k] EXCEPT !.peer = peer, !.up = TRUE, !.last = <<>>]]
    BY <1>1, <2>1
  <2>4. lis' \in [Listeners -> Kids]
    BY <1>1, <2>2, <2>3
  <2>5. k \in Nat /\ MaxMsgs \in 0 .. MaxMsgs
    BY AnonAssumption DEF Listeners
  <2>6. link' \in Links
    BY <2>1, <2>5, NoneType DEF Links
  <2> QED BY <1>1, <2>1, <2>4, <2>6 DEF AnonType
<1>17. ASSUME NEW k \in Listeners, Receive(k) \/ ReadLength(k) \/ ReadData(k) \/ EndSession(k)
       PROVE  AnonType'
  <2>1. lis[k] \in Kids /\ link.in \in Seq(Bits)
    BY <1>1 DEF Links
  <2>2. Chunk \in Seq(Bits) /\ Len(Chunk) \in Nat
    BY <2>1, ChunkLen
  <2>3. \A n \in Nat : Rest(link.in, n) \in Seq(Bits)
    BY <2>1, ChunkType
  <2>4. <<>> \in Seq(Bits)
    OBVIOUS
  <2>5. CASE Receive(k)
    <3>1. [lis[k] EXCEPT !.pc = "length", !.idx = 0, !.got = <<>>, !.last = <<>>] \in Kids
      BY <2>1, <2>4 DEF Kids
    <3> QED BY <2>1, <2>5, <3>1, ReceivedType DEF Receive
  <2>6. CASE ReadLength(k)
    <3> DEFINE read == lis[k].idx + Len(Chunk)
               idx == IF read > 3 THEN 3 ELSE read
               l == [lis[k] EXCEPT !.idx = idx]
    <3>1. idx \in Nat
      <4>1. lis[k].idx \in Nat
        BY <2>1 DEF Kids
      <4> QED BY <2>2, <4>1
    <3>2. \/ Received(k, l, Rest(link.in, Len(Chunk)))
          \/ Received(k, [l EXCEPT !.pc = "data"], Rest(link.in, Len(Chunk)))
          \/ Received(k, Stopped(l), <<>>)
      BY <2>6 DEF ReadLength
    <3> HIDE DEF idx
    <3>3. l \in Kids
      BY <2>1, <3>1 DEF Kids
    <3> HIDE DEF l
    <3>4. [l EXCEPT !.pc = "data"] \in Kids /\ Stopped(l) \in Kids
      BY <2>4, <3>3 DEF Kids, Stopped
    <3> QED BY <2>2, <2>3, <2>4, <3>2, <3>3, <3>4, ReceivedType
  <2>7. CASE ReadData(k)
    <3> DEFINE got == lis[k].got \o Chunk
    <3>1. got \in Seq(Bits)
      BY <2>1, <2>2 DEF Kids
    <3>2. \E l : /\ Received(k, l, Rest(link.in, Len(Chunk)))
                 /\ \/ l = [lis[k] EXCEPT !.pc = "loop", !.got = <<>>, !.last = got]
                    \/ l = [lis[k] EXCEPT !.got = got]
      BY <2>7 DEF ReadData
    <3> HIDE DEF got
    <3>3. /\ [lis[k] EXCEPT !.pc = "loop", !.got = <<>>, !.last = got] \in Kids
          /\ [lis[k] EXCEPT !.got = got] \in Kids
      BY <2>1, <2>4, <3>1 DEF Kids
    <3> QED BY <2>2, <2>3, <3>2, <3>3, ReceivedType
  <2>8. CASE EndSession(k)
    <3>1. [Stopped(lis[k]) EXCEPT !.last = lis[k].got] \in Kids
      BY <2>1, <2>4 DEF Kids, Stopped
    <3> QED BY <2>4, <2>8, <3>1, ReceivedType DEF EndSession
  <2> QED BY <1>17, <2>5, <2>6, <2>7, <2>8
<1>18. CASE Transmit
  <2>1. PICK n \in {2, 4} :
         link' = [link EXCEPT !.left = @ - 1, !.cut = @ \/ n < 4,
                              !.wire = @ \o SubSeq(Message(link.left), 1, n)]
    BY <1>18 DEF Transmit
  <2>2. link.left > 0 /\ UNCHANGED <<cmd, lis, lost, kids>>
    BY <1>18 DEF Transmit, fifoVars
  <2>3. PICK m \in 0 .. MaxMsgs : m = link.left
    BY <1>1 DEF Links
  <2>4. m \in 1 .. MaxMsgs /\ m - 1 \in 0 .. MaxMsgs
    BY <2>2, <2>3, AnonAssumption
  <2>5. Message(m) \in Seq(Bits) /\ Len(Message(m)) = 4
    BY <2>4 DEF Message, Bits
  <2>6. SubSeq(Message(m), 1, n) \in Seq(Bits)
    <3>1. n \in Nat /\ n <= 4
      OBVIOUS
    <3>2. n <= Len(Message(m))
      BY <2>5, <3>1
    <3> QED BY <2>5, <3>1, <3>2, ChunkType
  <2>7. link.wire \in Seq(Bits) /\ link.cut \in BOOLEAN
    BY <1>1 DEF Links
  <2>8. link.wire \o SubSeq(Message(m), 1, n) \in Seq(Bits) /\ (link.cut \/ n < 4) \in BOOLEAN
    BY <2>6, <2>7
  <2>9. link' = [link EXCEPT !.left = m - 1, !.cut = link.cut \/ n < 4,
                             !.wire = link.wire \o SubSeq(Message(m), 1, n)]
    BY <1>1, <2>1, <2>3 DEF Links
  <2>10. link' \in Links
    BY <1>1, <2>4, <2>8, <2>9 DEF Links
  <2> QED BY <1>1, <2>2, <2>10 DEF AnonType
<1>19. CASE Arrive
  <2>1. PICK n \in 1 .. Len(link.wire) :
         link' = [link EXCEPT !.in = @ \o SubSeq(link.wire, 1, n), !.wire = Rest(@, n),
                              !.cut = @ \/ link.wire[n][2] \in {1, 3}]
    BY <1>19 DEF Arrive
  <2>2. UNCHANGED <<cmd, lis, lost, kids>>
    BY <1>19 DEF Arrive, fifoVars
  <2>3. link.wire \in Seq(Bits) /\ link.in \in Seq(Bits) /\ link.cut \in BOOLEAN
    BY <1>1 DEF Links
  <2>4. n \in Nat /\ n <= Len(link.wire)
    BY <2>3
  <2>5. SubSeq(link.wire, 1, n) \in Seq(Bits) /\ Rest(link.wire, n) \in Seq(Bits)
    BY <2>3, <2>4, ChunkType
  <2>6. link.in \o SubSeq(link.wire, 1, n) \in Seq(Bits)
    BY <2>3, <2>5
  <2>7. (link.cut \/ link.wire[n][2] \in {1, 3}) \in BOOLEAN
    OBVIOUS
  <2>8. link' = [link EXCEPT !.in = link.in \o SubSeq(link.wire, 1, n),
                             !.wire = Rest(link.wire, n),
                             !.cut = link.cut \/ link.wire[n][2] \in {1, 3}]
    BY <1>1, <2>1 DEF Links
  <2>9. link' \in Links
    BY <1>1, <2>5, <2>6, <2>7, <2>8 DEF Links
  <2> QED BY <1>1, <2>2, <2>9 DEF AnonType
<1>20. CASE UNCHANGED vars
  BY <1>20, <1>2 DEF vars, anonVars, fifoVars
<1>21. ASSUME NEW k \in Listeners, NEW peer \in Peers, ConnectFailed(k, peer) PROVE AnonType'
  <2>1. /\ lis' = [lis EXCEPT ![k] = [Stopped(lis[k]) EXCEPT !.peer = peer]]
        /\ link' = Unlinked(k) /\ UNCHANGED <<cmd, lost, kids>>
    BY <1>1, <1>21 DEF ConnectFailed, fifoVars
  <2>2. [Stopped(lis[k]) EXCEPT !.peer = peer] \in Kids
    <3>1. lis[k] \in Kids /\ peer \in AnyPeer /\ <<>> \in Seq(Bits)
      BY <1>1 DEF AnyPeer
    <3> QED BY <3>1 DEF Kids, Stopped
  <2>3. lis' \in [Listeners -> Kids]
    BY <1>1, <2>1, <2>2
  <2> QED BY <1>1, <2>1, <2>3, ExitType DEF AnonType
<1>22. ASSUME NEW k \in Listeners,
              \/ Listen(k) \/ Receive(k) \/ ReadLength(k) \/ ReadData(k) \/ EndSession(k) \/ Die(k)
              \/ \E peer \in Peers : Connect(k, peer) \/ ConnectFailed(k, peer)
       PROVE  AnonType'
  BY <1>14, <1>15, <1>16, <1>17, <1>21, <1>22 DEF Die
<1> QED BY <1>3, <1>4, <1>5, <1>6, <1>7, <1>8, <1>9, <1>10, <1>11, <1>12, <1>13,
           <1>18, <1>19, <1>20, <1>22 DEF Next, Listeners

-----------------------------------------------------------------------------
(* The settings                                                            *)

\* A step that leaves the user interface's own state alone.
LEMMA FlowUI ==
    ASSUME FifoInv, NEW ks, NEW p, NEW up, NEW dn, Flow(ui, ks, p, up, dn)
    PROVE  ui'.pc = ui.pc /\ kids' = ks
BY DEF FifoInv, FifoOK, UIs, Flow, Ends

\* The system application does nothing to the user interface or a listener.
LEMMA SystemKids == FifoInv /\ DNext => ui'.pc = ui.pc /\ kids' = kids
<1> SUFFICES ASSUME FifoInv, DNext PROVE \E p, up, dn : Flow(ui, kids, p, up, dn)
  BY FlowUI
<1>1. CASE PriMain \/ SecMain \/ AndMain
  BY <1>1 DEF PriMain, SecMain, AndMain, InitAdmin
<1>2. CASE DStop
  BY <1>2 DEF DStop
<1>3. CASE GetRequest
  BY <1>3, Zenon DEF GetRequest
<1>4. CASE OpenOut
  BY <1>4 DEF OpenOut
<1>5. CASE AnswerHeader \/ AnswerComm \/ AnswerData
  BY <1>5, Zenon DEF AnswerHeader, AnswerComm, AnswerData, DWrite
<1>6. CASE CloseFIFO
  BY <1>6 DEF CloseFIFO
<1>7. CASE Reopen
  BY <1>7, Zenon DEF Reopen
<1> QED BY <1>1, <1>2, <1>3, <1>4, <1>5, <1>6, <1>7 DEF DNext

\* A listener forked while none runs has the settings it is forked with.
LEMMA ForkSettings ==
    ASSUME FifoInv, AnonType, Settings, Idle, NEW c \in Cmds, NEW f \in Cmds, Fork(c, f), Forked,
           c.set, c.srdy => c.ver # 0, f.srdy => f.ver # 0
    PROVE  Settings'
<1>1. lis \in [Listeners -> Kids] /\ kids \subseteq Listeners /\ lost \in BOOLEAN
  BY DEF AnonType
<1>2. ~lost' => Present = {}
  BY DEF Forked
<1>3. ui.pc # "down"
  BY DEF Idle
<1>4. \A j \in Listeners : Fits(lis[j])
  BY DEF Settings
<1>5. ASSUME NEW k \in Unused, Flow(ui, kids \cup {k}, d, u2s, s2u),
             lis' = [lis EXCEPT ![k] = [NoKid EXCEPT !.pc = "listen", !.net = c.net,
                                          !.ver = c.ver, !.sub = c.sub]],
             cmd' = [c EXCEPT !.pid = k]
      PROVE  Settings'
  <2>1. k \in Listeners
    BY DEF Unused, Listeners
  <2>2. /\ cmd'.pid = k /\ cmd'.set = c.set /\ cmd'.net = c.net /\ cmd'.srdy = c.srdy
        /\ cmd'.ver = c.ver /\ cmd'.sub = c.sub
    BY <1>5 DEF Cmds
  <2>3. /\ lis'[k].up = FALSE /\ lis'[k].net = c.net /\ lis'[k].ver = c.ver
        /\ lis'[k].sub = c.sub
    BY <1>1, <1>5, <2>1 DEF NoKid
  <2>4. \A j \in Listeners : j # k => lis'[j] = lis[j]
    BY <1>1, <1>5, <2>1
  <2>5. ui'.pc = ui.pc /\ kids' = kids \cup {k}
    BY <1>5, FlowUI
  <2>6. \A j \in Listeners : Fits(lis'[j])
    BY <1>4, <2>3, <2>4 DEF Fits
  <2>7. ~lost' => \A j \in Present' : j = k
    BY <1>1, <1>2, <2>1, <2>4, <2>5 DEF Present
  <2> QED BY <1>3, <2>2, <2>3, <2>5, <2>6, <2>7 DEF Settings
<1>6. CASE Flow(ui, kids, d, u2s, s2u) /\ cmd' = [f EXCEPT !.pid = 0] /\ UNCHANGED lis
  <2>1. kids' = kids
    BY <1>6, FlowUI
  <2>2. cmd'.srdy = f.srdy /\ cmd'.ver = f.ver
    BY <1>6 DEF Cmds
  <2>3. ~lost' => Present' = {}
    BY <1>2, <1>6, <2>1 DEF Present
  <2> QED BY <1>4, <1>6, <2>2, <2>3 DEF Settings
<1> QED BY <1>5, <1>6 DEF Fork

\* A listener that has ended takes nothing from the others.
LEMMA ExitedSettings ==
    ASSUME AnonType, NEW k \in Listeners,
           \A j \in Listeners : Fits(lis[j])
    PROVE  /\ \A j \in Listeners : j # k => Exited(k)[j] = lis[j]
           /\ \A j \in Listeners : Fits(Exited(k)[j])
BY DEF AnonType, Exited, NoKid, Fits

\* OFF and quit tell the listener that runs to end.
LEMMA KillSettings ==
    ASSUME FifoInv, AnonType, Settings, NEW u, NEW c \in Cmds, KillListener(u, c), lost' = lost,
           c.srdy => c.ver # 0
    PROVE  Settings'
<1>1. kids' = kids /\ cmd' = [c EXCEPT !.pid = 0]
  BY DEF KillListener, Flow, Ends
<1>2. cmd'.srdy = c.srdy /\ cmd'.ver = c.ver
  BY <1>1 DEF Cmds
<1>3. lis \in [Listeners -> Kids] /\ kids \subseteq Listeners
  BY DEF AnonType
<1>4. ~lost => \A k \in Present : k = cmd.pid
  BY DEF Settings
<1>5. \A k \in Listeners : Fits(lis[k])
  BY DEF Settings
<1>6. (~lost' => Present' = {}) /\ \A k \in Listeners : Fits(lis'[k])
  <2>1. CASE cmd.pid \in kids
    <3>1. lis' = [lis EXCEPT ![cmd.pid].told = TRUE]
      BY <2>1 DEF KillListener
    <3>2. /\ lis'[cmd.pid] = [lis[cmd.pid] EXCEPT !.told = TRUE]
          /\ \A k \in Listeners : k # cmd.pid => lis'[k] = lis[k]
      BY <1>3, <2>1, <3>1
    <3>3. lis[cmd.pid] \in Kids
      BY <1>3, <2>1
    <3>4. lis'[cmd.pid].told /\ Fits(lis'[cmd.pid])
      BY <1>3, <1>5, <2>1, <3>2, <3>3 DEF Kids, Fits
    <3>5. ~lost' => Present' = {}
      BY <1>1, <1>3, <1>4, <3>2, <3>4 DEF Present
    <3> QED BY <1>5, <3>2, <3>4, <3>5
  <2>2. CASE cmd.pid \notin kids
    <3>1. lis' = lis
      BY <2>2 DEF KillListener
    <3>2. ~lost => Present = {}
      BY <1>4, <2>2 DEF Present
    <3> QED BY <1>1, <1>5, <3>1, <3>2 DEF Present
  <2> QED BY <2>1, <2>2
<1> QED BY <1>2, <1>6 DEF Settings

\* A listener keeps the settings it has.
LEMMA KeptSettings ==
    ASSUME AnonType, Settings, NEW k \in Listeners, NEW l, lis' = [lis EXCEPT ![k] = l],
           l.told = lis[k].told, l.net = lis[k].net, l.ver = lis[k].ver, l.sub = lis[k].sub,
           Fits(l),
           cmd' = cmd, kids' = kids, lost' = lost, ui'.pc = ui.pc
    PROVE  Settings'
<1>1. lis \in [Listeners -> Kids] /\ kids \subseteq Listeners
  BY DEF AnonType
<1>2. lis'[k] = l /\ \A j \in Listeners : j # k => lis'[j] = lis[j]
  BY <1>1
<1>3. \A j \in Listeners : /\ lis'[j].told = lis[j].told /\ lis'[j].net = lis[j].net
                           /\ lis'[j].ver = lis[j].ver /\ lis'[j].sub = lis[j].sub
  BY <1>2
<1>4. \A j \in Listeners : Fits(lis'[j])
  BY <1>2 DEF Settings
<1>5. cmd'.srdy => cmd'.ver # 0
  BY DEF Settings
<1>6. Present' = Present
  BY <1>1, <1>3 DEF Present
<1>7. ~lost' => \A j \in Present' :
         /\ j = cmd'.pid /\ cmd'.set /\ ui'.pc # "down"
         /\ cmd'.net /\ cmd'.srdy => lis'[j].net /\ lis'[j].ver = cmd'.ver /\ lis'[j].sub = cmd'.sub
  BY <1>1, <1>3, <1>6 DEF Settings, Present
<1> QED BY <1>4, <1>5, <1>7 DEF Settings

\* Every step keeps the settings of the only listener the present ones.
LEMMA SettingsNext == FifoInv /\ AnonType /\ Settings /\ [Next]_vars => Settings'
<1> SUFFICES ASSUME FifoInv, AnonType, Settings, [Next]_vars PROVE Settings'
  OBVIOUS
<1>1. /\ cmd \in Cmds /\ lis \in [Listeners -> Kids] /\ link \in Links
      /\ lost \in BOOLEAN /\ kids \subseteq Listeners
  BY DEF AnonType
<1>2. /\ cmd.srdy => cmd.ver # 0
      /\ \A k \in Listeners : Fits(lis[k])
      /\ ~lost => \A k \in Present :
           /\ k = cmd.pid /\ cmd.set /\ ui.pc # "down"
           /\ cmd.net /\ cmd.srdy => lis[k].net /\ lis[k].ver = cmd.ver /\ lis[k].sub = cmd.sub
  BY DEF Settings
<1>3. NoCmd \in Cmds /\ ~NoCmd.srdy
  BY NoneType DEF NoCmd
<1>4. CASE ui'.pc = ui.pc /\ UNCHANGED <<cmd, lis, lost, kids>>
  BY <1>2, <1>4 DEF Settings, Present
<1>5. ASSUME cmd' = NoCmd, lis' = lis, ~lost' => Present' = {} PROVE Settings'
  BY <1>2, <1>3, <1>5 DEF Settings
<1>6. CASE Start
  <2>1. ui.pc = "down" /\ kids' = kids
    BY <1>6 DEF Start, UIStart, Flow, Ends
  <2>2. cmd' = NoCmd /\ lis' = lis /\ lost' = lost
    BY <1>6 DEF Start
  <2>3. ~lost' => Present' = {}
    BY <1>2, <2>1, <2>2 DEF Present
  <2> QED BY <1>5, <2>2, <2>3
<1>7. CASE Quit
  BY <1>3, <1>7, KillSettings DEF Quit
<1>8. CASE Crash
  <2>1. kids' = kids
    BY <1>8 DEF Crash, UICrash, Flow, Ends
  <2>2. cmd' = NoCmd /\ lis' = lis /\ lost' = (lost \/ Present # {})
    BY <1>8 DEF Crash
  <2>3. ~lost' => Present' = {}
    BY <2>1, <2>2 DEF Present
  <2> QED BY <1>5, <2>2, <2>3
<1>9. CASE Request
  <2>1. kids' = kids /\ ui.pc # "down" /\ lis' = lis
    BY <1>9, RequestKids DEF Request
  <2>2. CASE ui'.pc = "down"
    <3>1. cmd' = NoCmd /\ lost' = (lost \/ Present # {})
      BY <1>9, <2>2 DEF Request
    <3>2. ~lost' => Present' = {}
      BY <2>1, <3>1 DEF Present
    <3> QED BY <1>5, <2>1, <3>1, <3>2
  <2>3. CASE ui'.pc # "down"
    <3>1. cmd' = cmd /\ lost' = lost
      BY <1>1, <1>9, <2>3 DEF Request
    <3>2. Present' = Present
      BY <2>1 DEF Present
    <3> QED BY <1>2, <2>1, <2>3, <3>1, <3>2 DEF Settings
  <2> QED BY <2>2, <2>3
<1>10. CASE System
  BY <1>4, <1>10, SystemKids DEF System, anonVars
<1>11. CASE AnonSetOff
  <2> DEFINE c == [cmd EXCEPT !.set = FALSE, !.net = FALSE, !.srdy = FALSE]
  <2>1. c \in Cmds /\ ~c.srdy
    BY <1>1 DEF Cmds
  <2>2. (KillListener(ui, c) /\ lost' = lost) \/ NotForked(cmd)
    BY <1>11 DEF AnonSetOff
  <2> HIDE DEF c
  <2>3. CASE KillListener(ui, c) /\ lost' = lost
    BY <2>1, <2>3, KillSettings
  <2>4. CASE NotForked(cmd)
    BY <1>4, <2>4 DEF NotForked
  <2> QED BY <2>2, <2>3, <2>4
<1>12. CASE AnonSetOn
  <2> DEFINE c == [cmd EXCEPT !.set = TRUE, !.net = FALSE, !.srdy = FALSE]
             f == [c EXCEPT !.set = FALSE]
  <2>1. c \in Cmds /\ c.set /\ ~c.srdy /\ f \in Cmds /\ ~f.srdy
    BY <1>1 DEF Cmds
  <2>2. Fork(c, f) /\ Forked /\ Idle
    BY <1>12 DEF AnonSetOn
  <2> HIDE DEF c, f
  <2> QED BY <2>1, <2>2, ForkSettings
<1>13. CASE AnonSetOnly
  <2> DEFINE c == [cmd EXCEPT !.set = TRUE, !.net = TRUE]
             f == [c EXCEPT !.set = FALSE, !.net = FALSE, !.srdy = FALSE]
  <2>1. c \in Cmds /\ c.set /\ c.srdy = cmd.srdy /\ c.ver = cmd.ver /\ c.pid = cmd.pid
    BY <1>1 DEF Cmds
  <2>2. (Fork(c, f) /\ Forked) \/ (~c.srdy /\ NotForked(c))
    BY <1>13 DEF AnonSetOnly
  <2>3. Idle
    BY <1>13 DEF AnonSetOnly
  <2> HIDE DEF c
  <2>4. f \in Cmds /\ ~f.srdy
    BY <2>1 DEF Cmds
  <2> HIDE DEF f
  <2>5. CASE Fork(c, f) /\ Forked
    BY <1>2, <2>1, <2>3, <2>4, <2>5, ForkSettings
  <2>6. CASE ~c.srdy /\ NotForked(c)
    <3>1. cmd' = c /\ UNCHANGED <<ui, kids, lis, lost>>
      BY <2>6 DEF NotForked
    <3>2. Present' = Present
      BY <3>1 DEF Present
    <3> QED BY <1>2, <2>1, <2>6, <3>1, <3>2 DEF Settings
  <2> QED BY <2>2, <2>5, <2>6
<1>14. ASSUME NEW v \in {4, 6}, AnonIpver(v) PROVE Settings'
  <2> DEFINE c == [cmd EXCEPT !.ver = v]
  <2>1. /\ c.srdy = cmd.srdy /\ c.ver = v /\ c.pid = cmd.pid /\ c.set = cmd.set
    BY <1>1 DEF Cmds
  <2>2. cmd' = c /\ UNCHANGED <<ui, kids, lis, lost>> /\ cmd.ver = 0
    BY <1>14 DEF AnonIpver, NotForked
  <2>3. ~cmd.srdy
    BY <1>2, <2>2
  <2> HIDE DEF c
  <2>4. Present' = Present
    BY <2>2 DEF Present
  <2> QED BY <1>2, <2>1, <2>2, <2>3, <2>4 DEF Settings
<1>15. ASSUME NEW s \in Subnets, AnonNet(s) PROVE Settings'
  <2> DEFINE c == [cmd EXCEPT !.srdy = TRUE, !.sub = s, !.ver = IF @ = 0 THEN 4 ELSE @]
             f == [c EXCEPT !.set = FALSE, !.net = FALSE, !.srdy = FALSE]
  <2>1. c \in Cmds /\ c.ver # 0 /\ c.set = cmd.set
    <3>1. PICK v \in {4, 6} : v = IF cmd.ver = 0 THEN 4 ELSE cmd.ver
      BY <1>1 DEF Cmds, Vers
    <3>2. c = [cmd EXCEPT !.srdy = TRUE, !.sub = s, !.ver = v]
      BY <1>1, <3>1 DEF Cmds
    <3>3. v \in Vers /\ s \in Nets /\ v # 0
      BY DEF Vers, Nets
    <3> QED BY <1>1, <3>2, <3>3 DEF Cmds
  <2>2. (c.set /\ Fork(c, f) /\ Forked) \/ (~c.set /\ NotForked(c))
    BY <1>15 DEF AnonNet
  <2>3. Idle
    BY <1>15 DEF AnonNet
  <2> HIDE DEF c
  <2>4. f \in Cmds /\ ~f.srdy
    BY <2>1 DEF Cmds
  <2> HIDE DEF f
  <2>5. CASE c.set /\ Fork(c, f) /\ Forked
    BY <2>1, <2>3, <2>4, <2>5, ForkSettings
  <2>6. CASE ~c.set /\ NotForked(c)
    <3>1. cmd' = c /\ UNCHANGED <<ui, kids, lis, lost>>
      BY <2>6 DEF NotForked
    <3>2. ~lost' => Present' = {}
      BY <1>2, <2>1, <2>6, <3>1 DEF Present
    <3> QED BY <1>2, <2>1, <3>1, <3>2 DEF Settings
  <2> QED BY <2>2, <2>5, <2>6
<1>16. ASSUME NEW id, AnonDef(id) \/ AnonAccept(id) PROVE Settings'
  BY <1>16, <1>4 DEF AnonDef, AnonAccept, Keep, fifoVars
<1>17. ASSUME NEW k \in Listeners, Exit(k) PROVE Settings'
  <2>1. ui'.pc = ui.pc /\ kids' = kids \ {k}
    BY <1>17, FlowUI DEF Exit
  <2>2. lis' = Exited(k) /\ cmd' = cmd /\ lost' = lost
    BY <1>17 DEF Exit
  <2>3. /\ \A j \in Listeners : j # k => lis'[j] = lis[j]
        /\ \A j \in Listeners : Fits(lis'[j])
    BY <1>2, <2>2, ExitedSettings
  <2>4. \A j \in Present' : j \in Present /\ lis'[j] = lis[j]
    BY <1>1, <2>1, <2>3 DEF Present
  <2> QED BY <1>2, <2>1, <2>2, <2>3, <2>4 DEF Settings
<1>18. ASSUME NEW k \in Listeners, Listen(k), ~Exit(k) PROVE Settings'
  <2>1. /\ lis' = [lis EXCEPT ![k] = [lis[k] EXCEPT !.pc = "loop"]]
        /\ UNCHANGED <<cmd, ui, kids, lost>>
    BY <1>18 DEF Listen, fifoVars
  <2>2. lis[k] \in Kids
    BY <1>1
  <2>3. \A l : l = [lis[k] EXCEPT !.pc = "loop"] =>
          l.told = lis[k].told /\ l.net = lis[k].net /\ l.ver = lis[k].ver /\ l.sub = lis[k].sub
          /\ l.up = lis[k].up /\ l.peer = lis[k].peer
    BY <2>2 DEF Kids
  <2>4. \A l : l = [lis[k] EXCEPT !.pc = "loop"] => Fits(l)
    BY <1>2, <2>3 DEF Fits
  <2> QED BY <2>1, <2>3, <2>4, KeptSettings
<1>19. ASSUME NEW k \in Listeners, NEW peer \in Peers, Connect(k, peer) PROVE Settings'
  <2>1. /\ lis' = [lis EXCEPT ![k].peer = peer, ![k].up = TRUE, ![k].last = <<>>]
        /\ UNCHANGED <<cmd, ui, kids, lost>>
    BY <1>19 DEF Connect, fifoVars
  <2>2. lis[k] \in Kids
    BY <1>1
  <2>3. PICK l : l = [lis[k] EXCEPT !.peer = peer, !.up = TRUE, !.last = <<>>]
    OBVIOUS
  <2>4. lis' = [lis EXCEPT ![k] = l]
    BY <1>1, <2>1, <2>3
  <2>5. /\ l.told = lis[k].told /\ l.net = lis[k].net /\ l.ver = lis[k].ver
        /\ l.sub = lis[k].sub /\ l.peer = peer
    BY <2>2, <2>3 DEF Kids
  <2>6. Fits(l)
    BY <1>19, <2>5 DEF Connect, Admits, Fits
  <2> QED BY <2>1, <2>4, <2>5, <2>6, KeptSettings
<1>20. ASSUME NEW k \in Listeners, NEW l, NEW rest, Received(k, l, rest),
              l.told = lis[k].told, l.net = lis[k].net, l.ver = lis[k].ver, l.sub = lis[k].sub,
              l.peer = lis[k].peer, l.up => lis[k].up
       PROVE  Settings'
  <2>1. lis' = [lis EXCEPT ![k] = l] /\ UNCHANGED <<cmd, ui, kids, lost>>
    BY <1>20 DEF Received, fifoVars
  <2>2. Fits(l)
    BY <1>2, <1>20 DEF Fits
  <2> QED BY <1>20, <2>1, <2>2, KeptSettings
<1>21. ASSUME NEW k \in Listeners, Receive(k) \/ ReadLength(k) \/ ReadData(k) \/ EndSession(k)
       PROVE  Settings'
  <2>1. lis[k] \in Kids
    BY <1>1
  <2>2. CASE Receive(k)
    <3>1. \A l : l = [lis[k] EXCEPT !.pc = "length", !.idx = 0, !.got = <<>>, !.last = <<>>] =>
            l.told = lis[k].told /\ l.net = lis[k].net /\ l.ver = lis[k].ver /\ l.sub = lis[k].sub
            /\ l.up = lis[k].up /\ l.peer = lis[k].peer
      BY <2>1 DEF Kids
    <3> QED BY <1>20, <2>2, <3>1 DEF Receive
  <2>3. CASE ReadLength(k)
    <3> DEFINE read == lis[k].idx + Len(Chunk)
               idx == IF read > 3 THEN 3 ELSE read
               l == [lis[k] EXCEPT !.idx = idx]
    <3>1. l.told = lis[k].told /\ l.net = lis[k].net /\ l.ver = lis[k].ver /\ l.sub = lis[k].sub
          /\ l.up = lis[k].up /\ l.peer = lis[k].peer
          /\ l = [pc |-> lis[k].pc, told |-> lis[k].told, net |-> lis[k].net, ver |-> lis[k].ver,
                  sub |-> lis[k].sub, peer |-> lis[k].peer, up |-> lis[k].up, idx |-> idx,
                  got |-> lis[k].got, last |-> lis[k].last]
      BY <2>1 DEF Kids
    <3>2. \/ Received(k, l, Rest(link.in, Len(Chunk)))
          \/ Received(k, [l EXCEPT !.pc = "data"], Rest(link.in, Len(Chunk)))
          \/ Received(k, Stopped(l), <<>>)
      BY <2>3 DEF ReadLength
    <3> HIDE DEF l
    <3>3. \A m : m = [l EXCEPT !.pc = "data"] \/ m = Stopped(l) =>
            m.told = lis[k].told /\ m.net = lis[k].net /\ m.ver = lis[k].ver /\ m.sub = lis[k].sub
            /\ (m.up => lis[k].up) /\ m.peer = lis[k].peer
      BY <3>1 DEF Stopped
    <3> QED BY <1>20, <3>1, <3>2, <3>3
  <2>4. CASE ReadData(k)
    <3>1. \A got, l : l = [lis[k] EXCEPT !.pc = "loop", !.got = <<>>, !.last = got]
                      \/ l = [lis[k] EXCEPT !.got = got] =>
            l.told = lis[k].told /\ l.net = lis[k].net /\ l.ver = lis[k].ver /\ l.sub = lis[k].sub
            /\ l.up = lis[k].up /\ l.peer = lis[k].peer
      BY <2>1 DEF Kids
    <3>2. \E got, l : /\ Received(k, l, Rest(link.in, Len(Chunk)))
                      /\ \/ l = [lis[k] EXCEPT !.pc = "loop", !.got = <<>>, !.last = got]
                         \/ l = [lis[k] EXCEPT !.got = got]
      BY <2>4 DEF ReadData
    <3> QED BY <1>20, <3>1, <3>2
  <2>5. CASE EndSession(k)
    <3>1. \A l : l = [Stopped(lis[k]) EXCEPT !.last = lis[k].got] =>
            l.told = lis[k].told /\ l.net = lis[k].net /\ l.ver = lis[k].ver /\ l.sub = lis[k].sub
            /\ ~l.up /\ l.peer = lis[k].peer
      BY <2>1 DEF Kids, Stopped
    <3> QED BY <1>20, <2>5, <3>1 DEF EndSession
  <2> QED BY <1>21, <2>2, <2>3, <2>4, <2>5
<1>22. CASE Transmit \/ Arrive
  BY <1>22, <1>4 DEF Transmit, Arrive, fifoVars
<1>23. CASE UNCHANGED vars
  BY <1>23, <1>4 DEF vars, anonVars, fifoVars
<1>24. ASSUME NEW k \in Listeners, NEW peer \in Peers, ConnectFailed(k, peer) PROVE Settings'
  <2>1. /\ lis' = [lis EXCEPT ![k] = [Stopped(lis[k]) EXCEPT !.peer = peer]]
        /\ UNCHANGED <<cmd, ui, kids, lost>>
    BY <1>1, <1>24 DEF ConnectFailed, fifoVars
  <2>2. lis[k] \in Kids
    BY <1>1
  <2>3. \A l : l = [Stopped(lis[k]) EXCEPT !.peer = peer] =>
          l.told = lis[k].told /\ l.net = lis[k].net /\ l.ver = lis[k].ver /\ l.sub = lis[k].sub
          /\ ~l.up
    BY <2>2 DEF Kids, Stopped
  <2> QED BY <2>1, <2>3, KeptSettings DEF Fits
<1>25. ASSUME NEW k \in Listeners,
              \/ Listen(k) \/ Receive(k) \/ ReadLength(k) \/ ReadData(k) \/ EndSession(k) \/ Die(k)
              \/ \E peer \in Peers : Connect(k, peer) \/ ConnectFailed(k, peer)
       PROVE  Settings'
  BY <1>17, <1>18, <1>19, <1>21, <1>24, <1>25 DEF Die
<1> QED BY <1>6, <1>7, <1>8, <1>9, <1>10, <1>11, <1>12, <1>13, <1>14, <1>15, <1>16,
           <1>22, <1>23, <1>25 DEF Next, Listeners

-----------------------------------------------------------------------------
(* The sessions                                                            *)

\* The bytes of a message follow each other.
LEMMA MessageChain ==
    ASSUME NEW m \in 1 .. MaxMsgs
    PROVE  /\ SubSeq(Message(m), 1, 4) \in Seq(Bits) /\ Len(SubSeq(Message(m), 1, 4)) = 4
           /\ \A i \in 1 .. 4 : SubSeq(Message(m), 1, 4)[i] = <<m, i>>
           /\ Chain(SubSeq(Message(m), 1, 4))
<1>1. Message(m) \in Seq(Bits) /\ Len(Message(m)) = 4 /\ \A i \in 1 .. 4 : Message(m)[i] = <<m, i>>
  BY DEF Message, Bits
<1>2. PICK q : q = SubSeq(Message(m), 1, 4)
  OBVIOUS
<1>3. q \in Seq(Bits) /\ Len(q) = 4 /\ \A i \in 1 .. 4 : q[i] = Message(m)[i]
  <2>1. PICK w \in Seq(Bits) : w = Message(m) /\ Len(w) = 4
    BY <1>1, Zenon
  <2>2. \A n \in Nat : n <= Len(w) => /\ SubSeq(w, 1, n) \in Seq(Bits) /\ Len(SubSeq(w, 1, n)) = n
                                      /\ \A i \in 1 .. n : SubSeq(w, 1, n)[i] = w[i]
    OBVIOUS
  <2>3. 4 \in Nat /\ 4 <= Len(w)
    BY <2>1
  <2> QED BY <1>2, <2>1, <2>2, <2>3, Zenon
<1>4. \A i \in 1 .. 4 : q[i] = <<m, i>>
  BY <1>1, <1>3
<1>5. Chain(q)
  <2> SUFFICES ASSUME NEW i \in 1 .. 3 PROVE Follows(q[i], q[i + 1])
    BY <1>3 DEF Chain
  <2>1. q[i] = <<m, i>> /\ q[i + 1] = <<m, i + 1>> /\ i # 4
    BY <1>4
  <2> QED BY <2>1 DEF Follows
<1> QED BY <1>2, <1>3, <1>4, <1>5

\* Two chains that meet are a chain.
LEMMA ChainConcat ==
    ASSUME NEW p \in Seq(Bits), NEW q \in Seq(Bits), Chain(p), Chain(q), q # <<>>,
           p # <<>> => Follows(p[Len(p)], q[1])
    PROVE  /\ Chain(p \o q) /\ p \o q \in Seq(Bits) /\ p \o q # <<>>
           /\ (p \o q)[Len(p \o q)] = q[Len(q)]
           /\ (p \o q)[1] = IF p = <<>> THEN q[1] ELSE p[1]
<1>1. PICK m \in Nat : m = Len(p) /\ (m = 0 <=> p = <<>>)
  OBVIOUS
<1>2. PICK n \in Nat : n = Len(q) /\ n # 0
  OBVIOUS
<1>3. PICK r \in Seq(Bits) : r = p \o q
  <2>1. p \o q \in Seq(Bits)
    OBVIOUS
  <2> QED BY <2>1, Zenon
<1>4. /\ Len(r) = m + n /\ (\A i \in 1 .. m : r[i] = p[i])
      /\ \A i \in (m + 1) .. (m + n) : r[i] = q[i - m]
  BY <1>1, <1>2, <1>3
<1>5. Chain(r)
  <2> SUFFICES ASSUME NEW i \in 1 .. (m + n - 1) PROVE Follows(r[i], r[i + 1])
    BY <1>4 DEF Chain
  <2>1. CASE i < m
    <3>1. r[i] = p[i] /\ r[i + 1] = p[i + 1] /\ i \in 1 .. (m - 1)
      BY <1>4, <2>1
    <3> QED BY <1>1, <3>1 DEF Chain
  <2>2. CASE i = m
    <3>1. r[i] = p[m] /\ r[i + 1] = q[1] /\ m # 0
      BY <1>2, <1>4, <2>2
    <3> QED BY <1>1, <3>1
  <2>3. CASE i > m
    <3>1. r[i] = q[i - m] /\ r[i + 1] = q[i - m + 1] /\ i - m \in 1 .. (n - 1)
      BY <1>4, <2>3
    <3> QED BY <1>2, <3>1 DEF Chain
  <2> QED BY <2>1, <2>2, <2>3
<1>6. r # <<>>
  BY <1>2, <1>3, <1>4
<1>7. r[Len(r)] = q[n]
  BY <1>2, <1>4
<1>8. r[1] = IF p = <<>> THEN q[1] ELSE p[1]
  BY <1>1, <1>2, <1>4
<1> QED BY <1>2, <1>3, <1>5, <1>6, <1>7, <1>8

\* The two parts of a chain.
LEMMA ChainSplit ==
    ASSUME NEW q \in Seq(Bits), Chain(q), NEW n \in 1 .. Len(q)
    PROVE  /\ SubSeq(q, 1, n) \in Seq(Bits) /\ Chain(SubSeq(q, 1, n)) /\ SubSeq(q, 1, n) # <<>>
           /\ SubSeq(q, 1, n)[1] = q[1]
           /\ SubSeq(q, 1, n)[Len(SubSeq(q, 1, n))] = q[n]
           /\ Rest(q, n) \in Seq(Bits) /\ Chain(Rest(q, n)) /\ (Rest(q, n) = <<>> <=> n = Len(q))
           /\ Rest(q, n) # <<>> => /\ Rest(q, n)[1] = q[n + 1] /\ Follows(q[n], q[n + 1])
                                   /\ Rest(q, n)[Len(Rest(q, n))] = q[Len(q)]
<1>1. PICK m \in Nat : m = Len(q) /\ n <= m
  OBVIOUS
<1>2. n \in Nat /\ n >= 1
  OBVIOUS
<1>3. PICK a : a = SubSeq(q, 1, n)
  OBVIOUS
<1>4. a \in Seq(Bits) /\ Len(a) = n /\ \A i \in 1 .. n : a[i] = q[i]
  BY <1>1, <1>2, <1>3
<1>5. PICK b : b = Rest(q, n)
  OBVIOUS
<1>6. b \in Seq(Bits) /\ Len(b) = m - n /\ \A i \in 1 .. (m - n) : b[i] = q[i + n]
  BY <1>1, <1>2, <1>5 DEF Rest
<1>7. Chain(a)
  <2> SUFFICES ASSUME NEW i \in 1 .. (n - 1) PROVE Follows(a[i], a[i + 1])
    BY <1>4 DEF Chain
  <2>1. a[i] = q[i] /\ a[i + 1] = q[i + 1] /\ i \in 1 .. (m - 1)
    BY <1>1, <1>2, <1>4
  <2> QED BY <1>1, <2>1 DEF Chain
<1>8. Chain(b)
  <2> SUFFICES ASSUME NEW i \in 1 .. (m - n - 1) PROVE Follows(b[i], b[i + 1])
    BY <1>6 DEF Chain
  <2>1. b[i] = q[i + n] /\ b[i + 1] = q[i + n + 1] /\ i + n \in 1 .. (m - 1)
    BY <1>1, <1>2, <1>6
  <2> QED BY <1>1, <2>1 DEF Chain
<1>9. a # <<>> /\ a[1] = q[1] /\ a[Len(a)] = q[n]
  BY <1>2, <1>4
<1>10. b = <<>> <=> n = m
  BY <1>1, <1>6
<1>11. ASSUME b # <<>> PROVE b[1] = q[n + 1] /\ Follows(q[n], q[n + 1]) /\ b[Len(b)] = q[m]
  <2>1. n < m
    BY <1>1, <1>10, <1>11
  <2>2. b[1] = q[n + 1] /\ b[m - n] = q[m]
    <3>1. 1 \in 1 .. (m - n) /\ m - n \in 1 .. (m - n) /\ 1 + n = n + 1 /\ m - n + n = m
      BY <1>1, <1>2, <2>1
    <3>2. b[1] = q[1 + n]
      BY <1>6, <3>1
    <3>3. b[m - n] = q[m - n + n]
      BY <1>6, <3>1
    <3> QED BY <3>1, <3>2, <3>3
  <2>3. n \in 1 .. (m - 1)
    BY <1>2, <2>1
  <2> QED BY <1>1, <1>6, <2>2, <2>3 DEF Chain
<1> QED BY <1>1, <1>3, <1>4, <1>5, <1>6, <1>7, <1>8, <1>9, <1>10, <1>11

\* A whole message sent after whole messages.
LEMMA StreamTransmit ==
    ASSUME NEW in \in Seq(Bits), NEW wire \in Seq(Bits), NEW first \in {1, 3},
           Stream(in, wire, first), NEW m \in 1 .. MaxMsgs
    PROVE  Stream(in, wire \o SubSeq(Message(m), 1, 4), first)
<1>1. PICK q \in Seq(Bits) : q = SubSeq(Message(m), 1, 4) /\ q[1] = <<m, 1>> /\ q[4] = <<m, 4>>
                             /\ Len(q) = 4 /\ Chain(q)
  <2>1. 1 \in 1 .. 4 /\ 4 \in 1 .. 4
    OBVIOUS
  <2> QED BY <2>1, MessageChain
<1>2. q # <<>> /\ q[1][2] = 1 /\ q[Len(q)][2] = 4
  <2>1. Len(q) # 0 /\ Len(<<>>) = 0
    BY <1>1
  <2>2. <<m, 1>>[2] = 1 /\ <<m, 4>>[2] = 4
    OBVIOUS
  <2> QED BY <1>1, <2>1, <2>2
<1>3. \A a : a[2] = 4 => Follows(a, q[1])
  BY <1>2 DEF Follows
<1>4. wire # <<>> => Follows(wire[Len(wire)], q[1])
  BY <1>3 DEF Stream
<1>5. PICK w : w = wire \o q
  OBVIOUS
<1>6. /\ Chain(w) /\ w # <<>> /\ w[Len(w)] = q[Len(q)]
      /\ w[1] = IF wire = <<>> THEN q[1] ELSE wire[1]
  BY <1>1, <1>2, <1>4, <1>5, ChainConcat DEF Stream
<1>7. in # <<>> => Follows(in[Len(in)], w[1])
  BY <1>3, <1>6 DEF Stream
<1>8. in = <<>> => w[1][2] = first
  BY <1>2, <1>6 DEF Stream
<1>9. Stream(in, w, first)
  BY <1>2, <1>6, <1>7, <1>8 DEF Stream
<1> QED BY <1>1, <1>5, <1>9

\* Bytes that arrive in whole lengths and whole data.
LEMMA StreamArrive ==
    ASSUME NEW in \in Seq(Bits), NEW wire \in Seq(Bits), NEW first \in {1, 3},
           Stream(in, wire, first), NEW n \in 1 .. Len(wire), wire[n][2] \notin {1, 3}
    PROVE  Stream(in \o SubSeq(wire, 1, n), Rest(wire, n), first)
<1>1. Chain(in) /\ Chain(wire)
  BY DEF Stream
<1>2. PICK a : a = SubSeq(wire, 1, n)
  OBVIOUS
<1>3. PICK b : b = Rest(wire, n)
  OBVIOUS
<1>4. /\ a \in Seq(Bits) /\ Chain(a) /\ a # <<>> /\ a[1] = wire[1] /\ a[Len(a)] = wire[n]
      /\ Chain(b) /\ (b = <<>> <=> n = Len(wire))
      /\ b # <<>> => b[1] = wire[n + 1] /\ Follows(wire[n], wire[n + 1])
                     /\ b[Len(b)] = wire[Len(wire)]
  BY <1>1, <1>2, <1>3, ChainSplit
<1>5. wire # <<>>
  OBVIOUS
<1>6. in # <<>> => Follows(in[Len(in)], a[1])
  BY <1>4, <1>5 DEF Stream
<1>7. PICK c : c = in \o a
  OBVIOUS
<1>8. /\ Chain(c) /\ c # <<>> /\ c[Len(c)] = wire[n]
      /\ c[1] = IF in = <<>> THEN wire[1] ELSE in[1]
  BY <1>1, <1>4, <1>6, <1>7, ChainConcat
<1>9. wire[n][2] \in {2, 4}
  <2>1. wire[n] \in Bits
    OBVIOUS
  <2>2. wire[n][2] \in 1 .. 4
    BY <2>1 DEF Bits
  <2> QED BY <2>2
<1>10. c[1][2] = first
  BY <1>5, <1>8 DEF Stream
<1>11. wire[Len(wire)][2] = 4
  BY <1>5 DEF Stream
<1>12. Stream(c, b, first)
  BY <1>4, <1>8, <1>9, <1>10, <1>11 DEF Stream
<1> QED BY <1>2, <1>3, <1>7, <1>12

\* A read of two bytes takes a length or data, whole.
LEMMA StreamRead ==
    ASSUME NEW in \in Seq(Bits), NEW wire \in Seq(Bits), NEW first \in {1, 3},
           Stream(in, wire, first), in # <<>>
    PROVE  /\ Len(in) >= 2
           /\ Stream(Rest(in, 2), wire, IF first = 1 THEN 3 ELSE 1)
           /\ first = 3 => \E m \in 1 .. MaxMsgs : SubSeq(in, 1, 2) = <<<<m, 3>>, <<m, 4>>>>
<1>1. Chain(in) /\ Chain(wire) /\ in[1][2] = first /\ in[Len(in)][2] \in {2, 4}
  BY DEF Stream
<1>2. PICK n \in Nat : n = Len(in) /\ n # 0
  OBVIOUS
<1>3. n # 1
  BY <1>1, <1>2
<1>4. n >= 2 /\ 2 \in 1 .. Len(in) /\ 1 \in 1 .. (n - 1) /\ 1 \in 1 .. Len(in)
  BY <1>2, <1>3
<1>5. Follows(in[1], in[2])
  BY <1>1, <1>2, <1>4 DEF Chain
<1>6. PICK m \in 1 .. MaxMsgs : in[1] = <<m, first>>
  <2>1. in[1] \in Bits
    BY <1>4
  <2>2. in[1] = <<in[1][1], in[1][2]>> /\ in[1][1] \in 1 .. MaxMsgs
    BY <2>1 DEF Bits
  <2> QED BY <1>1, <2>2
<1>7. in[2] = <<m, first + 1>>
  <2>1. in[2] \in Bits
    BY <1>4
  <2>2. in[2][1] = m /\ in[2][2] = first + 1
    BY <1>5, <1>6 DEF Follows
  <2> QED BY <2>1, <2>2 DEF Bits
<1>8. SubSeq(in, 1, 2) = <<in[1], in[2]>>
  <2>1. PICK a : a = SubSeq(in, 1, 2)
    OBVIOUS
  <2>2. a \in Seq(Bits) /\ Len(a) = 2 /\ a[1] = in[1] /\ a[2] = in[2]
    BY <1>2, <1>4, <2>1
  <2>3. a = <<in[1], in[2]>>
    BY <2>2
  <2> QED BY <2>1, <2>3
<1>9. PICK b : b = Rest(in, 2)
  OBVIOUS
<1>10. /\ Chain(b) /\ (b = <<>> <=> 2 = Len(in))
       /\ b # <<>> => b[1] = in[3] /\ Follows(in[2], in[3]) /\ b[Len(b)] = in[Len(in)]
  <2>1. /\ Chain(b) /\ (b = <<>> <=> 2 = Len(in))
        /\ b # <<>> => b[1] = in[2 + 1] /\ Follows(in[2], in[2 + 1]) /\ b[Len(b)] = in[Len(in)]
    BY <1>1, <1>4, <1>9, ChainSplit, Zenon
  <2>2. 2 + 1 = 3
    OBVIOUS
  <2> QED BY <2>1, <2>2
<1>11. PICK next \in {1, 3} : next = IF first = 1 THEN 3 ELSE 1
  OBVIOUS
<1>12. \A a : Follows(in[2], a) => a[2] = next
  BY <1>7, <1>11 DEF Follows
<1>13. b # <<>> => b[1][2] = next
  BY <1>10, <1>12
<1>14. b = <<>> /\ wire # <<>> => wire[1][2] = next
  BY <1>10, <1>12 DEF Stream
<1>15. b = <<>> /\ wire = <<>> => next = 1
  <2> SUFFICES ASSUME b = <<>>, wire = <<>> PROVE next = 1
    OBVIOUS
  <2>1. in[2][2] = 4
    BY <1>10 DEF Stream
  <2> QED BY <1>7, <1>11, <2>1
<1>16. Stream(b, wire, next)
  BY <1>1, <1>10, <1>13, <1>14, <1>15 DEF Stream
<1>17. first = 3 => SubSeq(in, 1, 2) = <<<<m, 3>>, <<m, 4>>>>
  BY <1>6, <1>7, <1>8
<1> QED BY <1>2, <1>4, <1>9, <1>11, <1>16, <1>17

\* Every step of another listener, or of none, keeps the session.
LEMMA FramingKept ==
    ASSUME AnonType, Framing, link' = link,
           \A j \in Listeners : lis'[j] = lis[j] \/ (~lis'[j].up /\ lis'[j].got = <<>>)
    PROVE  Framing'
BY DEF Framing

\* The end of a listener or of its session.
LEMMA FramingEnded ==
    ASSUME AnonType, Framing, NEW k \in Listeners, ~lis'[k].up, lis'[k].got = <<>>,
           \A j \in Listeners : j # k => lis'[j] = lis[j],
           link' = NoLink \/ link' = link, link' = NoLink => link.to = k \/ link.to = 0
    PROVE  Framing'
<1>1. CASE link' = link
  BY <1>1, FramingKept
<1>2. CASE link' = NoLink
  <2>1. k # 0 /\ \A j \in Listeners : j # 0
    BY DEF Listeners
  <2>2. \A j \in Listeners : ~lis'[j].up /\ lis'[j].got = <<>>
    BY <1>2, <2>1 DEF Framing
  <2> QED BY <2>2 DEF Framing
<1> QED BY <1>1, <1>2

\* What a listener that goes on with its session has read.
LEMMA FramingReceived ==
    ASSUME AnonType, Framing, NEW k \in Listeners, NEW l \in Kids, NEW rest \in Seq(Bits),
           Received(k, l, rest), lis[k].up, link.to = k,
           l.up /\ ~link.cut => Session(l, rest, link.wire), ~l.up => l.got = <<>>
    PROVE  Framing'
<1>1. lis \in [Listeners -> Kids] /\ link \in Links
  BY DEF AnonType
<1>2. lis'[k] = l /\ \A j \in Listeners : j # k => lis'[j] = lis[j]
  BY <1>1 DEF Received
<1>3. CASE l.up
  <2>1. link' = [link EXCEPT !.in = rest]
    BY <1>3 DEF Received
  <2>2. link'.to = k /\ link'.in = rest /\ link'.wire = link.wire /\ link'.cut = link.cut
    BY <1>1, <2>1 DEF Links
  <2>3. \A j \in Listeners : j # k => ~lis'[j].up /\ lis'[j].got = <<>>
    BY <1>2 DEF Framing
  <2> QED BY <1>2, <1>3, <2>2, <2>3 DEF Framing
<1>4. CASE ~l.up
  <2>1. link' = NoLink
    BY <1>4 DEF Received
  <2> QED BY <1>2, <1>4, <2>1, FramingEnded
<1> QED BY <1>3, <1>4

\* net_receive: what it reads is whole, when what arrives is.
LEMMA FramingRead ==
    ASSUME AnonType, Framing, NEW k \in Listeners,
           Receive(k) \/ ReadLength(k) \/ ReadData(k) \/ EndSession(k)
    PROVE  Framing'
<1>1. lis[k] \in Kids /\ link \in Links /\ link.in \in Seq(Bits) /\ link.wire \in Seq(Bits)
  BY DEF AnonType, Links
<1>2. ASSUME lis[k].up PROVE link.to = k /\ (~link.cut => Session(lis[k], link.in, link.wire))
  BY <1>2 DEF Framing
<1>3. Chunk \in Seq(Bits) /\ Len(Chunk) \in Nat
      /\ (Len(link.in) >= 2 => Chunk = SubSeq(link.in, 1, 2) /\ Len(Chunk) = 2)
  BY <1>1, ChunkLen
<1>4. \A n \in Nat : Rest(link.in, n) \in Seq(Bits)
  BY <1>1, ChunkType
<1>5. <<>> \in Seq(Bits)
  OBVIOUS
<1>6. CASE Receive(k)
  <2> DEFINE l == [lis[k] EXCEPT !.pc = "length", !.idx = 0, !.got = <<>>, !.last = <<>>]
  <2>1. /\ l \in Kids /\ l.pc = "length" /\ l.idx = 0 /\ l.got = <<>> /\ l.last = <<>>
        /\ l.up = lis[k].up
    BY <1>1, <1>5 DEF Kids
  <2>2. lis[k].pc = "loop" /\ lis[k].up /\ link.to = k /\ Received(k, l, link.in)
    BY <1>6 DEF Receive, Working
  <2> HIDE DEF l
  <2>3. ASSUME ~link.cut PROVE Session(l, link.in, link.wire)
    BY <1>2, <2>1, <2>2, <2>3 DEF Session, Whole
  <2> QED BY <1>1, <2>1, <2>2, <2>3, FramingReceived
<1>7. CASE ReadLength(k)
  <2> DEFINE read == lis[k].idx + Len(Chunk)
             idx == IF read > 3 THEN 3 ELSE read
             l == [lis[k] EXCEPT !.idx = idx]
  <2>1. lis[k].pc = "length" /\ lis[k].up /\ link.to = k /\ link.in # <<>>
    BY <1>7 DEF ReadLength, Working
  <2>2. \/ read # 2 /\ Received(k, l, Rest(link.in, Len(Chunk)))
        \/ read = 2 /\ Received(k, [l EXCEPT !.pc = "data"], Rest(link.in, Len(Chunk)))
        \/ lis[k].idx = 1 /\ Received(k, Stopped(l), <<>>)
    BY <1>7 DEF ReadLength
  <2>3. idx \in Nat
    <3>1. lis[k].idx \in Nat
      BY <1>1 DEF Kids
    <3> QED BY <1>3, <3>1
  <2>4. ASSUME ~link.cut
        PROVE  /\ read = 2 /\ lis[k].idx = 0 /\ Len(Chunk) = 2
               /\ lis[k].got = <<>> /\ Whole(lis[k].last)
               /\ Stream(Rest(link.in, 2), link.wire, 3)
    <3>1. Session(lis[k], link.in, link.wire)
      BY <1>2, <2>1, <2>4
    <3>2. /\ lis[k].idx = 0 /\ lis[k].got = <<>> /\ Whole(lis[k].last)
          /\ Stream(link.in, link.wire, 1)
      BY <2>1, <3>1 DEF Session
    <3>3. Len(link.in) >= 2 /\ Stream(Rest(link.in, 2), link.wire, 3)
      BY <1>1, <2>1, <3>2, StreamRead
    <3> QED BY <1>3, <3>2, <3>3
  <2> HIDE DEF idx, read
  <2>5. /\ l \in Kids /\ l.pc = "length" /\ l.idx = idx /\ l.got = lis[k].got
        /\ l.last = lis[k].last /\ l.up = lis[k].up
    BY <1>1, <2>1, <2>3 DEF Kids
  <2> HIDE DEF l
  <2>6. CASE read # 2 /\ Received(k, l, Rest(link.in, Len(Chunk)))
    <3>1. link.cut
      BY <2>4, <2>6
    <3> QED BY <1>3, <1>4, <2>1, <2>5, <2>6, <3>1, FramingReceived
  <2>7. CASE Received(k, [l EXCEPT !.pc = "data"], Rest(link.in, Len(Chunk)))
    <3> DEFINE m == [l EXCEPT !.pc = "data"]
    <3>1. /\ m \in Kids /\ m.pc = "data" /\ m.got = lis[k].got /\ m.last = lis[k].last
          /\ m.up = lis[k].up
      BY <2>5 DEF Kids
    <3>2. Received(k, m, Rest(link.in, Len(Chunk)))
      BY <2>7
    <3> HIDE DEF m
    <3>3. ASSUME ~link.cut PROVE Session(m, Rest(link.in, Len(Chunk)), link.wire)
      BY <2>4, <3>1, <3>3 DEF Session
    <3> QED BY <1>3, <1>4, <2>1, <3>1, <3>2, <3>3, FramingReceived
  <2>8. CASE lis[k].idx = 1 /\ Received(k, Stopped(l), <<>>)
    <3>1. link.cut
      BY <2>4, <2>8
    <3>2. Stopped(l) \in Kids /\ Stopped(l).got = <<>>
      BY <1>5, <2>5 DEF Kids, Stopped
    <3> QED BY <1>5, <2>1, <2>8, <3>1, <3>2, FramingReceived
  <2> QED BY <2>2, <2>6, <2>7, <2>8
<1>8. CASE ReadData(k)
  <2> DEFINE got == lis[k].got \o Chunk
             l == [lis[k] EXCEPT !.pc = "loop", !.got = <<>>, !.last = got]
             m == [lis[k] EXCEPT !.got = got]
  <2>1. lis[k].pc = "data" /\ lis[k].up /\ link.to = k /\ link.in # <<>>
    BY <1>8 DEF ReadData, Working
  <2>2. IF Len(got) = 2 THEN Received(k, l, Rest(link.in, Len(Chunk)))
                        ELSE Received(k, m, Rest(link.in, Len(Chunk)))
    BY <1>8 DEF ReadData
  <2>3. got \in Seq(Bits)
    BY <1>1, <1>3 DEF Kids
  <2>4. ASSUME ~link.cut
        PROVE  /\ Len(got) = 2 /\ Len(Chunk) = 2 /\ Whole(got)
               /\ Stream(Rest(link.in, 2), link.wire, 1)
    <3>1. Session(lis[k], link.in, link.wire)
      BY <1>2, <2>1, <2>4
    <3>2. lis[k].got = <<>> /\ Stream(link.in, link.wire, 3)
      BY <2>1, <3>1 DEF Session
    <3>3. /\ Len(link.in) >= 2 /\ Stream(Rest(link.in, 2), link.wire, 1)
          /\ \E i \in 1 .. MaxMsgs : SubSeq(link.in, 1, 2) = <<<<i, 3>>, <<i, 4>>>>
      BY <1>1, <2>1, <3>2, StreamRead
    <3>4. got = Chunk
      BY <1>3, <3>2
    <3> HIDE DEF got
    <3> QED BY <1>3, <3>3, <3>4 DEF Whole
  <2> HIDE DEF got
  <2>5. /\ l \in Kids /\ m \in Kids /\ l.pc = "loop" /\ l.got = <<>> /\ l.last = got
        /\ m.up = lis[k].up
    BY <1>1, <1>5, <2>3 DEF Kids
  <2> HIDE DEF l, m
  <2>6. CASE Len(got) = 2
    <3>1. Received(k, l, Rest(link.in, Len(Chunk)))
      BY <2>2, <2>6
    <3>2. ASSUME ~link.cut PROVE Session(l, Rest(link.in, Len(Chunk)), link.wire)
      BY <2>4, <2>5, <3>2 DEF Session
    <3> QED BY <1>3, <1>4, <2>1, <2>5, <3>1, <3>2, FramingReceived
  <2>7. CASE Len(got) # 2
    <3>1. Received(k, m, Rest(link.in, Len(Chunk))) /\ link.cut
      BY <2>2, <2>4, <2>7
    <3> QED BY <1>3, <1>4, <2>1, <2>5, <3>1, FramingReceived
  <2> QED BY <2>6, <2>7
<1>9. CASE EndSession(k)
  <2> DEFINE l == [Stopped(lis[k]) EXCEPT !.last = lis[k].got]
  <2>1. l \in Kids /\ ~l.up /\ l.got = <<>>
    BY <1>1, <1>5 DEF Kids, Stopped
  <2>2. lis[k].up /\ link.to = k /\ Received(k, l, <<>>)
    BY <1>9 DEF EndSession, Working
  <2> HIDE DEF l
  <2> QED BY <1>5, <2>1, <2>2, FramingReceived
<1> QED BY <1>6, <1>7, <1>8, <1>9

\* Every step keeps the framing of the session.
LEMMA FramingNext == FifoInv /\ AnonType /\ Framing /\ [Next]_vars => Framing'
<1> SUFFICES ASSUME FifoInv, AnonType, Framing, [Next]_vars PROVE Framing'
  OBVIOUS
<1>1. /\ lis \in [Listeners -> Kids] /\ link \in Links /\ kids \subseteq Listeners
  BY DEF AnonType
<1>2. CASE UNCHANGED <<lis, link>>
  BY <1>2, FramingKept
<1>3. ASSUME NEW k \in Listeners, lis' = Exited(k), link' = Unlinked(k) PROVE Framing'
  <2>1. /\ ~lis'[k].up /\ lis'[k].got = <<>>
        /\ \A j \in Listeners : j # k => lis'[j] = lis[j]
    BY <1>1, <1>3 DEF Exited, NoKid
  <2>2. (link' = NoLink /\ link.to = k) \/ link' = link
    BY <1>3 DEF Unlinked
  <2>3. CASE link' = NoLink /\ link.to = k
    BY <2>1, <2>3, FramingEnded
  <2>4. CASE link' = link
    BY <2>1, <2>4, FramingKept
  <2> QED BY <2>2, <2>3, <2>4
<1>4. ASSUME NEW u, NEW c, KillListener(u, c) PROVE Framing'
  <2>1. link' = link
    BY <1>4 DEF KillListener
  <2>2. CASE cmd.pid \in kids
    <3>1. cmd.pid \in Listeners /\ lis' = [lis EXCEPT ![cmd.pid].told = TRUE]
      BY <1>1, <1>4, <2>2 DEF KillListener
    <3>2. \A j \in Listeners :
            /\ lis'[j].up = lis[j].up /\ lis'[j].pc = lis[j].pc /\ lis'[j].idx = lis[j].idx
            /\ lis'[j].got = lis[j].got /\ lis'[j].last = lis[j].last
      BY <1>1, <3>1 DEF Kids
    <3>3. \A j \in Listeners : \A in, wire : Session(lis[j], in, wire) => Session(lis'[j], in, wire)
      BY <3>2 DEF Session
    <3> QED BY <2>1, <3>2, <3>3 DEF Framing
  <2>3. CASE cmd.pid \notin kids
    BY <1>2, <1>4, <2>3 DEF KillListener
  <2> QED BY <2>2, <2>3
<1>5. ASSUME NEW c, NEW f, Fork(c, f), link' = link PROVE Framing'
  <2>1. ASSUME NEW k \in Unused,
               lis' = [lis EXCEPT ![k] = [NoKid EXCEPT !.pc = "listen", !.net = c.net,
                                          !.ver = c.ver, !.sub = c.sub]]
        PROVE  Framing'
    <3>1. k \in Listeners
      BY DEF Unused, Listeners
    <3>2. \A j \in Listeners : lis'[j] = lis[j] \/ (~lis'[j].up /\ lis'[j].got = <<>>)
      BY <1>1, <2>1, <3>1 DEF NoKid
    <3> QED BY <1>5, <3>2, FramingKept
  <2> QED BY <1>2, <1>5, <2>1 DEF Fork
<1>6. CASE Start \/ Crash \/ Request \/ System
  BY <1>2, <1>6 DEF Start, Crash, Request, System, anonVars
<1>7. CASE Quit \/ AnonSetOff
  BY <1>2, <1>4, <1>7 DEF Quit, AnonSetOff, NotForked
<1>8. CASE AnonSetOn
  BY <1>5, <1>8 DEF AnonSetOn
<1>9. CASE AnonSetOnly
  BY <1>2, <1>5, <1>9 DEF AnonSetOnly, NotForked
<1>10. ASSUME NEW v, AnonIpver(v) PROVE Framing'
  BY <1>2, <1>10 DEF AnonIpver, NotForked
<1>11. ASSUME NEW s, AnonNet(s) PROVE Framing'
  BY <1>2, <1>5, <1>11 DEF AnonNet, NotForked
<1>12. ASSUME NEW id, AnonDef(id) \/ AnonAccept(id) PROVE Framing'
  BY <1>2, <1>12 DEF AnonDef, AnonAccept, Keep
<1>13. ASSUME NEW k \in Listeners, Exit(k) PROVE Framing'
  BY <1>3, <1>13 DEF Exit
<1>14. ASSUME NEW k \in Listeners, Listen(k), ~Exit(k) PROVE Framing'
  <2>1. lis' = [lis EXCEPT ![k].pc = "loop"] /\ link' = link
    BY <1>14 DEF Listen
  <2>2. lis[k].pc = "listen"
    BY <1>14 DEF Listen
  <2>3. /\ lis'[k].up = lis[k].up /\ lis'[k].pc = "loop" /\ lis'[k].got = lis[k].got
        /\ \A j \in Listeners : j # k => lis'[j] = lis[j]
    BY <1>1, <2>1 DEF Kids
  <2>4. CASE ~lis[k].up
    <3>1. lis'[k].got = <<>>
      BY <2>3, <2>4 DEF Framing
    <3> QED BY <2>1, <2>3, <2>4, <3>1, FramingKept
  <2>5. CASE lis[k].up
    <3>1. link.to = k /\ link.cut
      BY <2>2, <2>5 DEF Framing, Session
    <3>2. \A j \in Listeners : j # k => ~lis'[j].up /\ lis'[j].got = <<>>
      BY <2>3, <3>1 DEF Framing
    <3> QED BY <2>1, <2>3, <2>5, <3>1, <3>2 DEF Framing
  <2> QED BY <2>4, <2>5
<1>15. ASSUME NEW k \in Listeners, NEW peer \in Peers, Connect(k, peer) PROVE Framing'
  <2>1. /\ lis' = [lis EXCEPT ![k].peer = peer, ![k].up = TRUE, ![k].last = <<>>]
        /\ link' = [NoLink EXCEPT !.to = k, !.left = MaxMsgs]
        /\ link.to = 0 /\ lis[k].pc = "loop" /\ ~lis[k].up
    BY <1>15 DEF Connect
  <2>2. link'.to = k /\ link'.in = <<>> /\ link'.wire = <<>>
    BY <2>1 DEF NoLink
  <2>3. \A j \in Listeners : ~lis[j].up /\ lis[j].got = <<>>
    BY <2>1 DEF Framing, Listeners
  <2>4. \A j \in Listeners : j # k => lis'[j] = lis[j]
    BY <1>1, <2>1
  <2>5. lis'[k].pc = "loop" /\ lis'[k].last = <<>> /\ lis'[k].got = <<>> /\ lis'[k].up
    <3>1. lis[k] \in Kids /\ lis[k].got = <<>>
      BY <1>1, <2>3
    <3>2. PICK l : l = [lis[k] EXCEPT !.peer = peer, !.up = TRUE, !.last = <<>>]
      OBVIOUS
    <3>3. l.pc = lis[k].pc /\ l.last = <<>> /\ l.got = lis[k].got /\ l.up = TRUE
      BY <3>1, <3>2 DEF Kids
    <3>4. lis'[k] = l
      BY <1>1, <2>1, <3>2
    <3> QED BY <2>1, <3>1, <3>3, <3>4
  <2>6. Stream(<<>>, <<>>, 1)
    BY DEF Stream, Chain
  <2>7. Session(lis'[k], <<>>, <<>>)
    BY <2>5, <2>6 DEF Session, Whole
  <2> QED BY <2>2, <2>3, <2>4, <2>5, <2>7 DEF Framing
<1>16. CASE Transmit
  <2>1. PICK n \in {2, 4} :
         link' = [link EXCEPT !.left = @ - 1, !.cut = @ \/ n < 4,
                              !.wire = @ \o SubSeq(Message(link.left), 1, n)]
    BY <1>16 DEF Transmit
  <2>2. link.left > 0 /\ lis' = lis
    BY <1>16 DEF Transmit
  <2>3. /\ link'.to = link.to /\ link'.in = link.in /\ link'.cut = (link.cut \/ n < 4)
        /\ link'.wire = link.wire \o SubSeq(Message(link.left), 1, n)
    BY <1>1, <2>1 DEF Links
  <2>4. link.left \in 1 .. MaxMsgs
    BY <1>1, <2>2 DEF Links
  <2>5. link.in \in Seq(Bits) /\ link.wire \in Seq(Bits)
    BY <1>1 DEF Links
  <2>6. ASSUME NEW k \in Listeners, lis[k].up, ~(link.cut \/ n < 4)
        PROVE  Session(lis[k], link.in, link'.wire)
    <3>1. Session(lis[k], link.in, link.wire)
      BY <2>6 DEF Framing
    <3>2. n = 4
      BY <2>6
    <3>3. PICK first \in {1, 3} : first = IF lis[k].pc = "data" THEN 3 ELSE 1
      OBVIOUS
    <3>4. Stream(link.in, link.wire, first)
      BY <3>1, <3>3 DEF Session
    <3>5. Stream(link.in, link'.wire, first)
      BY <2>3, <2>4, <2>5, <3>2, <3>4, StreamTransmit
    <3> QED BY <3>1, <3>3, <3>5 DEF Session
  <2> QED BY <2>2, <2>3, <2>6 DEF Framing
<1>17. CASE Arrive
  <2>1. PICK n \in 1 .. Len(link.wire) :
         link' = [link EXCEPT !.in = @ \o SubSeq(link.wire, 1, n), !.wire = Rest(@, n),
                              !.cut = @ \/ link.wire[n][2] \in {1, 3}]
    BY <1>17 DEF Arrive
  <2>2. lis' = lis
    BY <1>17 DEF Arrive
  <2>3. /\ link'.to = link.to /\ link'.cut = (link.cut \/ link.wire[n][2] \in {1, 3})
        /\ link'.in = link.in \o SubSeq(link.wire, 1, n) /\ link'.wire = Rest(link.wire, n)
    BY <1>1, <2>1 DEF Links
  <2>4. link.in \in Seq(Bits) /\ link.wire \in Seq(Bits)
    BY <1>1 DEF Links
  <2>5. ASSUME NEW k \in Listeners, lis[k].up, ~(link.cut \/ link.wire[n][2] \in {1, 3})
        PROVE  Session(lis[k], link'.in, link'.wire)
    <3>1. Session(lis[k], link.in, link.wire)
      BY <2>5 DEF Framing
    <3>2. PICK first \in {1, 3} : first = IF lis[k].pc = "data" THEN 3 ELSE 1
      OBVIOUS
    <3>3. Stream(link.in, link.wire, first)
      BY <3>1, <3>2 DEF Session
    <3>4. Stream(link'.in, link'.wire, first)
      BY <2>3, <2>4, <2>5, <3>3, StreamArrive
    <3> QED BY <3>1, <3>2, <3>4 DEF Session
  <2> QED BY <2>2, <2>3, <2>5 DEF Framing
<1>18. CASE UNCHANGED vars
  BY <1>2, <1>18 DEF vars, anonVars
<1>19. ASSUME NEW k \in Listeners, NEW peer \in Peers, ConnectFailed(k, peer) PROVE Framing'
  <2>1. /\ lis' = [lis EXCEPT ![k] = [Stopped(lis[k]) EXCEPT !.peer = peer]]
        /\ link' = Unlinked(k)
    BY <1>1, <1>19 DEF ConnectFailed
  <2>2. /\ ~lis'[k].up /\ lis'[k].got = <<>>
        /\ \A j \in Listeners : j # k => lis'[j] = lis[j]
    BY <1>1, <2>1 DEF Kids, Stopped
  <2>3. (link' = NoLink /\ link.to = k) \/ (link' = link /\ link.to # k)
    BY <2>1 DEF Unlinked
  <2>4. CASE link' = NoLink /\ link.to = k
    BY <2>2, <2>4, FramingEnded
  <2>5. CASE link' = link
    BY <2>2, <2>5, FramingKept
  <2> QED BY <2>3, <2>4, <2>5
<1>20. ASSUME NEW k \in Listeners,
              \/ Listen(k) \/ Receive(k) \/ ReadLength(k) \/ ReadData(k) \/ EndSession(k) \/ Die(k)
              \/ \E peer \in Peers : Connect(k, peer) \/ ConnectFailed(k, peer)
       PROVE  Framing'
  BY <1>13, <1>14, <1>15, <1>19, <1>20, FramingRead DEF Die
<1> QED BY <1>6, <1>7, <1>8, <1>9, <1>10, <1>11, <1>12, <1>16, <1>17, <1>18, <1>20
        DEF Next, Listeners

\* The invariant of the user interface and its listeners.
THEOREM AnonInvariant == Spec => []AnonInv
<1>1. Init => AnonInv
  <2> SUFFICES ASSUME Init PROVE AnonInv
    OBVIOUS
  <2>1. /\ cmd = NoCmd /\ lis = [k \in 1..MaxKids |-> NoKid] /\ link = NoLink /\ lost = FALSE
        /\ kids = {}
    BY DEF Init, FifoInit
  <2>2. AnonType
    BY <2>1, NoneType DEF AnonType, Listeners
  <2>3. \A k \in Listeners : lis[k] = NoKid
    BY <2>1 DEF Listeners
  <2>4. Settings
    <3>1. ~NoCmd.srdy /\ ~NoKid.up
      BY DEF NoCmd, NoKid
    <3>2. Present = {}
      BY <2>1 DEF Present
    <3> QED BY <2>1, <2>3, <3>1, <3>2 DEF Settings, Fits
  <2>5. Framing
    BY <2>3 DEF Framing, NoKid
  <2> QED BY <2>2, <2>4, <2>5, FifoInitInv DEF AnonInv
<1>2. AnonInv /\ [Next]_vars => AnonInv'
  BY FifoNext, TypeNext, SettingsNext, FramingNext DEF AnonInv
<1> QED BY <1>1, <1>2, PTL DEF Spec

\* The settings of handle_session apply to every listener that has not been
\* told to end and to whom it admits, for every number of listeners, subnets
\* and commands, as long as none was forked beside another or outlived its
\* user interface.
THEOREM SettingsApplyThm == Spec => []SettingsApply
<1>1. AnonInv => SettingsApply
  <2> SUFFICES ASSUME AnonInv, ~lost, NEW k \in Present
               PROVE  /\ k = cmd.pid /\ cmd.set
                      /\ cmd.net /\ cmd.srdy /\ lis[k].up /\ lis[k].peer.ver = cmd.ver =>
                            lis[k].peer.sub = cmd.sub
    BY DEF SettingsApply
  <2>1. Settings /\ k \in Listeners
    BY DEF AnonInv, AnonType, Present
  <2> QED BY <2>1 DEF Settings, Fits
<1> QED BY <1>1, AnonInvariant, PTL

\* What net_receive hands to the parser is the data of one message, whole,
\* for every number and interleaving of messages, arrivals and reads that
\* cut no length and no data in two.
THEOREM FramedThm == Spec => []Framed
<1>1. AnonInv => Framed
  <2> SUFFICES ASSUME AnonInv, NEW k \in kids, lis[k].last # <<>>, lis[k].up, ~link.cut
               PROVE  \E m \in 1..MaxMsgs : lis[k].last = <<<<m, 3>>, <<m, 4>>>>
    BY DEF Framed
  <2>1. k \in Listeners /\ Framing
    BY DEF AnonInv, AnonType
  <2>2. Whole(lis[k].last)
    BY <2>1 DEF Framing, Session
  <2> QED BY <2>2 DEF Whole
<1> QED BY <1>1, AnonInvariant, PTL
=============================================================================
