--------------------------- MODULE P3ConfigProofs ---------------------------
(***************************************************************************)
(* Proofs about the daemon's reading of its configuration file, for files  *)
(* of any length with any lines, any sizes of the arrays and all three     *)
(* applications.                                                           *)
(***************************************************************************)
EXTENDS P3Config, TLAPS, FiniteSetTheorems

LineRecs == [kind : {"localstart", "localend", "novalue", "remote", "local"},
             id : Int, key : STRING, n : Int, v : Nat]
SubRecs == [id : Int, net : Nat, mask : Nat]
Entry == [fam : SUBSET {4, 6}, addr : Int]
Fields == {"stat", "out", "fault", "localdef", "loc", "cur", "sn", "rem", "sub", "nets",
           "peer", "first", "sent", "raw"}
HostFields == {"id", "fam", "addr", "time", "port", "subs"}

\* What the properties need of a host, and of parse_config's variables.
IsSeq(s) == Len(s) \in Nat /\ s = [i \in 1..Len(s) |-> s[i]]
HostOK(h) == /\ h = [f \in HostFields |-> h[f]]
             /\ h.id \in Nat /\ h.addr \in Nat /\ h.fam \in SUBSET {4, 6}
             /\ h.subs \in Seq(SubRecs)
Shape(p) == p = [f \in Fields |-> p[f]]
ParserOK(p) == /\ Shape(p)
               /\ p.stat \in {0, -1} /\ p.sn \in Int /\ p.first \in Nat
               /\ HostOK(p.cur)
               /\ p.rem \in [0..MaxHosts-1 -> Entry]
               /\ p.nets \in Seq(Int)
               /\ IsSeq(p.sent) /\ \A i \in 1..Len(p.sent) : HostOK(p.sent[i].host)

-----------------------------------------------------------------------------
(* What a line of the local host leaves alone                              *)

Kept(p, q) == /\ q.cur = p.cur /\ q.sn = p.sn /\ q.rem = p.rem /\ q.nets = p.nets
              /\ q.first = p.first /\ q.sent = p.sent /\ q.localdef = p.localdef
              /\ q.raw = p.raw /\ q.stat \in {p.stat, -1}

\* A refusal changes the status only.
LEMMA Refused ==
    ASSUME NEW p, Shape(p)
    PROVE  /\ Shape(Err(p)) /\ Kept(p, Err(p)) /\ Err(p).fault = p.fault
           /\ Shape(Out(p)) /\ Kept(p, Out(p)) /\ Out(p).fault = p.fault /\ Out(p).out
           /\ Shape(Fault(p)) /\ Kept(p, Fault(p)) /\ Fault(p).fault /\ Fault(p).out = p.out
           /\ Err(p).out = p.out /\ Err(p).stat = -1 /\ Out(p).stat = -1
           /\ Fault(p).stat = p.stat
BY DEF Err, Out, Fault, Shape, Fields, Kept

\* subnets[num] is written, or the one entry too far.
LEMMA LocalSubnetKeeps ==
    ASSUME NEW p, Shape(p), NEW l \in LineRecs
    PROVE  LET q == LocalSubnet(p, l)
           IN  Shape(q) /\ Kept(p, q) /\ (q.fault => p.fault \/ l.n = MaxNets)
<1> DEFINE q == LocalSubnet(p, l)
           a == IF p.sub[l.n] = NoHost THEN NewHost ELSE p.sub[l.n]
           r == [p EXCEPT !.sub[l.n] = a]
<1> SUFFICES Shape(q) /\ Kept(p, q) /\ (q.fault => p.fault \/ l.n = MaxNets)
  OBVIOUS
<1>1. CASE l.n <= 0 \/ l.n > MaxNets
  <2>1. q = Out(p)
    BY <1>1, SizesOK DEF LocalSubnet, LineRecs
  <2> QED BY <2>1, Refused
<1>2. CASE l.n = MaxNets
  <2>1. q = Fault(p)
    BY <1>2, SizesOK DEF LocalSubnet, LineRecs
  <2> QED BY <1>2, <2>1, Refused
<1>3. CASE ~(l.n <= 0 \/ l.n >= MaxNets)
  <2>1. Shape(r) /\ Kept(p, r) /\ r.fault = p.fault
    BY DEF Shape, Fields, Kept
  <2>2. CASE p.loc.fam = {}
    <3>1. q = Err(r)
      BY <1>3, <2>2, SizesOK DEF LocalSubnet, LineRecs
    <3> HIDE DEF q, r
    <3> QED BY <2>1, <3>1, Refused DEF Kept
  <2>3. CASE p.loc.fam # {} /\ 4 \in p.loc.fam
    <3>1. q = [r EXCEPT !.sub[l.n].fam = @ \cup {4},
                        !.sub[l.n].addr = IF l.v = 0 THEN @ ELSE l.v,
                        !.loc.lan = IF l.v = 0 THEN a.addr ELSE l.v,
                        !.stat = IF l.v = 0 THEN -1 ELSE @]
      BY <1>3, <2>3, SizesOK DEF LocalSubnet, LineRecs
    <3> HIDE DEF q, r, a
    <3>2. Shape(q)
      <4> DEFINE b == [r EXCEPT !.sub[l.n].fam = @ \cup {4}]
                 c == [b EXCEPT !.sub[l.n].addr = IF l.v = 0 THEN @ ELSE l.v]
                 e == [c EXCEPT !.loc.lan = IF l.v = 0 THEN a.addr ELSE l.v]
      <4> HIDE DEF b, c, e
      <4>1. Shape(b)
        BY <2>1 DEF b, Shape, Fields
      <4>2. Shape(c)
        BY <4>1 DEF c, Shape, Fields
      <4>3. Shape(e)
        BY <4>2 DEF e, Shape, Fields
      <4>4. q = [e EXCEPT !.stat = IF l.v = 0 THEN -1 ELSE @]
        <5>1. e.stat = r.stat
          BY <2>1, <4>1, <4>2 DEF b, c, e, Shape, Fields
        <5>2. b.sub[l.n].addr = r.sub[l.n].addr
          BY <2>1 DEF b, Shape, Fields
        <5>3. q = [[[b EXCEPT !.sub[l.n].addr = IF l.v = 0 THEN r.sub[l.n].addr ELSE l.v]
                      EXCEPT !.loc.lan = IF l.v = 0 THEN a.addr ELSE l.v]
                      EXCEPT !.stat = IF l.v = 0 THEN -1 ELSE r.stat]
          BY <3>1 DEF b
        <5> QED BY <5>1, <5>2, <5>3 DEF c, e
      <4> QED BY <4>3, <4>4 DEF Shape, Fields
    <3>3. q.fault = r.fault /\ q.stat \in {r.stat, -1}
      BY <2>1, <3>1 DEF Shape, Fields
    <3>4. Kept(r, q)
      BY <2>1, <3>1, <3>3 DEF Shape, Fields, Kept
    <3> QED BY <2>1, <3>2, <3>3, <3>4 DEF Kept
  <2>4. CASE p.loc.fam # {} /\ 4 \notin p.loc.fam
    <3>1. q = [r EXCEPT !.sub[l.n].fam = @ \cup {6},
                        !.sub[l.n].addr = IF l.v = 0 THEN @ ELSE l.v,
                        !.stat = IF l.v = 0 THEN -1 ELSE @]
      BY <1>3, <2>4, SizesOK DEF LocalSubnet, LineRecs
    <3> HIDE DEF q, r, a
    <3>2. Shape(q)
      <4> DEFINE b == [r EXCEPT !.sub[l.n].fam = @ \cup {6}]
                 c == [b EXCEPT !.sub[l.n].addr = IF l.v = 0 THEN @ ELSE l.v]
      <4> HIDE DEF b, c
      <4>1. Shape(b)
        BY <2>1 DEF b, Shape, Fields
      <4>2. Shape(c)
        BY <4>1 DEF c, Shape, Fields
      <4>4. q = [c EXCEPT !.stat = IF l.v = 0 THEN -1 ELSE @]
        BY <3>1 DEF b, c
      <4> QED BY <4>2, <4>4 DEF Shape, Fields
    <3>3. q.fault = r.fault /\ q.stat \in {r.stat, -1}
      BY <2>1, <3>1 DEF Shape, Fields
    <3>4. Kept(r, q)
      BY <2>1, <3>1, <3>3 DEF Shape, Fields, Kept
    <3> QED BY <2>1, <3>2, <3>3, <3>4 DEF Kept
  <2> QED BY <2>2, <2>3, <2>4
<1> QED BY <1>1, <1>2, <1>3, SizesOK DEF LineRecs

\* A line of the local host changes its definition only, and refers to
\* memory outside subnets for num = MaxNets only.
LEMMA LocalKeeps ==
    ASSUME NEW p, Shape(p), ~p.fault, NEW l \in LineRecs
    PROVE  \A q \in {PriLocalLine(p, l), SecLocalLine(p, l), AndLocalLine(p, l)} :
             /\ Shape(q) /\ Kept(p, q) /\ (q.fault => l.n = MaxNets)
<1>1. \A q \in {LocalIp(p, l), LocalAddress(p, l), LocalPort(p, l), LocalCluster(p, l),
                LocalLoad(p, l), LocalTime(p, l)} :
        Shape(q) /\ Kept(p, q) /\ ~q.fault
  <2>1. Shape(LocalIp(p, l)) /\ Kept(p, LocalIp(p, l)) /\ ~LocalIp(p, l).fault
    BY DEF LocalIp, Err, Shape, Fields, Kept
  <2>2. Shape(LocalAddress(p, l)) /\ Kept(p, LocalAddress(p, l)) /\ ~LocalAddress(p, l).fault
    BY DEF LocalAddress, Err, Shape, Fields, Kept
  <2>3. Shape(LocalPort(p, l)) /\ Kept(p, LocalPort(p, l)) /\ ~LocalPort(p, l).fault
    BY DEF LocalPort, Err, Shape, Fields, Kept
  <2>4. Shape(LocalCluster(p, l)) /\ Kept(p, LocalCluster(p, l)) /\ ~LocalCluster(p, l).fault
    BY DEF LocalCluster, Err, Shape, Fields, Kept
  <2>5. Shape(LocalLoad(p, l)) /\ Kept(p, LocalLoad(p, l)) /\ ~LocalLoad(p, l).fault
    BY DEF LocalLoad, Err, Shape, Fields, Kept
  <2>6. Shape(LocalTime(p, l)) /\ Kept(p, LocalTime(p, l)) /\ ~LocalTime(p, l).fault
    BY DEF LocalTime, Err, Shape, Fields, Kept
  <2> QED BY <2>1, <2>2, <2>3, <2>4, <2>5, <2>6
<1>2. LET q == PriLocalLine(p, l)
      IN  Shape(q) /\ Kept(p, q) /\ (q.fault => l.n = MaxNets)
  <2>1. PriLocalLine(p, l) \in {LocalIp(p, l), LocalAddress(p, l), LocalPort(p, l),
                                LocalCluster(p, l), LocalLoad(p, l), LocalTime(p, l),
                                LocalSubnet(p, l), Err(p)}
    BY DEF PriLocalLine
  <2> HIDE DEF PriLocalLine
  <2> QED BY <1>1, <2>1, LocalSubnetKeeps, Refused
<1>3. SecLocalLine(p, l) \in {Err(p), PriLocalLine(p, l)}
      /\ AndLocalLine(p, l) \in {Err(p), PriLocalLine(p, l)}
  BY DEF SecLocalLine, AndLocalLine
<1> QED BY <1>2, <1>3, Refused

-----------------------------------------------------------------------------
(* What a line of a remote host does, once it is known which host is meant *)

Ids(s) == {s[i].id : i \in DOMAIN s}
Distinct(s) == \A i, j \in DOMAIN s : s[i].id = s[j].id => i = j
Known(rem) == {i \in DOMAIN rem : rem[i] # NoHost}
NewSub(n) == [id |-> n, net |-> 0, mask |-> 0]

\* sncfg is NULL or points into the list of shcfg.
SnOK(p) == p.sn = 0 \/ p.sn \in Ids(p.cur.subs)

\* The list has the subnet with the id, new or as it was.
Found(s, n, d) ==
    /\ d \in Seq(SubRecs) /\ Ids(d) = Ids(s) \cup {n} /\ (Distinct(s) => Distinct(d))
    /\ \A i \in DOMAIN d : \/ \E j \in DOMAIN s : s[j] = d[i]
                           \/ n \notin Ids(s) /\ d[i] = NewSub(n)

\* The field f of the subnet n is v now.
Put(r, f, v) == [r EXCEPT ![f] = v]
Wrote(s, n, f, v, d) ==
    /\ d \in Seq(SubRecs) /\ DOMAIN d = DOMAIN s
    /\ \A i \in DOMAIN s : d[i] = IF s[i].id = n THEN Put(s[i], f, v) ELSE s[i]

\* The same host is collected, and nothing else has changed.
SameHost(p, q) ==
    /\ ParserOK(q) /\ SnOK(q) /\ q.cur.id = p.cur.id
    /\ q.sent = p.sent /\ q.localdef = p.localdef /\ q.raw = p.raw /\ q.out = p.out
    /\ q.stat \in {p.stat, -1}
    /\ Known(q.rem) = Known(p.rem) /\ (q.nets = <<>> => p.nets = <<>>)

\* What an accepted line does to the host that is collected.
Applied(c, l, d) ==
    /\ l.key # "ip" => d.fam = c.fam
    /\ l.key = "ip" => d.fam = c.fam \cup {l.v} /\ l.v \in {4, 6}
    /\ l.key # "address" => d.addr = c.addr
    /\ l.key = "address" => d.addr = l.v
    /\ l.key \notin {"subnet", "mask"} => d.subs = c.subs
    /\ l.key \in {"subnet", "mask"} =>
         /\ l.n > 0 /\ c.fam # {}
         /\ \E s : /\ Found(c.subs, l.n, s)
                   /\ \/ Wrote(s, l.n, IF l.key = "subnet" THEN "net" ELSE "mask", l.v, d.subs)
                      \/ l.key = "mask" /\ 4 \notin c.fam /\ d.subs = s

\* A subnet record is made of three fields.
LEMMA SubFields ==
    ASSUME NEW r \in SubRecs, NEW v \in Nat, NEW f \in {"net", "mask"}
    PROVE  [r EXCEPT ![f] = v] \in SubRecs /\ [r EXCEPT ![f] = v].id = r.id
BY DEF SubRecs

\* FindSubnet makes sncfg point to the subnet of that id.
LEMMA FindSubnetDoes ==
    ASSUME NEW p, ParserOK(p), SnOK(p), NEW l \in LineRecs, l.n > 0
    PROVE  LET q == FindSubnet(p, l)
           IN  /\ SameHost(p, q) /\ q.sn = l.n /\ q.fault = p.fault /\ q.stat = p.stat
               /\ q.first = p.first
               /\ q.cur.fam = p.cur.fam /\ q.cur.addr = p.cur.addr
               /\ Found(p.cur.subs, l.n, q.cur.subs)
<1> DEFINE q == FindSubnet(p, l)
           s == p.cur.subs
<1> SUFFICES /\ SameHost(p, q) /\ q.sn = l.n /\ q.fault = p.fault /\ q.stat = p.stat
             /\ q.first = p.first
             /\ q.cur.fam = p.cur.fam /\ q.cur.addr = p.cur.addr
             /\ Found(s, l.n, q.cur.subs)
  OBVIOUS
<1>1. l.n \in Int /\ s \in Seq(SubRecs)
  BY DEF LineRecs, ParserOK, HostOK
<1>2. CASE l.n \in Ids(s)
  <2>1. q = p \/ q = [p EXCEPT !.sn = l.n]
    BY <1>2 DEF FindSubnet, Ids
  <2>2. q.sn = l.n /\ Shape(q) /\ q.cur = p.cur /\ q.rem = p.rem /\ q.nets = p.nets
        /\ q.sent = p.sent /\ q.localdef = p.localdef /\ q.raw = p.raw /\ q.out = p.out
        /\ q.stat = p.stat /\ q.fault = p.fault /\ q.first = p.first
    BY <1>2 DEF FindSubnet, Ids, ParserOK, Shape, Fields
  <2>3. Found(s, l.n, s)
    BY <1>1, <1>2 DEF Found, Ids
  <2> HIDE DEF q
  <2> QED BY <1>1, <1>2, <2>2, <2>3 DEF SameHost, ParserOK, SnOK
<1>3. CASE l.n \notin Ids(s)
  <2> DEFINE d == <<NewSub(l.n)>> \o s
  <2>1. q = [p EXCEPT !.sn = l.n, !.cur.subs = d]
    BY <1>3 DEF FindSubnet, Ids, SnOK, NewSub
  <2>2. q.sn = l.n /\ Shape(q) /\ q.cur = [p.cur EXCEPT !.subs = d] /\ q.rem = p.rem
        /\ q.nets = p.nets /\ q.sent = p.sent /\ q.localdef = p.localdef /\ q.raw = p.raw
        /\ q.out = p.out /\ q.stat = p.stat /\ q.fault = p.fault /\ q.first = p.first
    <3> HIDE DEF d, q
    <3> QED BY <2>1 DEF ParserOK, Shape, Fields
  <2>3. d \in Seq(SubRecs) /\ Len(d) = Len(s) + 1 /\ d[1] = NewSub(l.n)
        /\ \A i \in 1..Len(s) : d[i + 1] = s[i]
    BY <1>1 DEF NewSub, SubRecs
  <2>4. \A i \in DOMAIN d : \/ i = 1 /\ d[i] = NewSub(l.n)
                            \/ i - 1 \in DOMAIN s /\ d[i] = s[i - 1]
    <3> HIDE DEF d
    <3> TAKE i \in DOMAIN d
    <3>1. i \in 1..(Len(s) + 1)
      BY <2>3
    <3>2. CASE i = 1
      BY <2>3, <3>2
    <3>3. CASE i # 1
      <4>1. i - 1 \in 1..Len(s) /\ (i - 1) + 1 = i
        BY <1>1, <3>1, <3>3
      <4> QED BY <1>1, <2>3, <4>1
    <3> QED BY <3>2, <3>3
  <2>5. \A j \in DOMAIN s : j + 1 \in DOMAIN d /\ d[j + 1] = s[j]
    BY <1>1, <2>3
  <2>6. 1 \in DOMAIN d /\ NewSub(l.n).id = l.n
    BY <1>1, <2>3 DEF NewSub
  <2> HIDE DEF d, q
  <2>7. Ids(d) = Ids(s) \cup {l.n}
    BY <2>3, <2>4, <2>5, <2>6 DEF Ids
  <2>8. Distinct(s) => Distinct(d)
    <3> SUFFICES ASSUME Distinct(s), NEW i \in DOMAIN d, NEW j \in DOMAIN d, d[i].id = d[j].id
                 PROVE  i = j
      BY DEF Distinct
    <3>1. i \in Int /\ j \in Int
      BY <2>3
    <3> QED BY <1>3, <2>4, <2>6, <3>1 DEF Distinct, Ids
  <2>9. Found(s, l.n, d)
    BY <1>3, <2>3, <2>4, <2>7, <2>8 DEF Found
  <2>10. HostOK(q.cur) /\ q.cur.subs = d /\ q.cur.id = p.cur.id /\ q.cur.fam = p.cur.fam
         /\ q.cur.addr = p.cur.addr
    BY <2>2, <2>3 DEF ParserOK, HostOK, HostFields
  <2> QED BY <1>1, <2>2, <2>6, <2>7, <2>9, <2>10 DEF SameHost, ParserOK, SnOK
<1> QED BY <1>2, <1>3

\* SetSubnet writes to the subnet sncfg points to.
LEMMA SetSubnetDoes ==
    ASSUME NEW p, ParserOK(p), SnOK(p), NEW f \in {"net", "mask"}, NEW v \in Nat
    PROVE  LET q == SetSubnet(p, f, v)
           IN  /\ SameHost(p, q) /\ q.sn = p.sn /\ q.fault = p.fault /\ q.stat = p.stat
               /\ q.first = p.first
               /\ q.cur.fam = p.cur.fam /\ q.cur.addr = p.cur.addr
               /\ Wrote(p.cur.subs, p.sn, f, v, q.cur.subs)
<1> DEFINE q == SetSubnet(p, f, v)
           s == p.cur.subs
           d == [i \in DOMAIN s |-> IF s[i].id = p.sn THEN [s[i] EXCEPT ![f] = v] ELSE s[i]]
<1> SUFFICES /\ SameHost(p, q) /\ q.sn = p.sn /\ q.fault = p.fault /\ q.stat = p.stat
             /\ q.first = p.first
             /\ q.cur.fam = p.cur.fam /\ q.cur.addr = p.cur.addr
             /\ Wrote(s, p.sn, f, v, q.cur.subs)
  OBVIOUS
<1>1. s \in Seq(SubRecs)
  BY DEF ParserOK, HostOK
<1>2. q = [p EXCEPT !.cur.subs = d]
  BY DEF SetSubnet
<1>3. \A i \in DOMAIN s : d[i] \in SubRecs /\ d[i].id = s[i].id
  <2> TAKE i \in DOMAIN s
  <2>1. s[i] \in SubRecs
    BY <1>1
  <2>2. [s[i] EXCEPT ![f] = v] \in SubRecs /\ [s[i] EXCEPT ![f] = v].id = s[i].id
    BY <2>1, SubFields
  <2>3. d[i] = IF s[i].id = p.sn THEN [s[i] EXCEPT ![f] = v] ELSE s[i]
    OBVIOUS
  <2> HIDE DEF d
  <2> QED BY <2>1, <2>2, <2>3
<1>4. d \in Seq(SubRecs) /\ DOMAIN d = DOMAIN s
  <2>1. d \in [1..Len(s) -> SubRecs]
    <3>1. DOMAIN s = 1..Len(s) /\ DOMAIN d = DOMAIN s /\ d = [i \in DOMAIN d |-> d[i]]
      BY <1>1
    <3> HIDE DEF d
    <3> QED BY <1>3, <3>1
  <2> HIDE DEF d
  <2> QED BY <1>1, <2>1
<1>5. Ids(d) = Ids(s)
  <2>1. \A i \in DOMAIN s : d[i].id = s[i].id
    BY <1>3
  <2> HIDE DEF d
  <2> QED BY <1>4, <2>1 DEF Ids
<1>6. Wrote(s, p.sn, f, v, d)
  BY <1>4 DEF Wrote, Put
<1> HIDE DEF d, q
<1>7. Shape(q) /\ q.sn = p.sn /\ q.cur = [p.cur EXCEPT !.subs = d] /\ q.rem = p.rem
      /\ q.nets = p.nets /\ q.sent = p.sent /\ q.localdef = p.localdef /\ q.raw = p.raw
      /\ q.out = p.out /\ q.stat = p.stat /\ q.fault = p.fault /\ q.first = p.first
  BY <1>2 DEF ParserOK, Shape, Fields
<1>8. HostOK(q.cur) /\ q.cur.subs = d /\ q.cur.id = p.cur.id /\ q.cur.fam = p.cur.fam
      /\ q.cur.addr = p.cur.addr
  BY <1>4, <1>7 DEF ParserOK, HostOK, HostFields
<1> QED BY <1>5, <1>6, <1>7, <1>8 DEF SameHost, ParserOK, SnOK

\* A refusal, and two steps for the same host.
LEMMA RefusedSame ==
    ASSUME NEW p, ParserOK(p), SnOK(p)
    PROVE  /\ SameHost(p, p) /\ SameHost(p, Err(p)) /\ Err(p).fault = p.fault
           /\ Err(p).first = p.first /\ Err(p).cur = p.cur /\ Err(p).sn = p.sn /\ Err(p).stat = -1
           /\ Fault(p).fault
<1>1. Shape(p)
  BY DEF ParserOK
<1> QED BY <1>1, Refused DEF SameHost, ParserOK, SnOK, Kept

\* A host that two steps leave alone is the same host.
LEMMA SameTwice ==
    ASSUME NEW p, NEW q, NEW r, SameHost(p, q), SameHost(q, r), p.stat \in {0, -1}
    PROVE  SameHost(p, r)
BY DEF SameHost

\* The subnet's address is written to the subnet of the line's id.
LEMMA RemoteSubnetDoes ==
    ASSUME NEW p, ParserOK(p), SnOK(p), ~p.fault, NEW l \in LineRecs, l.key = "subnet"
    PROVE  LET q == RemoteSubnet(p, l)
           IN  \/ q.fault /\ l.n <= 0
               \/ /\ ~q.fault /\ SameHost(p, q) /\ q.first = p.first
                  /\ q.stat = 0 => Applied(p.cur, l, q.cur)
<1> DEFINE r == IF l.n <= 0 THEN Err(p) ELSE FindSubnet(p, l)
           q == RemoteSubnet(p, l)
           Goal == \/ q.fault /\ l.n <= 0
                   \/ /\ ~q.fault /\ SameHost(p, q) /\ q.first = p.first
                      /\ q.stat = 0 => Applied(p.cur, l, q.cur)
<1> SUFFICES Goal
  OBVIOUS
<1>1. \/ q = Err(r)
      \/ q = Fault(r) /\ r.sn = 0
      \/ q = SetSubnet(r, "net", l.v) /\ p.cur.fam # {}
  BY DEF RemoteSubnet
<1>2. /\ SameHost(p, r) /\ ~r.fault /\ r.first = p.first
      /\ r.cur.fam = p.cur.fam /\ r.cur.addr = p.cur.addr
      /\ l.n <= 0 => r.stat = -1
      /\ l.n > 0 => r.sn = l.n /\ r.stat = p.stat /\ Found(p.cur.subs, l.n, r.cur.subs)
  BY RefusedSame, FindSubnetDoes DEF LineRecs
<1>3. l.v \in Nat /\ l.n \in Int /\ p.stat \in {0, -1} /\ ParserOK(r) /\ SnOK(r)
  BY <1>2 DEF LineRecs, ParserOK, SameHost
<1> HIDE DEF q, r
<1>4. /\ SameHost(r, Err(r)) /\ Err(r).fault = r.fault /\ Err(r).first = r.first
      /\ Err(r).stat = -1 /\ Fault(r).fault
  BY <1>3, RefusedSame
<1>5. CASE q = Err(r)
  BY <1>2, <1>3, <1>4, <1>5, SameTwice
<1>6. CASE q = Fault(r) /\ r.sn = 0
  BY <1>2, <1>3, <1>4, <1>6
<1>7. CASE q = SetSubnet(r, "net", l.v) /\ p.cur.fam # {}
  <2>1. /\ SameHost(r, q) /\ q.fault = r.fault /\ q.stat = r.stat /\ q.first = r.first
        /\ q.cur.fam = r.cur.fam /\ q.cur.addr = r.cur.addr
        /\ Wrote(r.cur.subs, r.sn, "net", l.v, q.cur.subs)
    BY <1>3, <1>7, SetSubnetDoes
  <2>2. q.stat = 0 => Applied(p.cur, l, q.cur)
    BY <1>2, <1>3, <1>7, <2>1 DEF Applied
  <2> QED BY <1>2, <1>3, <2>1, <2>2, SameTwice
<1> QED BY <1>1, <1>5, <1>6, <1>7

\* The same for a mask; an IPv6 mask is not kept.
LEMMA RemoteMaskDoes ==
    ASSUME NEW p, ParserOK(p), SnOK(p), ~p.fault, NEW l \in LineRecs, l.key = "mask"
    PROVE  LET q == RemoteMask(p, l)
           IN  \/ q.fault /\ l.n <= 0
               \/ /\ ~q.fault /\ SameHost(p, q) /\ q.first = p.first
                  /\ q.stat = 0 => Applied(p.cur, l, q.cur)
<1> DEFINE r == IF l.n <= 0 THEN Err(p) ELSE FindSubnet(p, l)
           q == RemoteMask(p, l)
           Goal == \/ q.fault /\ l.n <= 0
                   \/ /\ ~q.fault /\ SameHost(p, q) /\ q.first = p.first
                      /\ q.stat = 0 => Applied(p.cur, l, q.cur)
<1> SUFFICES Goal
  OBVIOUS
<1>1. \/ q = Err(r)
      \/ q = Fault(r) /\ r.sn = 0
      \/ q = SetSubnet(r, "mask", l.v) /\ p.cur.fam # {}
      \/ q = r /\ 4 \notin p.cur.fam /\ p.cur.fam # {}
  BY DEF RemoteMask
<1>2. /\ SameHost(p, r) /\ ~r.fault /\ r.first = p.first
      /\ r.cur.fam = p.cur.fam /\ r.cur.addr = p.cur.addr
      /\ l.n <= 0 => r.stat = -1
      /\ l.n > 0 => r.sn = l.n /\ r.stat = p.stat /\ Found(p.cur.subs, l.n, r.cur.subs)
  BY RefusedSame, FindSubnetDoes DEF LineRecs
<1>3. l.v \in Nat /\ l.n \in Int /\ p.stat \in {0, -1} /\ ParserOK(r) /\ SnOK(r)
  BY <1>2 DEF LineRecs, ParserOK, SameHost
<1> HIDE DEF q, r
<1>4. /\ SameHost(r, Err(r)) /\ Err(r).fault = r.fault /\ Err(r).first = r.first
      /\ Err(r).stat = -1 /\ Fault(r).fault
  BY <1>3, RefusedSame
<1>5. CASE q = Err(r)
  BY <1>2, <1>3, <1>4, <1>5, SameTwice
<1>6. CASE q = Fault(r) /\ r.sn = 0
  BY <1>2, <1>3, <1>4, <1>6
<1>7. CASE q = SetSubnet(r, "mask", l.v) /\ p.cur.fam # {}
  <2>1. /\ SameHost(r, q) /\ q.fault = r.fault /\ q.stat = r.stat /\ q.first = r.first
        /\ q.cur.fam = r.cur.fam /\ q.cur.addr = r.cur.addr
        /\ Wrote(r.cur.subs, r.sn, "mask", l.v, q.cur.subs)
    BY <1>3, <1>7, SetSubnetDoes
  <2>2. q.stat = 0 => Applied(p.cur, l, q.cur)
    BY <1>2, <1>3, <1>7, <2>1 DEF Applied
  <2> QED BY <1>2, <1>3, <2>1, <2>2, SameTwice
<1>8. CASE q = r /\ 4 \notin p.cur.fam /\ p.cur.fam # {}
  <2>1. q.stat = 0 => Applied(p.cur, l, q.cur)
    BY <1>2, <1>3, <1>8 DEF Applied
  <2> QED BY <1>2, <1>8, <2>1
<1> QED BY <1>1, <1>5, <1>6, <1>7, <1>8

\* Where a line of the current host that is refused leads, or that is accepted.
Meant(p, l) == /\ ParserOK(p) /\ SnOK(p) /\ ~p.fault
               /\ l.id > 0 => l.id = p.cur.id
Did(p, l, q) ==
    \/ q.fault /\ (l.id <= 0 \/ (l.key \in {"subnet", "mask"} /\ l.n <= 0))
    \/ ~q.fault /\ SameHost(p, q) /\ (q.stat = 0 => Applied(p.cur, l, q.cur))

\* A refused line, and an access outside an array for the ids that explain it.
LEMMA RefusedDid ==
    ASSUME NEW p, NEW l, Meant(p, l)
    PROVE  Did(p, l, Err(p)) /\ (l.id <= 0 => Did(p, l, Fault(p)))
<1>1. ParserOK(p) /\ SnOK(p) /\ ~p.fault
  BY DEF Meant
<1>2. SameHost(p, Err(p)) /\ ~Err(p).fault /\ Err(p).stat = -1 /\ Fault(p).fault
  BY <1>1, RefusedSame
<1> QED BY <1>2 DEF Did

\* The IP version is noted in the entry of remhosts, too, which there is.
LEMMA RemoteIpDoes ==
    ASSUME NEW p, NEW l \in LineRecs, Meant(p, l), l.id > 0 => l.id \in Known(p.rem),
           l.key = "ip"
    PROVE  Did(p, l, RemoteIp(p, l))
<1> DEFINE q == RemoteIp(p, l)
           c == [p EXCEPT !.cur.fam = @ \cup {l.v}]
<1> SUFFICES Did(p, l, q)
  OBVIOUS
<1>1. CASE l.v \notin {4, 6} \/ l.id <= 0
  <2>1. q = Err(p) \/ (q = Fault(p) /\ l.id <= 0)
    BY <1>1 DEF RemoteIp, LineRecs
  <2> HIDE DEF q
  <2> QED BY <2>1, RefusedDid
<1>2. CASE l.v \in {4, 6} /\ l.id > 0
  <2>1. q = [c EXCEPT !.rem[l.id].fam = @ \cup {l.v}]
    BY <1>2 DEF RemoteIp, LineRecs
  <2>2. /\ Shape(c) /\ c.cur = [p.cur EXCEPT !.fam = @ \cup {l.v}]
        /\ c.rem = p.rem /\ c.sn = p.sn /\ c.nets = p.nets /\ c.sent = p.sent
        /\ c.localdef = p.localdef /\ c.raw = p.raw /\ c.out = p.out /\ c.stat = p.stat
        /\ c.fault = p.fault /\ c.first = p.first
    BY DEF Meant, ParserOK, Shape, Fields
  <2> HIDE DEF c, q
  <2>3. /\ Shape(q) /\ q.rem = [p.rem EXCEPT ![l.id].fam = @ \cup {l.v}]
        /\ q.cur = c.cur /\ q.sn = p.sn /\ q.nets = p.nets /\ q.sent = p.sent
        /\ q.localdef = p.localdef /\ q.raw = p.raw /\ q.out = p.out /\ q.stat = p.stat
        /\ q.fault = p.fault /\ q.first = p.first
    BY <2>1, <2>2 DEF Shape, Fields
  <2>4. /\ HostOK(q.cur) /\ q.cur.subs = p.cur.subs /\ q.cur.id = p.cur.id
        /\ q.cur.addr = p.cur.addr /\ q.cur.fam = p.cur.fam \cup {l.v}
    <3>1. HostOK(p.cur) /\ q.cur = [p.cur EXCEPT !.fam = @ \cup {l.v}]
      BY <2>2, <2>3 DEF Meant, ParserOK
    <3>2. q.cur = [f \in HostFields |-> q.cur[f]] /\ q.cur.fam = p.cur.fam \cup {l.v}
          /\ q.cur.subs = p.cur.subs /\ q.cur.id = p.cur.id /\ q.cur.addr = p.cur.addr
      BY <3>1 DEF HostOK, HostFields
    <3> QED BY <1>2, <3>1, <3>2 DEF HostOK
  <2>5. q.rem \in [0..MaxHosts-1 -> Entry] /\ Known(q.rem) = Known(p.rem)
    <3>1. p.rem \in [0..MaxHosts-1 -> Entry] /\ l.id \in DOMAIN p.rem
      BY <1>2 DEF Known, Meant, ParserOK
    <3> DEFINE e == [p.rem[l.id] EXCEPT !.fam = @ \cup {l.v}]
    <3>2. e \in Entry /\ e # NoHost
      BY <1>2, <3>1 DEF Entry, NoHost
    <3>3. q.rem = [p.rem EXCEPT ![l.id] = e]
      BY <2>3
    <3> HIDE DEF e
    <3> QED BY <1>2, <3>1, <3>2, <3>3 DEF Known
  <2>6. ParserOK(q) /\ SnOK(q)
    BY <2>3, <2>4, <2>5 DEF Meant, ParserOK, SnOK
  <2>7. Applied(p.cur, l, q.cur)
    BY <1>2, <2>4 DEF Applied
  <2>8. SameHost(p, q) /\ ~q.fault
    BY <2>3, <2>4, <2>5, <2>6 DEF SameHost, Meant
  <2> QED BY <2>7, <2>8 DEF Did
<1> QED BY <1>1, <1>2 DEF LineRecs

\* So is the address, which stays what it was when it is refused.
LEMMA SetAddressDoes ==
    ASSUME NEW p, NEW l \in LineRecs, Meant(p, l), l.id > 0 => l.id \in Known(p.rem),
           l.key = "address"
    PROVE  Did(p, l, SetAddress(p, l))
<1> DEFINE q == SetAddress(p, l)
           a == IF l.v = 0 THEN p.cur.addr ELSE l.v
           c == [p EXCEPT !.cur.addr = a]
<1> SUFFICES Did(p, l, q)
  OBVIOUS
<1>1. CASE p.cur.fam = {} \/ l.id <= 0
  <2>1. q = Err(p) \/ (q = Fault(p) /\ l.id <= 0)
    BY <1>1 DEF SetAddress, LineRecs
  <2> HIDE DEF q
  <2> QED BY <2>1, RefusedDid
<1>2. CASE p.cur.fam # {} /\ l.id > 0
  <2>1. q = [p EXCEPT !.cur.addr = a, !.rem[l.id].addr = a,
                      !.stat = IF l.v = 0 THEN -1 ELSE @]
    BY <1>2 DEF SetAddress, LineRecs
  <2> HIDE DEF a
  <2>2. /\ Shape(c) /\ c.cur = [p.cur EXCEPT !.addr = a] /\ c.rem = p.rem /\ c.sn = p.sn
        /\ c.nets = p.nets /\ c.sent = p.sent /\ c.localdef = p.localdef /\ c.raw = p.raw
        /\ c.out = p.out /\ c.fault = p.fault
    BY DEF Meant, ParserOK, Shape, Fields
  <2> HIDE DEF c, q
  <2>3. /\ Shape(q) /\ q.rem = [p.rem EXCEPT ![l.id].addr = a]
        /\ q.cur = [p.cur EXCEPT !.addr = a]
        /\ q.sn = p.sn /\ q.nets = p.nets /\ q.sent = p.sent /\ q.first = p.first
        /\ q.localdef = p.localdef /\ q.raw = p.raw /\ q.out = p.out
        /\ q.stat = (IF l.v = 0 THEN -1 ELSE p.stat)
        /\ q.fault = p.fault
    BY <2>1 DEF Meant, ParserOK, Shape, Fields
  <2>4. /\ HostOK(q.cur) /\ q.cur.subs = p.cur.subs /\ q.cur.id = p.cur.id
        /\ q.cur.addr = a /\ q.cur.fam = p.cur.fam /\ a \in Nat
    BY <1>2, <2>3 DEF Meant, ParserOK, HostOK, HostFields, LineRecs, a
  <2>5. q.rem \in [0..MaxHosts-1 -> Entry] /\ Known(q.rem) = Known(p.rem)
    <3>1. p.rem \in [0..MaxHosts-1 -> Entry] /\ l.id \in DOMAIN p.rem
      BY <1>2 DEF Known, Meant, ParserOK
    <3> DEFINE e == [p.rem[l.id] EXCEPT !.addr = a]
    <3>2. e \in Entry /\ e # NoHost
      <4>1. p.rem[l.id] \in Entry /\ a \in Nat
        BY <2>4, <3>1
      <4> QED BY <4>1 DEF Entry, NoHost
    <3>3. q.rem = [p.rem EXCEPT ![l.id] = e]
      BY <2>3
    <3> HIDE DEF e
    <3> QED BY <1>2, <3>1, <3>2, <3>3 DEF Known
  <2>6. ParserOK(q) /\ SnOK(q)
    <3>1. ParserOK(p) /\ SnOK(p) /\ q.stat \in {0, -1}
      BY <2>3 DEF Meant, ParserOK
    <3> QED BY <2>3, <2>4, <2>5, <3>1 DEF ParserOK, SnOK
  <2>7. q.stat = 0 => Applied(p.cur, l, q.cur)
    BY <1>2, <2>3, <2>4 DEF Applied, a
  <2>8. SameHost(p, q) /\ ~q.fault
    BY <2>3, <2>4, <2>5, <2>6 DEF SameHost, Meant
  <2> QED BY <2>7, <2>8 DEF Did
<1> QED BY <1>1, <1>2 DEF LineRecs

\* What is written to the networks or to p3main->net is no part of the host.
LEMMA TouchedDid ==
    ASSUME NEW p, NEW l, NEW r, NEW q, Meant(p, l), Shape(r), r.nets \in Seq(Int),
           r.cur = p.cur, r.sn = p.sn, r.rem = p.rem, r.sent = p.sent, r.first = p.first,
           r.localdef = p.localdef, r.raw = p.raw, r.out = p.out, r.stat = p.stat,
           r.fault = p.fault, r.nets = <<>> => p.nets = <<>>
    PROVE  Meant(r, l) /\ (Did(r, l, q) => Did(p, l, q))
<1>1. Meant(r, l)
  BY DEF Meant, ParserOK, SnOK
<1>2. SameHost(r, q) => SameHost(p, q)
  BY DEF SameHost
<1> QED BY <1>1, <1>2 DEF Did

\* An address of the primary's or the secondary's remote host.
LEMMA AddressDoes ==
    ASSUME NEW p, NEW l \in LineRecs, Meant(p, l), l.id > 0 => l.id \in Known(p.rem),
           l.key = "address"
    PROVE  /\ (p.nets = <<>> => l.id <= 0) => Did(p, l, PriAddress(p, l))
           /\ Did(p, l, SecAddress(p, l))
<1>1. Did(p, l, SecAddress(p, l))
  <2> DEFINE r == [p EXCEPT !.peer = l.v]
  <2>1. /\ Shape(r) /\ r.nets = p.nets /\ r.cur = p.cur /\ r.sn = p.sn /\ r.rem = p.rem
        /\ r.sent = p.sent /\ r.first = p.first /\ r.localdef = p.localdef /\ r.raw = p.raw
        /\ r.out = p.out /\ r.stat = p.stat /\ r.fault = p.fault
    BY DEF Meant, ParserOK, Shape, Fields
  <2>2. SecAddress(p, l) = SetAddress(r, l)
    BY DEF SecAddress
  <2>3. p.nets \in Seq(Int)
    BY DEF Meant, ParserOK
  <2> HIDE DEF r
  <2>4. Meant(r, l) /\ (Did(r, l, SetAddress(r, l)) => Did(p, l, SetAddress(r, l)))
    BY <2>1, <2>3, TouchedDid
  <2> QED BY <2>1, <2>2, <2>4, SetAddressDoes
<1>2. ASSUME p.nets = <<>> => l.id <= 0
      PROVE  Did(p, l, PriAddress(p, l))
  <2>1. CASE p.nets = <<>>
    <3>1. PriAddress(p, l) = Fault(p) /\ l.id <= 0
      BY <1>2, <2>1 DEF PriAddress
    <3> QED BY <3>1, RefusedDid
  <2>2. CASE p.nets # <<>>
    <3> DEFINE r == [p EXCEPT !.nets[1] = l.v]
    <3>1. /\ Shape(r) /\ r.nets = [p.nets EXCEPT ![1] = l.v] /\ r.cur = p.cur /\ r.sn = p.sn
          /\ r.rem = p.rem /\ r.sent = p.sent /\ r.first = p.first
          /\ r.localdef = p.localdef /\ r.raw = p.raw
          /\ r.out = p.out /\ r.stat = p.stat /\ r.fault = p.fault
      BY DEF Meant, ParserOK, Shape, Fields
    <3>2. PriAddress(p, l) = SetAddress(r, l)
      BY <2>2 DEF PriAddress
    <3>3. p.nets \in Seq(Int) /\ l.v \in Int
      BY DEF Meant, ParserOK, LineRecs
    <3> HIDE DEF r
    <3>4. r.nets \in Seq(Int) /\ r.nets # <<>>
      <4>1. Len(p.nets) \in Nat /\ p.nets \in [1..Len(p.nets) -> Int] /\ Len(p.nets) # 0
        BY <2>2, <3>3
      <4>2. r.nets \in [1..Len(p.nets) -> Int]
        BY <3>1, <3>3, <4>1
      <4>3. r.nets \in Seq(Int) /\ Len(r.nets) = Len(p.nets)
        BY <4>1, <4>2
      <4> QED BY <4>1, <4>3
    <3>5. Meant(r, l) /\ (Did(r, l, SetAddress(r, l)) => Did(p, l, SetAddress(r, l)))
      BY <3>1, <3>4, TouchedDid
    <3> QED BY <3>1, <3>2, <3>5, SetAddressDoes
  <2> QED BY <2>1, <2>2
<1> QED BY <1>1, <1>2

\* The keys that do not touch remhosts or the subnets.
LEMMA PlainDoes ==
    ASSUME NEW p, NEW l \in LineRecs, Meant(p, l)
    PROVE  /\ l.key = "time" => Did(p, l, RemoteTime(p, l))
           /\ l.key = "port" => Did(p, l, SecPort(p, l))
           /\ l.key \notin {"ip", "address", "subnet", "mask"} => Did(p, l, p)
           /\ l.key = "subnet" => Did(p, l, RemoteSubnet(p, l))
           /\ l.key = "mask" => Did(p, l, RemoteMask(p, l))
<1>0. ParserOK(p) /\ SnOK(p) /\ ~p.fault /\ HostOK(p.cur) /\ SameHost(p, p)
  BY RefusedSame DEF Meant, ParserOK
<1>1. ASSUME l.key = "time" PROVE Did(p, l, RemoteTime(p, l))
  <2> DEFINE q == RemoteTime(p, l)
  <2> SUFFICES Did(p, l, q)
    OBVIOUS
  <2>1. /\ Shape(q) /\ q.cur = [p.cur EXCEPT !.time = l.v] /\ q.stat \in {p.stat, -1}
        /\ q.nets = p.nets /\ q.sn = p.sn /\ q.rem = p.rem
        /\ q.sent = p.sent /\ q.first = p.first /\ q.localdef = p.localdef /\ q.raw = p.raw
        /\ q.out = p.out /\ q.fault = p.fault
    BY <1>0 DEF RemoteTime, ParserOK, Shape, Fields
  <2> HIDE DEF q
  <2>2. HostOK(q.cur) /\ q.cur.subs = p.cur.subs /\ q.cur.id = p.cur.id
        /\ q.cur.fam = p.cur.fam /\ q.cur.addr = p.cur.addr
    BY <1>0, <2>1 DEF HostOK, HostFields
  <2>3. SameHost(p, q)
    BY <1>0, <2>1, <2>2 DEF SameHost, ParserOK, SnOK
  <2> QED BY <1>0, <1>1, <2>1, <2>2, <2>3 DEF Did, Applied
<1>2. ASSUME l.key = "port" PROVE Did(p, l, SecPort(p, l))
  <2> DEFINE q == [p EXCEPT !.cur.port = l.v, !.loc.port = l.v]
  <2>1. /\ Shape(q) /\ q.cur = [p.cur EXCEPT !.port = l.v] /\ q.stat = p.stat
        /\ q.nets = p.nets /\ q.sn = p.sn /\ q.rem = p.rem
        /\ q.sent = p.sent /\ q.first = p.first /\ q.localdef = p.localdef /\ q.raw = p.raw
        /\ q.out = p.out /\ q.fault = p.fault
    BY <1>0 DEF ParserOK, Shape, Fields
  <2>2. SecPort(p, l) = Err(p) \/ SecPort(p, l) = q
    BY DEF SecPort
  <2> HIDE DEF q
  <2>3. HostOK(q.cur) /\ q.cur.subs = p.cur.subs /\ q.cur.id = p.cur.id
        /\ q.cur.fam = p.cur.fam /\ q.cur.addr = p.cur.addr
    BY <1>0, <2>1 DEF HostOK, HostFields
  <2>4. SameHost(p, q)
    BY <1>0, <2>1, <2>3 DEF SameHost, ParserOK, SnOK
  <2>5. Did(p, l, q)
    BY <1>0, <1>2, <2>1, <2>3, <2>4 DEF Did, Applied
  <2> QED BY <2>2, <2>5, RefusedDid
<1>3. ASSUME l.key \notin {"ip", "address", "subnet", "mask"} PROVE Did(p, l, p)
  BY <1>0, <1>3 DEF Did, Applied
<1>4. ASSUME l.key = "subnet" PROVE Did(p, l, RemoteSubnet(p, l))
  BY <1>0, <1>4, RemoteSubnetDoes DEF Did
<1>5. ASSUME l.key = "mask" PROVE Did(p, l, RemoteMask(p, l))
  BY <1>0, <1>5, RemoteMaskDoes DEF Did
<1> QED BY <1>1, <1>2, <1>3, <1>4, <1>5

\* Android's own lines; only the first address is noted.
AndIp(p, l) == IF l.v \in {4, 6} THEN [p EXCEPT !.cur.fam = @ \cup {l.v}] ELSE Err(p)
AndPort(p, l) == IF l.v = 0 THEN Err(p) ELSE [p EXCEPT !.cur.port = l.v]
AndNoted(p, l, q) ==
    IF l.key # "address" THEN q.first = p.first
    ELSE q.stat = 0 => l.v # 0 /\ q.first = IF p.first = 0 THEN p.cur.id ELSE p.first

\* What the ip, address and port lines of the Android file do to a host.
LEMMA AndDoes ==
    ASSUME NEW p, NEW l \in LineRecs, Meant(p, l)
    PROVE  /\ l.key = "ip" => Did(p, l, AndIp(p, l)) /\ AndNoted(p, l, AndIp(p, l))
           /\ l.key = "address" => Did(p, l, AndAddress(p, l)) /\ AndNoted(p, l, AndAddress(p, l))
           /\ l.key = "port" => Did(p, l, AndPort(p, l)) /\ AndNoted(p, l, AndPort(p, l))
<1>0. ParserOK(p) /\ SnOK(p) /\ ~p.fault /\ HostOK(p.cur) /\ p.first \in Nat /\ p.stat \in {0, -1}
  BY DEF Meant, ParserOK
<1>1. Did(p, l, Err(p)) /\ Err(p).first = p.first /\ Err(p).stat = -1
  BY <1>0, RefusedDid, RefusedSame
<1>2. ASSUME l.key = "ip" PROVE Did(p, l, AndIp(p, l)) /\ AndNoted(p, l, AndIp(p, l))
  <2> DEFINE q == [p EXCEPT !.cur.fam = @ \cup {l.v}]
  <2>1. /\ Shape(q) /\ q.cur = [p.cur EXCEPT !.fam = @ \cup {l.v}] /\ q.stat = p.stat
        /\ q.nets = p.nets /\ q.sn = p.sn /\ q.rem = p.rem
        /\ q.sent = p.sent /\ q.first = p.first /\ q.localdef = p.localdef /\ q.raw = p.raw
        /\ q.out = p.out /\ q.fault = p.fault
    BY <1>0 DEF ParserOK, Shape, Fields
  <2>2. AndIp(p, l) = Err(p) \/ (AndIp(p, l) = q /\ l.v \in {4, 6})
    BY DEF AndIp
  <2> HIDE DEF q
  <2>3. ASSUME l.v \in {4, 6}
        PROVE  /\ HostOK(q.cur) /\ q.cur.subs = p.cur.subs /\ q.cur.id = p.cur.id
               /\ q.cur.fam = p.cur.fam \cup {l.v} /\ q.cur.addr = p.cur.addr
    <3>1. q.cur = [f \in HostFields |-> q.cur[f]] /\ q.cur.fam = p.cur.fam \cup {l.v}
          /\ q.cur.subs = p.cur.subs /\ q.cur.id = p.cur.id /\ q.cur.addr = p.cur.addr
      BY <1>0, <2>1 DEF HostOK, HostFields
    <3> QED BY <1>0, <2>3, <3>1 DEF HostOK
  <2>4. l.v \in {4, 6} => SameHost(p, q)
    BY <1>0, <2>1, <2>3 DEF SameHost, ParserOK, SnOK
  <2>5. l.v \in {4, 6} => Did(p, l, q)
    BY <1>0, <1>2, <2>1, <2>3, <2>4 DEF Did, Applied
  <2> QED BY <1>1, <1>2, <2>1, <2>2, <2>5 DEF AndNoted
<1>3. ASSUME l.key = "address"
      PROVE  Did(p, l, AndAddress(p, l)) /\ AndNoted(p, l, AndAddress(p, l))
  <2> DEFINE a == IF l.v = 0 THEN p.cur.addr ELSE l.v
             n == IF p.first = 0 THEN p.cur.id ELSE p.first
             t == IF l.v = 0 THEN -1 ELSE p.stat
             q == [p EXCEPT !.cur.addr = a, !.first = n, !.stat = t]
  <2>1. AndAddress(p, l) = Err(p) \/ AndAddress(p, l) = q
    BY DEF AndAddress
  <2>2. /\ a \in Nat /\ n \in Nat /\ t \in {p.stat, -1}
        /\ t = 0 => a = l.v
    BY <1>0 DEF HostOK, LineRecs
  <2> HIDE DEF a, n, t
  <2>3. /\ Shape(q) /\ q.cur = [p.cur EXCEPT !.addr = a] /\ q.stat = t
        /\ q.nets = p.nets /\ q.sn = p.sn /\ q.rem = p.rem
        /\ q.sent = p.sent /\ q.first = n /\ q.localdef = p.localdef /\ q.raw = p.raw
        /\ q.out = p.out /\ q.fault = p.fault
    BY <1>0 DEF ParserOK, Shape, Fields
  <2> HIDE DEF q
  <2>4. HostOK(q.cur) /\ q.cur.subs = p.cur.subs /\ q.cur.id = p.cur.id
        /\ q.cur.fam = p.cur.fam /\ q.cur.addr = a
    BY <1>0, <2>2, <2>3 DEF HostOK, HostFields
  <2>5. SameHost(p, q)
    BY <1>0, <2>2, <2>3, <2>4 DEF SameHost, ParserOK, SnOK
  <2>6. Did(p, l, q)
    BY <1>0, <1>3, <2>2, <2>3, <2>4, <2>5 DEF Did, Applied
  <2>7. AndNoted(p, l, q)
    BY <1>3, <2>3 DEF AndNoted, n, t
  <2>8. AndNoted(p, l, Err(p))
    BY <1>1, <1>3 DEF AndNoted
  <2> QED BY <1>1, <2>1, <2>6, <2>7, <2>8
<1>4. ASSUME l.key = "port" PROVE Did(p, l, AndPort(p, l)) /\ AndNoted(p, l, AndPort(p, l))
  <2> DEFINE q == [p EXCEPT !.cur.port = l.v]
  <2>1. /\ Shape(q) /\ q.cur = [p.cur EXCEPT !.port = l.v] /\ q.stat = p.stat
        /\ q.nets = p.nets /\ q.sn = p.sn /\ q.rem = p.rem
        /\ q.sent = p.sent /\ q.first = p.first /\ q.localdef = p.localdef /\ q.raw = p.raw
        /\ q.out = p.out /\ q.fault = p.fault
    BY <1>0 DEF ParserOK, Shape, Fields
  <2>2. AndPort(p, l) = Err(p) \/ AndPort(p, l) = q
    BY DEF AndPort
  <2> HIDE DEF q
  <2>3. HostOK(q.cur) /\ q.cur.subs = p.cur.subs /\ q.cur.id = p.cur.id
        /\ q.cur.fam = p.cur.fam /\ q.cur.addr = p.cur.addr
    BY <1>0, <2>1 DEF HostOK, HostFields
  <2>4. SameHost(p, q)
    BY <1>0, <2>1, <2>3 DEF SameHost, ParserOK, SnOK
  <2>5. Did(p, l, q)
    BY <1>0, <1>4, <2>1, <2>3, <2>4 DEF Did, Applied
  <2> QED BY <1>1, <1>4, <2>1, <2>2, <2>5 DEF AndNoted
<1> QED BY <1>2, <1>3, <1>4

-----------------------------------------------------------------------------
(* The first line of another host                                          *)

\* The host is the last of the messages to the kernel module.
Appended(s, h, t) == /\ IsSeq(t) /\ Len(t) = Len(s) + 1 /\ t[Len(s) + 1].host = h
                     /\ \A i \in 1..Len(s) : t[i] = s[i]

\* The elements of a sequence that one more is appended to.
LEMMA AppendIs ==
    ASSUME NEW s, IsSeq(s), NEW x
    PROVE  LET t == Append(s, x)
           IN  /\ IsSeq(t) /\ Len(t) = Len(s) + 1 /\ t[Len(s) + 1] = x
               /\ \A i \in 1..Len(s) : t[i] = s[i]
<1> DEFINE R == {s[i] : i \in 1..Len(s)} \cup {x}
           t == Append(s, x)
<1>1. x \in R /\ \A i \in 1..Len(s) : s[i] \in R
  OBVIOUS
<1>2. Len(s) \in Nat /\ s = [i \in 1..Len(s) |-> s[i]]
  BY DEF IsSeq
<1> HIDE DEF R
<1>3. s \in Seq(R)
  BY <1>1, <1>2
<1>4. t \in Seq(R) /\ Len(t) = Len(s) + 1 /\ t[Len(s) + 1] = x
      /\ \A i \in 1..Len(s) : t[i] = s[i]
  BY <1>1, <1>3
<1> HIDE DEF t
<1>5. IsSeq(t)
  BY <1>4 DEF IsSeq
<1> QED BY <1>4, <1>5 DEF t

\* The ioctl: the host goes to the kernel module.
LEMMA UpdateSends ==
    ASSUME NEW q, ParserOK(q)
    PROVE  LET u == UpdateSecHost(q)
           IN  /\ ParserOK(u) /\ Appended(q.sent, q.cur, u.sent)
               /\ u.cur = q.cur /\ u.sn = q.sn /\ u.rem = q.rem /\ u.nets = q.nets
               /\ u.first = q.first /\ u.localdef = q.localdef /\ u.raw = q.raw
               /\ u.out = q.out /\ u.stat = q.stat /\ u.fault = q.fault /\ u.loc = q.loc
<1> DEFINE u == UpdateSecHost(q)
           x == [host |-> q.cur, loc |-> q.loc]
<1> SUFFICES /\ ParserOK(u) /\ Appended(q.sent, q.cur, u.sent)
             /\ u.cur = q.cur /\ u.sn = q.sn /\ u.rem = q.rem /\ u.nets = q.nets
             /\ u.first = q.first /\ u.localdef = q.localdef /\ u.raw = q.raw
             /\ u.out = q.out /\ u.stat = q.stat /\ u.fault = q.fault /\ u.loc = q.loc
  OBVIOUS
<1>1. u = [q EXCEPT !.sent = Append(@, x)] /\ x.host = q.cur
  BY DEF UpdateSecHost
<1> HIDE DEF u, x
<1>2. /\ Shape(u) /\ u.sent = Append(q.sent, x)
      /\ u.cur = q.cur /\ u.sn = q.sn /\ u.rem = q.rem /\ u.nets = q.nets
      /\ u.first = q.first /\ u.localdef = q.localdef /\ u.raw = q.raw
      /\ u.out = q.out /\ u.stat = q.stat /\ u.fault = q.fault /\ u.loc = q.loc
  BY <1>1 DEF ParserOK, Shape, Fields
<1>3. IsSeq(q.sent) /\ HostOK(q.cur) /\ \A i \in 1..Len(q.sent) : HostOK(q.sent[i].host)
  BY DEF ParserOK
<1>4. Appended(q.sent, q.cur, u.sent)
  BY <1>1, <1>2, <1>3, AppendIs DEF Appended
<1>5. \A i \in 1..Len(u.sent) : HostOK(u.sent[i].host)
  <2> TAKE i \in 1..Len(u.sent)
  <2>1. i \in 1..Len(q.sent) \/ i = Len(q.sent) + 1
    BY <1>3, <1>4 DEF Appended, IsSeq
  <2> QED BY <1>3, <1>4, <2>1 DEF Appended
<1> QED BY <1>2, <1>4, <1>5 DEF ParserOK, Appended

\* A host without anything.
LEMMA HostIs ==
    ASSUME NEW h, h = [f \in HostFields |-> h[f]], h.id \in Nat, h.fam = {}, h.addr = 0,
           h.subs = <<>>
    PROVE  HostOK(h)
<1>1. h.subs \in Seq(SubRecs)
  <2>1. <<>> \in Seq(SubRecs)
    OBVIOUS
  <2> QED BY <2>1, Zenon
<1>2. h.fam \in SUBSET {4, 6} /\ h.addr \in Nat
  OBVIOUS
<1> QED BY <1>1, <1>2, Zenon DEF HostOK

\* The structure starts again from the intervals.
EmptiedOf(s, t) == [s EXCEPT !.cur = EmptyHost(t), !.sn = 0]
NamedOf(s, n) == [s EXCEPT !.cur.id = n, !.cur.fam = {}]

\* Nothing is left of the host that was sent.
LEMMA Emptied ==
    ASSUME NEW s, ParserOK(s), NEW t
    PROVE  LET w == EmptiedOf(s, t)
           IN  /\ ParserOK(w) /\ SnOK(w)
               /\ w.cur.id = 0 /\ w.cur.addr = 0 /\ w.cur.subs = <<>> /\ w.sn = 0
               /\ w.rem = s.rem /\ w.nets = s.nets /\ w.sent = s.sent
               /\ w.first = s.first /\ w.localdef = s.localdef /\ w.raw = s.raw
               /\ w.out = s.out /\ w.stat = s.stat /\ w.fault = s.fault /\ w.loc = s.loc
<1> DEFINE w == EmptiedOf(s, t)
           Same == /\ w.rem = s.rem /\ w.nets = s.nets /\ w.sent = s.sent
                   /\ w.first = s.first /\ w.localdef = s.localdef /\ w.raw = s.raw
                   /\ w.out = s.out /\ w.stat = s.stat /\ w.fault = s.fault
                   /\ w.loc = s.loc
<1> SUFFICES /\ ParserOK(w) /\ SnOK(w)
             /\ w.cur.id = 0 /\ w.cur.addr = 0 /\ w.cur.subs = <<>> /\ w.sn = 0
             /\ Same
  OBVIOUS
<1>1. Shape(w) /\ Same /\ w.cur = EmptyHost(t) /\ w.sn = 0
  BY DEF ParserOK, Shape, Fields, EmptiedOf
<1> HIDE DEF w
<1>2. w.cur.id = 0 /\ w.cur.addr = 0 /\ w.cur.subs = <<>> /\ w.cur.fam = {}
  BY <1>1 DEF EmptyHost
<1>3. w.cur = [f \in HostFields |-> w.cur[f]]
  BY <1>1 DEF EmptyHost, HostFields
<1>4. <<>> \in Seq(SubRecs)
  OBVIOUS
<1>5. HostOK(w.cur)
  BY <1>2, <1>3, <1>4 DEF HostOK
<1> QED BY <1>1, <1>2, <1>5 DEF ParserOK, SnOK

\* It is for the host of the line then.
LEMMA Named ==
    ASSUME NEW s, ParserOK(s), NEW n \in Nat
    PROVE  LET z == NamedOf(s, n)
           IN  /\ ParserOK(z) /\ z.cur.id = n /\ z.cur.fam = {} /\ z.cur.addr = s.cur.addr
               /\ z.cur.subs = s.cur.subs /\ z.sn = s.sn
               /\ z.rem = s.rem /\ z.nets = s.nets /\ z.sent = s.sent
               /\ z.first = s.first /\ z.localdef = s.localdef /\ z.raw = s.raw
               /\ z.out = s.out /\ z.stat = s.stat /\ z.fault = s.fault
<1> DEFINE z == NamedOf(s, n)
           Same == /\ z.rem = s.rem /\ z.nets = s.nets /\ z.sent = s.sent
                   /\ z.first = s.first /\ z.localdef = s.localdef /\ z.raw = s.raw
                   /\ z.out = s.out /\ z.stat = s.stat /\ z.fault = s.fault
<1> SUFFICES /\ ParserOK(z) /\ z.cur.id = n /\ z.cur.fam = {} /\ z.cur.addr = s.cur.addr
             /\ z.cur.subs = s.cur.subs /\ z.sn = s.sn /\ Same
  OBVIOUS
<1>1. Shape(z) /\ Same /\ z.cur = [s.cur EXCEPT !.id = n, !.fam = {}] /\ z.sn = s.sn
  BY DEF ParserOK, Shape, Fields, NamedOf
<1> HIDE DEF z
<1>2. HostOK(s.cur)
  BY DEF ParserOK
<1>3. /\ HostOK(z.cur) /\ z.cur.id = n /\ z.cur.fam = {} /\ z.cur.addr = s.cur.addr
      /\ z.cur.subs = s.cur.subs
  BY <1>1, <1>2 DEF HostOK, HostFields
<1> QED BY <1>1, <1>3 DEF ParserOK

\* Another host is collected, and the one before it, if there was one, is sent.
Switched(p, l, q) ==
    /\ ParserOK(q) /\ SnOK(q) /\ ~q.fault /\ q.out = p.out /\ q.stat = p.stat
    /\ q.localdef = p.localdef /\ q.raw = p.raw /\ q.first = p.first
    /\ l.id > 0 /\ l.id # p.cur.id /\ q.cur.id = l.id /\ q.cur.fam = {}
    /\ \/ /\ p.cur.id = 0 /\ q.sent = p.sent
          /\ q.cur.addr = p.cur.addr /\ q.cur.subs = p.cur.subs
       \/ /\ p.cur.id # 0 /\ Appended(p.sent, p.cur, q.sent)
          /\ q.cur.addr = 0 /\ q.cur.subs = <<>>

\* All three applications switch like this, from the state q in which the
\* new host is noted; w is what is left when the old one was sent.
Began(q, w, n) == NamedOf(IF q.cur.id = 0 THEN q ELSE w, n)
Carried(p, q) == /\ q.cur = p.cur /\ q.sn = p.sn /\ q.sent = p.sent /\ q.out = p.out
                 /\ q.stat = p.stat /\ q.localdef = p.localdef /\ q.raw = p.raw
                 /\ q.first = p.first /\ q.fault = p.fault
Cleared(q, w) == /\ ParserOK(w) /\ SnOK(w) /\ w.cur.addr = 0 /\ w.cur.subs = <<>>
                 /\ Appended(q.sent, q.cur, w.sent) /\ w.rem = q.rem /\ w.nets = q.nets
                 /\ w.out = q.out /\ w.stat = q.stat /\ w.localdef = q.localdef
                 /\ w.raw = q.raw /\ w.first = q.first /\ w.fault = q.fault

\* The secondary's default port comes back besides.
LEMMA ClearedIs ==
    ASSUME NEW q, ParserOK(q), NEW t
    PROVE  LET w == EmptiedOf(UpdateSecHost(q), t)
           IN  Cleared(q, w) /\ Cleared(q, [w EXCEPT !.loc.port = 1])
<1> DEFINE u == UpdateSecHost(q)
           w == EmptiedOf(u, t)
           x == [w EXCEPT !.loc.port = 1]
<1> SUFFICES Cleared(q, w) /\ Cleared(q, x)
  OBVIOUS
<1>1. /\ ParserOK(u) /\ Appended(q.sent, q.cur, u.sent)
      /\ u.cur = q.cur /\ u.sn = q.sn /\ u.rem = q.rem /\ u.nets = q.nets
      /\ u.first = q.first /\ u.localdef = q.localdef /\ u.raw = q.raw
      /\ u.out = q.out /\ u.stat = q.stat /\ u.fault = q.fault
  BY UpdateSends
<1> HIDE DEF u
<1>2. /\ ParserOK(w) /\ SnOK(w) /\ w.cur.addr = 0 /\ w.cur.subs = <<>> /\ w.sn = 0
      /\ w.rem = u.rem /\ w.nets = u.nets /\ w.sent = u.sent
      /\ w.first = u.first /\ w.localdef = u.localdef /\ w.raw = u.raw
      /\ w.out = u.out /\ w.stat = u.stat /\ w.fault = u.fault
  BY <1>1, Emptied
<1> HIDE DEF w
<1>3. Cleared(q, w)
  BY <1>1, <1>2 DEF Cleared
<1>4. /\ Shape(x) /\ x.cur = w.cur /\ x.sn = w.sn
      /\ x.rem = w.rem /\ x.nets = w.nets /\ x.sent = w.sent
      /\ x.first = w.first /\ x.localdef = w.localdef /\ x.raw = w.raw
      /\ x.out = w.out /\ x.stat = w.stat /\ x.fault = w.fault
  BY <1>2 DEF ParserOK, Shape, Fields
<1> HIDE DEF x
<1>5. ParserOK(x) /\ SnOK(x)
  BY <1>2, <1>4 DEF ParserOK, SnOK
<1>6. Cleared(q, x)
  BY <1>3, <1>4, <1>5 DEF Cleared
<1> QED BY <1>3, <1>6

\* A line of another id begins a new host, what the line before noted carried over.
LEMMA BeganDoes ==
    ASSUME NEW p, ParserOK(p), SnOK(p), ~p.fault, NEW l \in LineRecs, l.id > 0,
           l.id # p.cur.id, NEW q, ParserOK(q), Carried(p, q), NEW w, Cleared(q, w)
    PROVE  LET z == Began(q, w, l.id)
           IN  Switched(p, l, z) /\ z.rem = q.rem /\ z.nets = q.nets
<1> DEFINE s == IF q.cur.id = 0 THEN q ELSE w
           z == NamedOf(s, l.id)
<1> SUFFICES Switched(p, l, z) /\ z.rem = q.rem /\ z.nets = q.nets
  BY DEF Began
<1>0. Carried(p, q) /\ Cleared(q, w)
  OBVIOUS
<1>1. l.id \in Nat
  BY DEF LineRecs
<1>2. s = IF p.cur.id = 0 THEN q ELSE w
  BY <1>0 DEF Carried
<1> HIDE DEF s
<1>3. ParserOK(s) /\ SnOK(s) /\ s.rem = q.rem /\ s.nets = q.nets
      /\ s.first = p.first /\ s.localdef = p.localdef /\ s.raw = p.raw
      /\ s.out = p.out /\ s.stat = p.stat /\ s.fault = p.fault
  BY <1>0, <1>2 DEF SnOK, Carried, Cleared
<1>4. /\ ParserOK(z) /\ z.cur.id = l.id /\ z.cur.fam = {} /\ z.cur.addr = s.cur.addr
      /\ z.cur.subs = s.cur.subs /\ z.sn = s.sn
      /\ z.rem = s.rem /\ z.nets = s.nets /\ z.sent = s.sent
      /\ z.first = s.first /\ z.localdef = s.localdef /\ z.raw = s.raw
      /\ z.out = s.out /\ z.stat = s.stat /\ z.fault = s.fault
  BY <1>1, <1>3, Named
<1> HIDE DEF z
<1>5. SnOK(z)
  BY <1>3, <1>4 DEF SnOK
<1>6. \/ p.cur.id = 0 /\ z.sent = p.sent /\ z.cur.addr = p.cur.addr /\ z.cur.subs = p.cur.subs
      \/ /\ p.cur.id # 0 /\ Appended(p.sent, p.cur, z.sent)
         /\ z.cur.addr = 0 /\ z.cur.subs = <<>>
  BY <1>0, <1>2, <1>4 DEF Carried, Cleared
<1> QED BY <1>3, <1>4, <1>5, <1>6 DEF Switched

\* What the switch is for each of the applications: the line is refused, the
\* application ends or refers to the entry after the last, the host stays the
\* same, or another one is collected.
LEMMA PriSwitchDoes ==
    ASSUME NEW p, ParserOK(p), SnOK(p), ~p.fault, NEW l \in LineRecs
    PROVE  LET q == PriSwitch(p, l)
           IN  \/ q = Err(p) /\ l.id <= 0
               \/ q = p /\ l.id = p.cur.id /\ l.id > 0
               \/ q = Out(p)
               \/ q = Fault(p) /\ l.id = MaxHosts
               \/ Switched(p, l, q) /\ Known(q.rem) = Known(p.rem) \cup {l.id} /\ q.nets # <<>>
<1>1. CASE l.id <= 0 \/ l.id = p.cur.id \/ l.id >= MaxHosts
  BY <1>1, SizesOK DEF PriSwitch, LineRecs
<1>2. CASE ~(l.id <= 0 \/ l.id = p.cur.id \/ l.id >= MaxHosts)
  <2> DEFINE r == IF p.rem[l.id] = NoHost THEN NewHost ELSE p.rem[l.id]
             q == [p EXCEPT !.rem[l.id] = r, !.nets = <<0>> \o @]
             w == EmptiedOf(UpdateSecHost(q), p.loc.time)
             z == Began(q, w, l.id)
  <2>1. PriSwitch(p, l) = z
    BY <1>2, SizesOK DEF PriSwitch, LineRecs, EmptiedOf, NamedOf, Began
  <2>2. l.id \in 0..MaxHosts-1 /\ p.rem \in [0..MaxHosts-1 -> Entry] /\ p.nets \in Seq(Int)
    BY <1>2, SizesOK DEF LineRecs, ParserOK
  <2>3. r \in Entry /\ r # NoHost
    <3>1. p.rem[l.id] \in Entry
      BY <2>2
    <3>2. NewHost \in Entry /\ NewHost # NoHost
      BY DEF Entry, NoHost, NewHost
    <3> QED BY <3>1, <3>2
  <2> HIDE DEF r
  <2>4. /\ Shape(q) /\ q.rem = [p.rem EXCEPT ![l.id] = r] /\ q.nets = <<0>> \o p.nets
        /\ q.cur = p.cur /\ q.sn = p.sn /\ q.sent = p.sent /\ q.out = p.out
        /\ q.stat = p.stat /\ q.localdef = p.localdef /\ q.raw = p.raw
        /\ q.first = p.first /\ q.fault = p.fault
    BY DEF ParserOK, Shape, Fields
  <2> HIDE DEF q
  <2>5. q.rem \in [0..MaxHosts-1 -> Entry] /\ Known(q.rem) = Known(p.rem) \cup {l.id}
    BY <2>2, <2>3, <2>4 DEF Known
  <2>6. q.nets \in Seq(Int) /\ q.nets # <<>>
    BY <2>2, <2>4
  <2>7. ParserOK(q)
    BY <2>4, <2>5, <2>6 DEF ParserOK
  <2>8. l.id > 0 /\ l.id # p.cur.id
    BY <1>2 DEF LineRecs
  <2>9. Switched(p, l, z) /\ z.rem = q.rem /\ z.nets = q.nets
    <3>1. Carried(p, q) /\ Cleared(q, w)
      BY <2>4, <2>7, ClearedIs DEF Carried
    <3> HIDE DEF w
    <3> QED BY <2>7, <2>8, <3>1, BeganDoes
  <2> HIDE DEF z
  <2> QED BY <2>1, <2>5, <2>6, <2>9
<1> QED BY <1>1, <1>2

\* The same for the secondary, which keeps no list of networks.
LEMMA SecSwitchDoes ==
    ASSUME NEW p, ParserOK(p), SnOK(p), ~p.fault, NEW l \in LineRecs
    PROVE  LET q == SecSwitch(p, l)
           IN  \/ q = Err(p) /\ l.id <= 0
               \/ q = p /\ l.id = p.cur.id /\ l.id > 0
               \/ q = Out(p)
               \/ q = Fault(p) /\ l.id = MaxHosts
               \/ Switched(p, l, q) /\ Known(q.rem) = Known(p.rem) \cup {l.id}
<1>1. CASE l.id <= 0 \/ l.id = p.cur.id \/ l.id >= MaxHosts
  BY <1>1, SizesOK DEF SecSwitch, LineRecs
<1>2. CASE ~(l.id <= 0 \/ l.id = p.cur.id \/ l.id >= MaxHosts)
  <2> DEFINE r == IF p.rem[l.id] = NoHost THEN NewHost ELSE p.rem[l.id]
             q == [p EXCEPT !.rem[l.id] = r]
             w == [EmptiedOf(UpdateSecHost(q), Default) EXCEPT !.loc.port = 1]
             z == Began(q, w, l.id)
  <2>1. SecSwitch(p, l) = z
    BY <1>2, SizesOK DEF SecSwitch, LineRecs, EmptiedOf, NamedOf, Began, UpdatePriHost
  <2>2. l.id \in 0..MaxHosts-1 /\ p.rem \in [0..MaxHosts-1 -> Entry] /\ p.nets \in Seq(Int)
    BY <1>2, SizesOK DEF LineRecs, ParserOK
  <2>3. r \in Entry /\ r # NoHost
    <3>1. p.rem[l.id] \in Entry
      BY <2>2
    <3>2. NewHost \in Entry /\ NewHost # NoHost
      BY DEF Entry, NoHost, NewHost
    <3> QED BY <3>1, <3>2
  <2> HIDE DEF r
  <2>4. /\ Shape(q) /\ q.rem = [p.rem EXCEPT ![l.id] = r] /\ q.nets = p.nets
        /\ q.cur = p.cur /\ q.sn = p.sn /\ q.sent = p.sent /\ q.out = p.out
        /\ q.stat = p.stat /\ q.localdef = p.localdef /\ q.raw = p.raw
        /\ q.first = p.first /\ q.fault = p.fault
    BY DEF ParserOK, Shape, Fields
  <2> HIDE DEF q
  <2>5. q.rem \in [0..MaxHosts-1 -> Entry] /\ Known(q.rem) = Known(p.rem) \cup {l.id}
    BY <2>2, <2>3, <2>4 DEF Known
  <2>6. q.nets \in Seq(Int)
    BY <2>2, <2>4
  <2>7. ParserOK(q)
    BY <2>4, <2>5, <2>6 DEF ParserOK
  <2>8. l.id > 0 /\ l.id # p.cur.id
    BY <1>2 DEF LineRecs
  <2>9. Switched(p, l, z) /\ z.rem = q.rem /\ z.nets = q.nets
    <3>1. Carried(p, q) /\ Cleared(q, w)
      BY <2>4, <2>7, ClearedIs DEF Carried
    <3> HIDE DEF w
    <3> QED BY <2>7, <2>8, <3>1, BeganDoes
  <2> HIDE DEF z
  <2> QED BY <2>1, <2>5, <2>6, <2>9
<1> QED BY <1>1, <1>2

\* Android has no array of hosts.
LEMMA AndSwitchDoes ==
    ASSUME NEW p, ParserOK(p), SnOK(p), ~p.fault, NEW l \in LineRecs
    PROVE  LET q == AndSwitch(p, l)
           IN  \/ q = Err(p) /\ l.id <= 0
               \/ q = p /\ l.id = p.cur.id /\ l.id > 0
               \/ Switched(p, l, q)
<1>1. CASE l.id <= 0 \/ l.id = p.cur.id
  BY <1>1 DEF AndSwitch, LineRecs
<1>2. CASE ~(l.id <= 0 \/ l.id = p.cur.id) /\ p.cur.id = 0
  <2> DEFINE w == EmptiedOf(UpdateSecHost(p), Default)
  <2>1. AndSwitch(p, l) = Began(p, w, l.id)
    BY <1>2 DEF AndSwitch, LineRecs, Began, NamedOf
  <2>2. Carried(p, p) /\ Cleared(p, w)
    BY ClearedIs DEF Carried
  <2> HIDE DEF w
  <2>3. l.id > 0 /\ l.id # p.cur.id
    BY <1>2 DEF LineRecs
  <2> QED BY <2>1, <2>2, <2>3, BeganDoes
<1>3. CASE ~(l.id <= 0 \/ l.id = p.cur.id) /\ p.cur.id # 0
  <2> DEFINE u == UpdateSecHost(p)
             h == [EmptyHost(Default) EXCEPT !.id = l.id]
             z == [u EXCEPT !.cur = h, !.sn = 0]
  <2>1. AndSwitch(p, l) = z
    BY <1>3 DEF AndSwitch, LineRecs, AndUpdatePriHost
  <2>2. /\ ParserOK(u) /\ Appended(p.sent, p.cur, u.sent)
        /\ u.cur = p.cur /\ u.sn = p.sn /\ u.rem = p.rem /\ u.nets = p.nets
        /\ u.first = p.first /\ u.localdef = p.localdef /\ u.raw = p.raw
        /\ u.out = p.out /\ u.stat = p.stat /\ u.fault = p.fault
    BY UpdateSends
  <2>3. l.id \in Nat /\ l.id > 0 /\ l.id # p.cur.id
    BY <1>3 DEF LineRecs
  <2>4. /\ h = [f \in HostFields |-> h[f]] /\ h.id = l.id /\ h.fam = {} /\ h.addr = 0
        /\ h.subs = <<>>
    BY DEF HostFields, EmptyHost
  <2> HIDE DEF h, u
  <2>5. HostOK(h)
    BY <2>3, <2>4, HostIs
  <2>6. /\ Shape(z) /\ z.cur = h /\ z.sn = 0 /\ z.rem = u.rem /\ z.nets = u.nets
        /\ z.first = u.first /\ z.localdef = u.localdef /\ z.raw = u.raw
        /\ z.out = u.out /\ z.stat = u.stat /\ z.fault = u.fault /\ z.sent = u.sent
    BY <2>2 DEF ParserOK, Shape, Fields
  <2> HIDE DEF z
  <2>7. ParserOK(z) /\ SnOK(z)
    BY <2>2, <2>5, <2>6 DEF ParserOK, SnOK
  <2> QED BY <1>3, <2>1, <2>2, <2>3, <2>4, <2>6, <2>7 DEF Switched
<1> QED BY <1>1, <1>2, <1>3

-----------------------------------------------------------------------------
(* A whole line of a remote host                                           *)

\* remhosts has the hosts that were sent and the one that is collected.
SentIds(s) == {s[i].host.id : i \in 1..Len(s)} \ {0}
Registered(p) == Known(p.rem) = SentIds(p.sent) \cup ({p.cur.id} \ {0})
NetsOK(p) == p.cur.id # 0 => p.nets # <<>>
Good(p) == ParserOK(p) /\ SnOK(p) /\ ~p.fault /\ ~p.out

\* The state after the switch, and what the rest of the line makes of it.
Mid(p, l, m) == \/ m = Err(p) /\ l.id <= 0
                \/ m = p /\ l.id = p.cur.id /\ l.id > 0
                \/ Switched(p, l, m)
Explains(l) == \/ l.id <= 0 \/ l.id = MaxHosts
               \/ l.key \in {"subnet", "mask"} /\ l.n <= 0
Ended(l, q) == \/ q.out /\ ~q.fault
               \/ q.fault /\ Explains(l)
Took(p, l, m, q) == /\ ~q.fault /\ ~q.out /\ Mid(p, l, m) /\ SameHost(m, q)
                    /\ q.stat = 0 => Applied(m.cur, l, q.cur)

\* The host that was sent and the new one are in remhosts.
LEMMA MidOK ==
    ASSUME NEW p, Good(p), NEW l \in LineRecs, NEW m, Mid(p, l, m)
    PROVE  /\ Good(m) /\ Meant(m, l)
           /\ Switched(p, l, m) => SentIds(m.sent) \cup ({m.cur.id} \ {0})
                                   = SentIds(p.sent) \cup ({p.cur.id} \ {0}) \cup {l.id}
<1>1. CASE m = Err(p) /\ l.id <= 0
  <2>1. SameHost(p, m) /\ m.fault = p.fault
    BY <1>1, RefusedSame DEF Good
  <2>2. ~Switched(p, l, m)
    BY <1>1 DEF Switched, LineRecs
  <2> QED BY <1>1, <2>1, <2>2 DEF Good, SameHost, Meant, LineRecs
<1>2. CASE m = p /\ l.id = p.cur.id /\ l.id > 0
  BY <1>2 DEF Good, Meant, Switched
<1>3. CASE Switched(p, l, m)
  <2>1. Good(m) /\ Meant(m, l)
    BY <1>3 DEF Good, Switched, Meant
  <2>2. SentIds(m.sent) \cup ({m.cur.id} \ {0})
        = SentIds(p.sent) \cup ({p.cur.id} \ {0}) \cup {l.id}
    <3>1. CASE p.cur.id = 0 /\ m.sent = p.sent
      BY <1>3, <3>1 DEF Switched, LineRecs
    <3>2. CASE p.cur.id # 0 /\ Appended(p.sent, p.cur, m.sent)
      <4>1. Len(p.sent) \in Nat
        BY DEF Good, ParserOK, IsSeq
      <4>2. 1..Len(m.sent) = 1..Len(p.sent) \cup {Len(p.sent) + 1}
        BY <3>2, <4>1 DEF Appended
      <4>3. SentIds(m.sent) = SentIds(p.sent) \cup {p.cur.id}
        BY <3>2, <4>2 DEF Appended, SentIds
      <4> QED BY <1>3, <3>2, <4>3 DEF Switched, LineRecs
    <3> QED BY <1>3, <3>1, <3>2 DEF Switched
  <2> QED BY <2>1, <2>2
<1> QED BY <1>1, <1>2, <1>3 DEF Mid

\* A line of a remote host, for the primary.
LEMMA PriRemoteDoes ==
    ASSUME NEW p, Good(p), Registered(p), NetsOK(p), NEW l \in LineRecs
    PROVE  LET q == PriRemoteLine(p, l)
           IN  \/ Ended(l, q)
               \/ Registered(q) /\ NetsOK(q) /\ \E m : Took(p, l, m, q)
<1> DEFINE m == PriSwitch(p, l)
           q == PriRemoteLine(p, l)
<1> SUFFICES \/ Ended(l, q)
             \/ Registered(q) /\ NetsOK(q) /\ Took(p, l, m, q)
  OBVIOUS
<1>1. ParserOK(p) /\ SnOK(p) /\ ~p.fault /\ ~p.out /\ Shape(p)
  BY DEF Good, ParserOK
<1>2. \/ m = Err(p) /\ l.id <= 0
      \/ m = p /\ l.id = p.cur.id /\ l.id > 0
      \/ m = Out(p)
      \/ m = Fault(p) /\ l.id = MaxHosts
      \/ Switched(p, l, m) /\ Known(m.rem) = Known(p.rem) \cup {l.id} /\ m.nets # <<>>
  BY <1>1, PriSwitchDoes
<1>3. q = IF m.out \/ m.fault THEN m
          ELSE CASE l.key = "ip" -> RemoteIp(m, l)
                 [] l.key = "address" -> PriAddress(m, l)
                 [] l.key = "subnet" -> RemoteSubnet(m, l)
                 [] l.key = "mask" -> RemoteMask(m, l)
                 [] l.key = "time" -> RemoteTime(m, l)
                 [] OTHER -> m
  BY DEF PriRemoteLine
<1> HIDE DEF m, q
<1>4. CASE m = Out(p) \/ (m = Fault(p) /\ l.id = MaxHosts)
  BY <1>1, <1>3, <1>4, Refused DEF Ended, Explains
<1>5. CASE ~(m = Out(p) \/ (m = Fault(p) /\ l.id = MaxHosts))
  <2>1. Mid(p, l, m)
    BY <1>2, <1>5 DEF Mid
  <2>2. Good(m) /\ Meant(m, l)
    BY <2>1, MidOK
  <2>3. Registered(m) /\ NetsOK(m) /\ (l.id > 0 => l.id \in Known(m.rem) /\ m.nets # <<>>)
    <3>1. CASE m = Err(p) /\ l.id <= 0
      <4>1. Kept(p, m)
        BY <1>1, <3>1, Refused
      <4> QED BY <3>1, <4>1 DEF Kept, Registered, NetsOK, LineRecs
    <3>2. CASE m = p /\ l.id = p.cur.id /\ l.id > 0
      BY <3>2 DEF Registered, NetsOK, LineRecs
    <3>3. CASE Switched(p, l, m) /\ Known(m.rem) = Known(p.rem) \cup {l.id} /\ m.nets # <<>>
      BY <2>1, <3>3, MidOK DEF Registered, NetsOK
    <3> QED BY <1>2, <1>5, <3>1, <3>2, <3>3
  <2>4. Did(m, l, q)
    <3>1. ~(m.out \/ m.fault)
      BY <2>2 DEF Good
    <3>2. m.nets = <<>> => l.id <= 0
      BY <2>3 DEF LineRecs
    <3>3. CASE l.key = "ip"
      BY <1>3, <2>2, <2>3, <3>1, <3>3, RemoteIpDoes
    <3>4. CASE l.key = "address"
      <4>1. q = PriAddress(m, l)
        BY <1>3, <3>1, <3>4
      <4> QED BY <2>2, <2>3, <3>2, <3>4, <4>1, AddressDoes
    <3>5. CASE l.key = "subnet"
      BY <1>3, <2>2, <3>1, <3>5, PlainDoes
    <3>6. CASE l.key = "mask"
      BY <1>3, <2>2, <3>1, <3>6, PlainDoes
    <3>7. CASE l.key = "time"
      BY <1>3, <2>2, <3>1, <3>7, PlainDoes
    <3>8. CASE l.key \notin {"ip", "address", "subnet", "mask", "time"}
      <4>1. q = m
        BY <1>3, <3>1, <3>8
      <4> QED BY <2>2, <3>8, <4>1, PlainDoes
    <3> QED BY <3>3, <3>4, <3>5, <3>6, <3>7, <3>8
  <2>5. CASE q.fault
    BY <2>4, <2>5 DEF Did, Ended, Explains
  <2>6. CASE ~q.fault
    <3>1. SameHost(m, q) /\ (q.stat = 0 => Applied(m.cur, l, q.cur))
      BY <2>4, <2>6 DEF Did
    <3>2. Took(p, l, m, q)
      BY <2>1, <2>2, <2>6, <3>1 DEF Took, Good, SameHost
    <3>3. Registered(q) /\ NetsOK(q)
      BY <2>3, <3>1 DEF SameHost, Registered, NetsOK
    <3> QED BY <3>2, <3>3
  <2> QED BY <2>5, <2>6
<1> QED BY <1>4, <1>5

\* A line of a remote host, for the secondary.
LEMMA SecRemoteDoes ==
    ASSUME NEW p, Good(p), Registered(p), NEW l \in LineRecs
    PROVE  LET q == SecRemoteLine(p, l)
           IN  \/ Ended(l, q)
               \/ Registered(q) /\ \E m : Took(p, l, m, q)
<1> DEFINE m == SecSwitch(p, l)
           q == SecRemoteLine(p, l)
<1> SUFFICES \/ Ended(l, q)
             \/ Registered(q) /\ Took(p, l, m, q)
  OBVIOUS
<1>1. ParserOK(p) /\ SnOK(p) /\ ~p.fault /\ ~p.out /\ Shape(p)
  BY DEF Good, ParserOK
<1>2. \/ m = Err(p) /\ l.id <= 0
      \/ m = p /\ l.id = p.cur.id /\ l.id > 0
      \/ m = Out(p)
      \/ m = Fault(p) /\ l.id = MaxHosts
      \/ Switched(p, l, m) /\ Known(m.rem) = Known(p.rem) \cup {l.id}
  BY <1>1, SecSwitchDoes
<1>3. q = IF m.out \/ m.fault THEN m
          ELSE CASE l.key = "ip" -> RemoteIp(m, l)
                 [] l.key = "address" -> SecAddress(m, l)
                 [] l.key = "port" -> SecPort(m, l)
                 [] l.key = "subnet" -> RemoteSubnet(m, l)
                 [] l.key = "mask" -> RemoteMask(m, l)
                 [] OTHER -> m
  BY DEF SecRemoteLine
<1> HIDE DEF m, q
<1>4. CASE m = Out(p) \/ (m = Fault(p) /\ l.id = MaxHosts)
  BY <1>1, <1>3, <1>4, Refused DEF Ended, Explains
<1>5. CASE ~(m = Out(p) \/ (m = Fault(p) /\ l.id = MaxHosts))
  <2>1. Mid(p, l, m)
    BY <1>2, <1>5 DEF Mid
  <2>2. Good(m) /\ Meant(m, l)
    BY <2>1, MidOK
  <2>3. Registered(m) /\ (l.id > 0 => l.id \in Known(m.rem))
    <3>1. CASE m = Err(p) /\ l.id <= 0
      <4>1. Kept(p, m)
        BY <1>1, <3>1, Refused
      <4> QED BY <3>1, <4>1 DEF Kept, Registered, LineRecs
    <3>2. CASE m = p /\ l.id = p.cur.id /\ l.id > 0
      BY <3>2 DEF Registered, LineRecs
    <3>3. CASE Switched(p, l, m) /\ Known(m.rem) = Known(p.rem) \cup {l.id}
      BY <2>1, <3>3, MidOK DEF Registered
    <3> QED BY <1>2, <1>5, <3>1, <3>2, <3>3
  <2>4. Did(m, l, q)
    <3>1. ~(m.out \/ m.fault)
      BY <2>2 DEF Good
    <3>3. CASE l.key = "ip"
      BY <1>3, <2>2, <2>3, <3>1, <3>3, RemoteIpDoes
    <3>4. CASE l.key = "address"
      <4>1. q = SecAddress(m, l)
        BY <1>3, <3>1, <3>4
      <4> QED BY <2>2, <2>3, <3>4, <4>1, AddressDoes
    <3>5. CASE l.key = "subnet"
      BY <1>3, <2>2, <3>1, <3>5, PlainDoes
    <3>6. CASE l.key = "mask"
      BY <1>3, <2>2, <3>1, <3>6, PlainDoes
    <3>7. CASE l.key = "port"
      BY <1>3, <2>2, <3>1, <3>7, PlainDoes
    <3>8. CASE l.key \notin {"ip", "address", "subnet", "mask", "port"}
      <4>1. q = m
        BY <1>3, <3>1, <3>8
      <4> QED BY <2>2, <3>8, <4>1, PlainDoes
    <3> QED BY <3>3, <3>4, <3>5, <3>6, <3>7, <3>8
  <2>5. CASE q.fault
    BY <2>4, <2>5 DEF Did, Ended, Explains
  <2>6. CASE ~q.fault
    <3>1. SameHost(m, q) /\ (q.stat = 0 => Applied(m.cur, l, q.cur))
      BY <2>4, <2>6 DEF Did
    <3>2. Took(p, l, m, q)
      BY <2>1, <2>2, <2>6, <3>1 DEF Took, Good, SameHost
    <3>3. Registered(q)
      BY <2>3, <3>1 DEF SameHost, Registered
    <3> QED BY <3>2, <3>3
  <2> QED BY <2>5, <2>6
<1> QED BY <1>4, <1>5

\* A line of a remote host, for the Android port, which only ends by itself.
LEMMA AndRemoteDoes ==
    ASSUME NEW p, Good(p), NEW l \in LineRecs
    PROVE  LET q == AndRemoteLine(p, l)
           IN  \/ Ended(l, q)
               \/ \E m : Took(p, l, m, q) /\ m.first = p.first /\ AndNoted(m, l, q)
<1> DEFINE m == AndSwitch(p, l)
           q == AndRemoteLine(p, l)
<1> SUFFICES Ended(l, q) \/ (Took(p, l, m, q) /\ m.first = p.first /\ AndNoted(m, l, q))
  OBVIOUS
<1>1. ParserOK(p) /\ SnOK(p) /\ ~p.fault /\ ~p.out /\ Shape(p)
  BY DEF Good, ParserOK
<1>2. Mid(p, l, m)
  BY <1>1, AndSwitchDoes DEF Mid
<1>3. q = CASE l.key = "ip" -> AndIp(m, l)
            [] l.key = "address" -> AndAddress(m, l)
            [] l.key = "port" -> AndPort(m, l)
            [] l.key = "subnet" -> RemoteSubnet(m, l)
            [] l.key = "mask" -> RemoteMask(m, l)
            [] OTHER -> m
  BY DEF AndRemoteLine, AndIp, AndPort
<1> HIDE DEF m, q
<1>4. Good(m) /\ Meant(m, l) /\ m.first = p.first
  BY <1>1, <1>2, MidOK, RefusedSame DEF Mid, Switched
<1>5. Did(m, l, q) /\ (q.fault \/ AndNoted(m, l, q))
  <2>1. CASE l.key \in {"ip", "address", "port"}
    BY <1>3, <1>4, <2>1, AndDoes
  <2>2. CASE l.key = "subnet"
    <3>1. q = RemoteSubnet(m, l)
      BY <1>3, <2>2
    <3> QED BY <1>4, <2>2, <3>1, PlainDoes, RemoteSubnetDoes DEF Good, AndNoted
  <2>3. CASE l.key = "mask"
    <3>1. q = RemoteMask(m, l)
      BY <1>3, <2>3
    <3> QED BY <1>4, <2>3, <3>1, PlainDoes, RemoteMaskDoes DEF Good, AndNoted
  <2>4. CASE l.key \notin {"ip", "address", "port", "subnet", "mask"}
    <3>1. q = m
      BY <1>3, <2>4
    <3> QED BY <1>4, <2>4, <3>1, PlainDoes DEF AndNoted
  <2> QED BY <2>1, <2>2, <2>3, <2>4
<1>6. CASE q.fault
  BY <1>5, <1>6 DEF Did, Ended, Explains
<1>7. CASE ~q.fault
  <2>1. SameHost(m, q) /\ (q.stat = 0 => Applied(m.cur, l, q.cur))
    BY <1>5, <1>7 DEF Did
  <2> QED BY <1>2, <1>4, <1>5, <1>7, <2>1 DEF Took, Good, SameHost
<1> QED BY <1>6, <1>7

-----------------------------------------------------------------------------
(* A whole line                                                            *)

\* What the arrays of the applications that have them need.
NextOK(r, p) == (r # "android" => Registered(p)) /\ (r = "primary" => NetsOK(p))

\* A line that is no remote host's, or is refused for being one, leaves the
\* host alone.  The end of the local host is a message to the kernel module.
Other(p, l, q) ==
    /\ Good(q) /\ q.cur = p.cur /\ q.first = p.first /\ q.stat \in {p.stat, -1}
    /\ l.kind = "remote" => q.stat = -1
    /\ q.sent = p.sent \/ Appended(p.sent, EmptyHost(0), q.sent)

\* What one round of the loop does: it ends the program, for the reasons that
\* explain it, or it is one of these.
Explained(l) == \/ l.kind = "remote" /\ Explains(l)
                \/ l.kind = "local" /\ l.n = MaxNets
Round(r, p, l, q) ==
    \/ q.out /\ ~q.fault
    \/ q.fault /\ Explained(l)
    \/ /\ Good(q) /\ NextOK(r, q)
       /\ \/ Other(p, l, q)
          \/ /\ l.kind = "remote"
             /\ \E m : /\ Took(p, l, m, q)
                       /\ r = "android" => m.first = p.first /\ AndNoted(m, l, q)

\* The lines that are no remote host's.
LEMMA OtherLines ==
    ASSUME NEW r, NEW p, Good(p), NextOK(r, p), NEW l \in LineRecs, NEW q,
           \/ q = [p EXCEPT !.localdef = TRUE]
           \/ q = [p EXCEPT !.localdef = FALSE,
                            !.sent = Append(@, [host |-> EmptyHost(0), loc |-> p.loc])]
           \/ q = Err(p)
           \/ /\ l.kind = "local"
              /\ q \in {PriLocalLine(p, l), SecLocalLine(p, l), AndLocalLine(p, l)},
           l.kind = "remote" => q = Err(p)
    PROVE  Round(r, p, l, q)
<1>1. ParserOK(p) /\ SnOK(p) /\ ~p.fault /\ ~p.out /\ Shape(p) /\ IsSeq(p.sent)
  BY DEF Good, ParserOK
<1>2. ASSUME Shape(q), Kept(p, q), ~q.fault, ~q.out, l.kind = "remote" => q.stat = -1
      PROVE  Round(r, p, l, q)
  <2>1. Good(q)
    BY <1>1, <1>2 DEF Kept, Good, ParserOK, SnOK
  <2>2. NextOK(r, q)
    BY <1>2 DEF Kept, NextOK, Registered, NetsOK
  <2> QED BY <1>2, <2>1, <2>2 DEF Round, Other, Kept
<1>3. CASE q = [p EXCEPT !.localdef = TRUE] /\ l.kind # "remote"
  <2>1. Good(q) /\ NextOK(r, q) /\ q.cur = p.cur /\ q.first = p.first /\ q.stat = p.stat
        /\ q.sent = p.sent
    <3>1. /\ Shape(q) /\ q.cur = p.cur /\ q.sn = p.sn /\ q.rem = p.rem /\ q.nets = p.nets
          /\ q.sent = p.sent /\ q.first = p.first /\ q.stat = p.stat /\ q.out = p.out
          /\ q.fault = p.fault
      BY <1>1, <1>3 DEF Shape, Fields
    <3> QED BY <1>1, <3>1 DEF Good, ParserOK, SnOK, NextOK, Registered, NetsOK
  <2> QED BY <1>3, <2>1 DEF Round, Other
<1>4. CASE /\ q = [p EXCEPT !.localdef = FALSE,
                            !.sent = Append(@, [host |-> EmptyHost(0), loc |-> p.loc])]
           /\ l.kind # "remote"
  <2> DEFINE x == [host |-> EmptyHost(0), loc |-> p.loc]
  <2>0. x.host = EmptyHost(0) /\ q = [p EXCEPT !.localdef = FALSE, !.sent = Append(@, x)]
    BY <1>4
  <2> HIDE DEF x
  <2>1. /\ Shape(q) /\ q.cur = p.cur /\ q.sn = p.sn /\ q.rem = p.rem /\ q.nets = p.nets
        /\ q.sent = Append(p.sent, x) /\ q.first = p.first /\ q.stat = p.stat
        /\ q.out = p.out /\ q.fault = p.fault
    BY <1>1, <2>0 DEF Shape, Fields
  <2>2. Appended(p.sent, EmptyHost(0), q.sent)
    BY <1>1, <2>0, <2>1, AppendIs DEF Appended
  <2>3. HostOK(EmptyHost(0)) /\ EmptyHost(0).id = 0
    <3> DEFINE h == EmptyHost(0)
    <3>1. /\ h = [f \in HostFields |-> h[f]] /\ h.id = 0 /\ h.fam = {} /\ h.addr = 0
          /\ h.subs = <<>>
      BY DEF HostFields, EmptyHost
    <3> HIDE DEF h
    <3>2. HostOK(h)
      BY <3>1, HostIs
    <3> QED BY <3>1, <3>2 DEF h
  <2>4. \A i \in 1..Len(q.sent) : i \in 1..Len(p.sent) \/ i = Len(p.sent) + 1
    BY <1>1, <2>2 DEF Appended, IsSeq
  <2>5. ParserOK(q) /\ SnOK(q)
    <3>1. \A i \in 1..Len(q.sent) : HostOK(q.sent[i].host)
      BY <1>1, <2>2, <2>3, <2>4 DEF Appended, ParserOK
    <3> QED BY <1>1, <2>1, <2>2, <3>1 DEF Appended, ParserOK, SnOK
  <2>6. SentIds(q.sent) = SentIds(p.sent)
    <3>1. \A i \in 1..Len(p.sent) : i \in 1..Len(q.sent) /\ q.sent[i] = p.sent[i]
      BY <1>1, <2>2 DEF Appended, IsSeq
    <3>2. q.sent[Len(p.sent) + 1].host.id = 0
      BY <2>2, <2>3 DEF Appended
    <3> QED BY <2>4, <3>1, <3>2 DEF SentIds
  <2>7. NextOK(r, q)
    BY <2>1, <2>6 DEF NextOK, Registered, NetsOK
  <2> QED BY <1>1, <1>4, <2>1, <2>2, <2>5, <2>7 DEF Round, Other, Good
<1>5. CASE q = Err(p)
  BY <1>1, <1>2, <1>5, Refused
<1>6. CASE /\ l.kind = "local"
           /\ q \in {PriLocalLine(p, l), SecLocalLine(p, l), AndLocalLine(p, l)}
  <2>1. Shape(q) /\ Kept(p, q) /\ (q.fault => l.n = MaxNets)
    BY <1>1, <1>6, LocalKeeps
  <2>2. CASE q.fault
    BY <1>6, <2>1, <2>2 DEF Round, Explained
  <2>3. CASE ~q.fault /\ q.out
    BY <2>3 DEF Round
  <2>4. CASE ~q.fault /\ ~q.out
    BY <1>2, <1>6, <2>1, <2>4
  <2> QED BY <2>2, <2>3, <2>4
<1> QED BY <1>3, <1>4, <1>5, <1>6

\* Each application's loop.
LEMMA Rounds ==
    ASSUME NEW r, NEW p, Good(p), NextOK(r, p), NEW l \in LineRecs, NEW q,
           \/ r = "primary" /\ q = PriParse(p, l)
           \/ r = "secondary" /\ q = SecParse(p, l)
           \/ r = "android" /\ q = AndParse(p, l)
    PROVE  Round(r, p, l, q)
<1>1. \/ /\ l.kind # "remote"
         /\ \/ q = [p EXCEPT !.localdef = TRUE]
            \/ q = [p EXCEPT !.localdef = FALSE,
                             !.sent = Append(@, [host |-> EmptyHost(0), loc |-> p.loc])]
            \/ q = Err(p)
            \/ /\ l.kind = "local"
               /\ q \in {PriLocalLine(p, l), SecLocalLine(p, l), AndLocalLine(p, l)}
      \/ l.kind = "remote" /\ q = Err(p)
      \/ /\ l.kind = "remote"
         /\ \/ r = "primary" /\ q = PriRemoteLine(p, l)
            \/ r = "secondary" /\ q = SecRemoteLine(p, l)
            \/ r = "android" /\ q = AndRemoteLine(p, l)
  <2>1. l.kind \in {"localstart", "localend", "novalue", "remote", "local"}
    BY DEF LineRecs
  <2>2. CASE r = "primary" /\ q = PriParse(p, l)
    BY <2>1, <2>2 DEF PriParse, ParseLine
  <2>3. CASE r = "secondary" /\ q = SecParse(p, l)
    BY <2>1, <2>3 DEF SecParse, ParseLine
  <2>4. CASE r = "android" /\ q = AndParse(p, l)
    BY <2>1, <2>4 DEF AndParse, ParseLine
  <2> QED BY <2>2, <2>3, <2>4
<1>2. CASE /\ l.kind = "remote"
           /\ \/ r = "primary" /\ q = PriRemoteLine(p, l)
              \/ r = "secondary" /\ q = SecRemoteLine(p, l)
              \/ r = "android" /\ q = AndRemoteLine(p, l)
  <2>1. \/ Ended(l, q)
        \/ /\ NextOK(r, q)
           /\ \E m : Took(p, l, m, q) /\ (r = "android" => m.first = p.first /\ AndNoted(m, l, q))
    <3>1. CASE r = "primary" /\ q = PriRemoteLine(p, l)
      BY <3>1, PriRemoteDoes DEF NextOK
    <3>2. CASE r = "secondary" /\ q = SecRemoteLine(p, l)
      BY <3>2, SecRemoteDoes DEF NextOK
    <3>3. CASE r = "android" /\ q = AndRemoteLine(p, l)
      BY <3>3, AndRemoteDoes DEF NextOK
    <3> QED BY <1>2, <3>1, <3>2, <3>3
  <2>2. CASE Ended(l, q)
    BY <1>2, <2>2 DEF Ended, Round, Explained
  <2>3. \A m : Took(p, l, m, q) => Good(q)
    BY DEF Took, Good, SameHost
  <2> QED BY <1>2, <2>1, <2>2, <2>3 DEF Round
<1> QED BY <1>1, <1>2, OtherLines

-----------------------------------------------------------------------------
(* The blocks of a file that is one line longer                            *)

\* The lines of the file stay, and the new one is the last.
Longer(f, l, g) ==
    /\ DOMAIN g = DOMAIN f \cup {Len(f) + 1} /\ g[Len(f) + 1] = l
    /\ \A i \in DOMAIN f : g[i] = f[i] /\ i \in Nat /\ i < Len(f) + 1
    /\ Len(f) + 1 \in Nat

\* A file with one more line, as Longer states it.
LEMMA AppendLonger ==
    ASSUME NEW f \in Seq(LineRecs), NEW l \in LineRecs
    PROVE  /\ Longer(f, l, Append(f, l)) /\ Append(f, l) \in Seq(LineRecs)
           /\ Len(Append(f, l)) = Len(f) + 1
<1> DEFINE g == Append(f, l)
<1>1. Len(f) \in Nat /\ g \in Seq(LineRecs) /\ Len(g) = Len(f) + 1 /\ DOMAIN f = 1..Len(f)
      /\ DOMAIN g = 1..Len(g) /\ g[Len(f) + 1] = l /\ \A i \in 1..Len(f) : g[i] = f[i]
  OBVIOUS
<1> HIDE DEF g
<1>2. 1..(Len(f) + 1) = 1..Len(f) \cup {Len(f) + 1}
  BY <1>1
<1>3. Longer(f, l, g)
  BY <1>1, <1>2 DEF Longer
<1> QED BY <1>1, <1>3 DEF g

\* So do the remote ones, which are among the lines.
LEMMA RemotesLonger ==
    ASSUME NEW f, NEW l, NEW g, Longer(f, l, g)
    PROVE  /\ Remotes(f) \subseteq DOMAIN f /\ Starts(f) \subseteq Remotes(f)
           /\ \A s : BlockOf(f, s) \subseteq Remotes(f)
           /\ l.kind # "remote" => Remotes(g) = Remotes(f)
           /\ l.kind = "remote" => Remotes(g) = Remotes(f) \cup {Len(f) + 1}
           /\ \A i \in Remotes(f) : g[i] = f[i] /\ i \in Nat /\ i < Len(f) + 1
BY DEF Longer, Remotes, Starts, BlockOf

\* A line of no remote host.
LEMMA OtherBlocks ==
    ASSUME NEW f, NEW l, NEW g, Longer(f, l, g), l.kind # "remote"
    PROVE  Remotes(g) = Remotes(f) /\ Starts(g) = Starts(f)
           /\ \A s : BlockOf(g, s) = BlockOf(f, s)
<1>1. Remotes(g) = Remotes(f) /\ \A i \in Remotes(f) : g[i] = f[i]
  BY RemotesLonger
<1>2. Starts(g) = Starts(f)
  BY <1>1 DEF Starts
<1> QED BY <1>1, <1>2 DEF BlockOf

\* A line of the host of the last remote line belongs to the last block.
LEMMA SameBlocks ==
    ASSUME NEW f, NEW l, NEW g, Longer(f, l, g), l.kind = "remote",
           NEW k \in Remotes(f), \A j \in Remotes(f) : j <= k, f[k].id = l.id
    PROVE  /\ Starts(g) = Starts(f)
           /\ \A s \in Starts(f) :
                /\ (\E i \in Starts(f) : s < i) => BlockOf(g, s) = BlockOf(f, s)
                /\ ~(\E i \in Starts(f) : s < i)
                     => BlockOf(g, s) = BlockOf(f, s) \cup {Len(f) + 1}
<1> DEFINE n == Len(f) + 1
<1>1. /\ Remotes(g) = Remotes(f) \cup {n} /\ Starts(f) \subseteq Remotes(f) /\ g[n] = l
      /\ n \in Nat /\ \A i \in Remotes(f) : g[i] = f[i] /\ i \in Nat /\ i < n
  <2>1. g[n] = l /\ n \in Nat
    BY DEF Longer
  <2>2. /\ Remotes(g) = Remotes(f) \cup {n} /\ Starts(f) \subseteq Remotes(f)
        /\ \A i \in Remotes(f) : g[i] = f[i] /\ i \in Nat /\ i < n
    BY RemotesLonger, Zenon
  <2> QED BY <2>1, <2>2
<1> HIDE DEF n
<1>2. n \notin Starts(g)
  <2>1. g[k].id = g[n].id /\ ~(k >= n) /\ ~\E j \in Remotes(g) : k < j /\ j < n
    BY <1>1
  <2> QED BY <1>1, <2>1 DEF Starts
<1>3. \A i \in Remotes(f) : i \in Starts(g) <=> i \in Starts(f)
  <2> TAKE i \in Remotes(f)
  <2>1. i \in Starts(f) => i \in Starts(g)
    BY <1>1 DEF Starts
  <2>2. i \in Starts(g) => i \in Starts(f)
    <3> SUFFICES ASSUME i \in Starts(g), NEW j \in Remotes(f), f[j].id = f[i].id, ~(j >= i)
                 PROVE  \E m \in Remotes(f) : j < m /\ m < i
      BY DEF Starts
    <3>1. PICK m \in Remotes(g) : j < m /\ m < i
      BY <1>1 DEF Starts
    <3> QED BY <1>1, <3>1
  <2> QED BY <2>1, <2>2
<1>4. Starts(g) = Starts(f)
  <2>1. Starts(g) \subseteq Remotes(g)
    BY DEF Starts
  <2> QED BY <1>1, <1>2, <1>3, <2>1
<1>5. ASSUME NEW s \in Starts(f)
      PROVE  /\ (\E i \in Starts(f) : s < i) => BlockOf(g, s) = BlockOf(f, s)
             /\ ~(\E i \in Starts(f) : s < i) => BlockOf(g, s) = BlockOf(f, s) \cup {n}
  <2>1. BlockOf(g, s) \subseteq BlockOf(f, s) \cup {n} /\ BlockOf(f, s) \subseteq BlockOf(g, s)
    BY <1>1, <1>4 DEF BlockOf
  <2>2. n \notin BlockOf(f, s)
    BY <1>1 DEF BlockOf
  <2>3. n \in BlockOf(g, s) <=> ~\E i \in Starts(f) : s < i
    BY <1>1, <1>4, <1>5 DEF BlockOf
  <2> QED BY <2>1, <2>2, <2>3
<1> QED BY <1>4, <1>5 DEF n

\* A line of another host starts a block.
LEMMA NewBlocks ==
    ASSUME NEW f, NEW l, NEW g, Longer(f, l, g), l.kind = "remote",
           \A k \in Remotes(f) : (\A j \in Remotes(f) : j <= k) => f[k].id # l.id
    PROVE  /\ Starts(g) = Starts(f) \cup {Len(f) + 1}
           /\ \A s \in Starts(f) : BlockOf(g, s) = BlockOf(f, s)
           /\ BlockOf(g, Len(f) + 1) = {Len(f) + 1}
<1> DEFINE n == Len(f) + 1
<1>1. /\ Remotes(g) = Remotes(f) \cup {n} /\ Starts(f) \subseteq Remotes(f) /\ g[n] = l
      /\ n \in Nat /\ \A i \in Remotes(f) : g[i] = f[i] /\ i \in Nat /\ i < n
  <2>1. g[n] = l /\ n \in Nat
    BY DEF Longer
  <2>2. /\ Remotes(g) = Remotes(f) \cup {n} /\ Starts(f) \subseteq Remotes(f)
        /\ \A i \in Remotes(f) : g[i] = f[i] /\ i \in Nat /\ i < n
    BY RemotesLonger, Zenon
  <2> QED BY <2>1, <2>2
<1> HIDE DEF n
<1>2. n \in Starts(g)
  <2> SUFFICES ASSUME NEW j \in Remotes(g), g[j].id = g[n].id, ~(j >= n)
               PROVE  \E m \in Remotes(g) : j < m /\ m < n
    BY <1>1 DEF Starts
  <2>1. j \in Remotes(f) /\ f[j].id = l.id
    BY <1>1
  <2>2. PICK m \in Remotes(f) : ~(m <= j)
    BY <2>1
  <2> QED BY <1>1, <2>1, <2>2
<1>3. \A i \in Remotes(f) : i \in Starts(g) <=> i \in Starts(f)
  <2> TAKE i \in Remotes(f)
  <2>1. i \in Starts(f) => i \in Starts(g)
    BY <1>1 DEF Starts
  <2>2. i \in Starts(g) => i \in Starts(f)
    <3> SUFFICES ASSUME i \in Starts(g), NEW j \in Remotes(f), f[j].id = f[i].id, ~(j >= i)
                 PROVE  \E m \in Remotes(f) : j < m /\ m < i
      BY DEF Starts
    <3>1. PICK m \in Remotes(g) : j < m /\ m < i
      BY <1>1 DEF Starts
    <3> QED BY <1>1, <3>1
  <2> QED BY <2>1, <2>2
<1>4. Starts(g) = Starts(f) \cup {n}
  <2>1. Starts(g) \subseteq Remotes(g)
    BY DEF Starts
  <2> QED BY <1>1, <1>2, <1>3, <2>1
<1>5. \A s \in Starts(f) : BlockOf(g, s) = BlockOf(f, s)
  <2> TAKE s \in Starts(f)
  <2>1. n \notin BlockOf(g, s)
    BY <1>1, <1>4 DEF BlockOf
  <2>2. BlockOf(g, s) \subseteq Remotes(g) /\ BlockOf(f, s) \subseteq Remotes(f)
    BY DEF BlockOf
  <2>3. \A j \in Remotes(f) : j \in BlockOf(g, s) <=> j \in BlockOf(f, s)
    BY <1>1, <1>4 DEF BlockOf
  <2> QED BY <1>1, <2>1, <2>2, <2>3
<1>6. BlockOf(g, n) = {n}
  <2>1. \A i \in Starts(g) : ~(n < i)
    BY <1>1, <1>4
  <2> QED BY <1>1, <2>1 DEF BlockOf
<1> QED BY <1>4, <1>5, <1>6 DEF n

-----------------------------------------------------------------------------
(* The values of a block                                                   *)

\* v is the value of the last line of B with the key and the number, or 0.
Has(f, i, key, n) == f[i].key = key /\ f[i].n = n
IsLast(f, B, key, n, v) ==
    \/ v = 0 /\ \A i \in B : ~Has(f, i, key, n)
    \/ \E i \in B : /\ Has(f, i, key, n) /\ v = f[i].v
                    /\ \A j \in B : Has(f, j, key, n) => j <= i

\* The host is that of the lines B.
Match(h, f, B) ==
    /\ \A i \in B : f[i].id = h.id
    /\ IsLast(f, B, "address", 0, h.addr)
    /\ Distinct(h.subs) /\ Ids(h.subs) = SubIds(f, B)
    /\ h.fam \subseteq {4} =>
         \A i \in DOMAIN h.subs :
           /\ IsLast(f, B, "subnet", h.subs[i].id, h.subs[i].net)
           /\ IsLast(f, B, "mask", h.subs[i].id, h.subs[i].mask)

\* It is what the reference reading finds.
LEMMA LastInIs ==
    ASSUME NEW f, NEW B \in SUBSET Nat, NEW key, NEW n, NEW v, IsLast(f, B, key, n, v)
    PROVE  LastIn(f, B, key, n) = v
<1> DEFINE C == {i \in B : f[i].key = key /\ f[i].n = n}
<1>1. CASE v = 0 /\ \A i \in B : ~Has(f, i, key, n)
  BY <1>1 DEF LastIn, Has
<1>2. CASE \E i \in B : /\ Has(f, i, key, n) /\ v = f[i].v
                        /\ \A j \in B : Has(f, j, key, n) => j <= i
  <2>1. PICK i \in C : v = f[i].v /\ \A j \in C : j <= i
    BY <1>2 DEF Has
  <2>2. C # {} /\ C \subseteq Nat
    BY <2>1
  <2> DEFINE x == CHOOSE k \in C : \A j \in C : j <= k
  <2>3. LastIn(f, B, key, n) = f[x].v
    BY <2>2 DEF LastIn
  <2> HIDE DEF C
  <2>4. x \in C /\ \A j \in C : j <= x
    BY <2>1
  <2> HIDE DEF x
  <2>5. x = i
    BY <2>1, <2>2, <2>4
  <2> QED BY <2>1, <2>3, <2>5
<1> QED BY <1>1, <1>2 DEF IsLast

\* The block B has one line more.
With(B, f) == B \cup {Len(f) + 1}

\* A longer file has the same values in an old block, and the value of the new
\* line in the block it belongs to.
LEMMA LastLonger ==
    ASSUME NEW f, NEW l, NEW g, Longer(f, l, g), NEW B \in SUBSET (DOMAIN f),
           NEW key, NEW n, NEW v, IsLast(f, B, key, n, v)
    PROVE  /\ IsLast(g, B, key, n, v)
           /\ ~(l.key = key /\ l.n = n) => IsLast(g, With(B, f), key, n, v)
<1>1. \A i \in B : g[i] = f[i]
  BY DEF Longer
<1>2. IsLast(g, B, key, n, v)
  BY <1>1 DEF IsLast, Has
<1>3. ASSUME ~(l.key = key /\ l.n = n)
      PROVE  IsLast(g, With(B, f), key, n, v)
  <2> DEFINE m == Len(f) + 1
  <2>1. ~Has(g, m, key, n)
    BY <1>3 DEF Longer, Has
  <2> HIDE DEF m
  <2>2. IsLast(g, B \cup {m}, key, n, v)
    BY <1>2, <2>1 DEF IsLast
  <2> QED BY <2>2 DEF m, With
<1> QED BY <1>2, <1>3

\* The line that was read last is the last of its key and id.
LEMMA LastIsNew ==
    ASSUME NEW f, NEW l, NEW g, Longer(f, l, g), NEW B \in SUBSET (DOMAIN f)
    PROVE  IsLast(g, With(B, f), l.key, l.n, l.v)
<1> DEFINE m == Len(f) + 1
<1>1. g[m] = l /\ m \in Nat /\ \A j \in B : j \in Nat /\ j < m
  BY DEF Longer
<1> HIDE DEF m
<1>2. Has(g, m, l.key, l.n) /\ l.v = g[m].v /\ \A j \in B \cup {m} : j <= m
  BY <1>1 DEF Has
<1>3. IsLast(g, B \cup {m}, l.key, l.n, l.v)
  BY <1>2 DEF IsLast
<1> QED BY <1>3 DEF m, With

\* The host of an old block still matches.
LEMMA MatchLonger ==
    ASSUME NEW h, NEW f, NEW l, NEW g, Longer(f, l, g), NEW B \in SUBSET (DOMAIN f),
           Match(h, f, B)
    PROVE  Match(h, g, B)
<1>1. \A i \in B : g[i] = f[i]
  BY DEF Longer
<1>2. SubIds(g, B) = SubIds(f, B)
  BY <1>1 DEF SubIds
<1>3. \A key, n, v : IsLast(f, B, key, n, v) => IsLast(g, B, key, n, v)
  BY LastLonger
<1> QED BY <1>1, <1>2, <1>3 DEF Match

\* A host that has nothing matches no lines.
LEMMA MatchNone ==
    ASSUME NEW h, NEW f, h.addr = 0, h.subs = <<>>
    PROVE  Match(h, f, {})
<1>1. Ids(h.subs) = {} /\ Distinct(h.subs) /\ DOMAIN h.subs = {}
  BY DEF Ids, Distinct
<1>2. SubIds(f, {}) = {}
  BY DEF SubIds
<1> QED BY <1>1, <1>2 DEF Match, IsLast

\* The ids of the subnets of a block that is one line longer.
LEMMA SubIdsLonger ==
    ASSUME NEW f, NEW l, NEW g, Longer(f, l, g), NEW B \in SUBSET (DOMAIN f)
    PROVE  SubIds(g, With(B, f))
           = IF l.key \in {"subnet", "mask"} THEN SubIds(f, B) \cup {l.n} ELSE SubIds(f, B)
<1> DEFINE m == Len(f) + 1
<1>1. g[m] = l /\ \A j \in B : g[j] = f[j]
  BY DEF Longer
<1> HIDE DEF m
<1>2. SubIds(g, B \cup {m}) = IF l.key \in {"subnet", "mask"} THEN SubIds(f, B) \cup {l.n}
                              ELSE SubIds(f, B)
  BY <1>1 DEF SubIds
<1> QED BY <1>2 DEF m, With

\* A field of a subnet that is written.
LEMMA SubWritten ==
    ASSUME NEW r \in SubRecs, NEW v
    PROVE  /\ Put(r, "net", v).id = r.id /\ Put(r, "mask", v).id = r.id
           /\ Put(r, "net", v).net = v /\ Put(r, "net", v).mask = r.mask
           /\ Put(r, "mask", v).mask = v /\ Put(r, "mask", v).net = r.net
BY DEF SubRecs, Put

\* The subnets of the list, found and written, are those of the longer block.
LEMMA SubsApplied ==
    ASSUME NEW c, HostOK(c), NEW f, NEW l, NEW g, Longer(f, l, g),
           NEW B \in SUBSET (DOMAIN f), Match(c, f, B), NEW d, HostOK(d), d.fam = c.fam,
           NEW s, Found(c.subs, l.n, s), c.fam # {},
           \/ l.key = "subnet" /\ Wrote(s, l.n, "net", l.v, d.subs)
           \/ l.key = "mask" /\ Wrote(s, l.n, "mask", l.v, d.subs)
           \/ l.key = "mask" /\ 4 \notin c.fam /\ d.subs = s
    PROVE  /\ Distinct(d.subs) /\ Ids(d.subs) = SubIds(g, With(B, f))
           /\ d.fam \subseteq {4} =>
                \A i \in DOMAIN d.subs :
                  /\ IsLast(g, With(B, f), "subnet", d.subs[i].id, d.subs[i].net)
                  /\ IsLast(g, With(B, f), "mask", d.subs[i].id, d.subs[i].mask)
<1> DEFINE D == With(B, f)
<1>1. SubIds(g, D) = SubIds(f, B) \cup {l.n}
  <2>1. SubIds(g, D) = IF l.key \in {"subnet", "mask"} THEN SubIds(f, B) \cup {l.n}
                       ELSE SubIds(f, B)
    BY SubIdsLonger
  <2> QED BY <2>1
<1>2. Distinct(c.subs) /\ Ids(c.subs) = SubIds(f, B)
  BY DEF Match
<1>3. /\ s \in Seq(SubRecs) /\ Ids(s) = Ids(c.subs) \cup {l.n} /\ Distinct(s)
      /\ \A i \in DOMAIN s : \/ \E j \in DOMAIN c.subs : c.subs[j] = s[i]
                             \/ l.n \notin Ids(c.subs) /\ s[i] = NewSub(l.n)
  BY <1>2 DEF Found
<1>4. /\ DOMAIN d.subs = DOMAIN s
      /\ \A i \in DOMAIN s : s[i] \in SubRecs /\ d.subs[i].id = s[i].id
  <2>1. \A i \in DOMAIN s : s[i] \in SubRecs
    BY <1>3
  <2>2. CASE Wrote(s, l.n, "net", l.v, d.subs)
    BY <2>1, <2>2, SubWritten DEF Wrote
  <2>3. CASE Wrote(s, l.n, "mask", l.v, d.subs)
    BY <2>1, <2>3, SubWritten DEF Wrote
  <2> QED BY <2>1, <2>2, <2>3
<1>5. Ids(d.subs) = Ids(s) /\ Distinct(d.subs)
  BY <1>3, <1>4 DEF Ids, Distinct
<1>6. ASSUME d.fam \subseteq {4}, NEW i \in DOMAIN s
      PROVE  /\ IsLast(g, D, "subnet", d.subs[i].id, d.subs[i].net)
             /\ IsLast(g, D, "mask", d.subs[i].id, d.subs[i].mask)
  <2>1. /\ IsLast(f, B, "subnet", s[i].id, s[i].net)
        /\ IsLast(f, B, "mask", s[i].id, s[i].mask)
    <3>1. CASE \E j \in DOMAIN c.subs : c.subs[j] = s[i]
      BY <1>6, <3>1 DEF Match
    <3>2. CASE l.n \notin Ids(c.subs) /\ s[i] = NewSub(l.n)
      <4>1. s[i].id = l.n /\ s[i].net = 0 /\ s[i].mask = 0
        BY <3>2 DEF NewSub
      <4>2. \A j \in B : ~Has(f, j, "subnet", l.n) /\ ~Has(f, j, "mask", l.n)
        BY <1>2, <3>2 DEF SubIds, Has
      <4> QED BY <4>1, <4>2 DEF IsLast
    <3> QED BY <1>3, <1>6, <3>1, <3>2
  <2>2. s[i] \in SubRecs
    BY <1>4, <1>6
  <2>3. IsLast(g, D, l.key, l.n, l.v)
    BY LastIsNew
  <2>4. \A key, v : IsLast(f, B, key, s[i].id, v) /\ ~(l.key = key /\ l.n = s[i].id)
                    => IsLast(g, D, key, s[i].id, v)
    BY LastLonger
  <2> HIDE DEF D
  <2>5. CASE l.key = "subnet" /\ Wrote(s, l.n, "net", l.v, d.subs)
    <3>1. /\ d.subs[i].id = s[i].id /\ d.subs[i].mask = s[i].mask
          /\ d.subs[i].net = IF s[i].id = l.n THEN l.v ELSE s[i].net
      BY <1>6, <2>2, <2>5, SubWritten DEF Wrote
    <3> QED BY <2>1, <2>3, <2>4, <2>5, <3>1
  <2>6. CASE l.key = "mask" /\ Wrote(s, l.n, "mask", l.v, d.subs)
    <3>1. /\ d.subs[i].id = s[i].id /\ d.subs[i].net = s[i].net
          /\ d.subs[i].mask = IF s[i].id = l.n THEN l.v ELSE s[i].mask
      BY <1>6, <2>2, <2>6, SubWritten DEF Wrote
    <3> QED BY <2>1, <2>3, <2>4, <2>6, <3>1
  <2>7. CASE l.key = "mask" /\ 4 \notin c.fam /\ d.subs = s
    BY <1>6, <2>7
  <2> QED BY <2>5, <2>6, <2>7
<1> QED BY <1>1, <1>2, <1>3, <1>4, <1>5, <1>6

\* An accepted line makes the host that of the longer block.
LEMMA MatchApplied ==
    ASSUME NEW c, HostOK(c), NEW f, NEW l, NEW g, Longer(f, l, g),
           NEW B \in SUBSET (DOMAIN f), Match(c, f, B), NEW d, HostOK(d),
           Applied(c, l, d), d.id = c.id, l.id = c.id,
           l.key \notin {"subnet", "mask"} => l.n = 0
    PROVE  Match(d, g, With(B, f))
<1> DEFINE m == Len(f) + 1
           D == With(B, f)
<1>1. \A i \in D : g[i].id = d.id
  <2>1. g[m] = l /\ \A i \in B : g[i] = f[i]
    BY DEF Longer
  <2> HIDE DEF m
  <2>2. D = B \cup {m}
    BY DEF With, m
  <2> HIDE DEF D
  <2> QED BY <2>1, <2>2 DEF Match
<1>2. IsLast(g, D, "address", 0, d.addr)
  <2>1. CASE l.key = "address"
    <3>1. IsLast(g, D, l.key, l.n, l.v)
      BY LastIsNew, Zenon
    <3> QED BY <2>1, <3>1 DEF Applied
  <2>2. CASE l.key # "address"
    <3>1. d.addr = c.addr /\ IsLast(f, B, "address", 0, c.addr)
      BY <2>2 DEF Applied, Match
    <3> QED BY <2>2, <3>1, LastLonger
  <2> QED BY <2>1, <2>2
<1>3. /\ Distinct(d.subs) /\ Ids(d.subs) = SubIds(g, D)
      /\ d.fam \subseteq {4} =>
           \A i \in DOMAIN d.subs :
             /\ IsLast(g, D, "subnet", d.subs[i].id, d.subs[i].net)
             /\ IsLast(g, D, "mask", d.subs[i].id, d.subs[i].mask)
  <2>1. CASE l.key \notin {"subnet", "mask"}
    <3>1. d.subs = c.subs /\ (d.fam \subseteq {4} => c.fam \subseteq {4})
      BY <2>1 DEF Applied
    <3>2. SubIds(g, D) = SubIds(f, B)
      <4>1. SubIds(g, D) = IF l.key \in {"subnet", "mask"} THEN SubIds(f, B) \cup {l.n}
                           ELSE SubIds(f, B)
        BY SubIdsLonger, Zenon
      <4> QED BY <2>1, <4>1
    <3>3. \A key, n, v : IsLast(f, B, key, n, v) /\ key \in {"subnet", "mask"}
                         => IsLast(g, D, key, n, v)
      BY <2>1, LastLonger
    <3> HIDE DEF D
    <3> QED BY <3>1, <3>2, <3>3 DEF Match
  <2>2. CASE l.key \in {"subnet", "mask"}
    <3>1. PICK s : /\ Found(c.subs, l.n, s)
                   /\ \/ Wrote(s, l.n, IF l.key = "subnet" THEN "net" ELSE "mask", l.v, d.subs)
                      \/ l.key = "mask" /\ 4 \notin c.fam /\ d.subs = s
      BY <2>2 DEF Applied
    <3>2. d.fam = c.fam /\ c.fam # {}
      BY <2>2 DEF Applied
    <3>3. \/ l.key = "subnet" /\ Wrote(s, l.n, "net", l.v, d.subs)
          \/ l.key = "mask" /\ Wrote(s, l.n, "mask", l.v, d.subs)
          \/ l.key = "mask" /\ 4 \notin c.fam /\ d.subs = s
      BY <2>2, <3>1
    <3> QED BY <3>1, <3>2, <3>3, SubsApplied
  <2> QED BY <2>1, <2>2
<1> HIDE DEF D
<1>4. Match(d, g, D)
  BY <1>1, <1>2, <1>3 DEF Match
<1> QED BY <1>4 DEF D

\* What the properties call a host that reads as the file says.
LEMMA MatchReads ==
    ASSUME NEW h, HostOK(h), NEW f, NEW B \in SUBSET Nat, Match(h, f, B)
    PROVE  Reads(h, f, B)
<1> DEFINE s == h.subs
<1>1. s \in Seq(SubRecs) /\ DOMAIN s = 1..Len(s) /\ Len(s) \in Nat
  BY DEF HostOK
<1>2. h.addr = LastIn(f, B, "address", 0)
  BY LastInIs DEF Match
<1>3. Len(s) = Cardinality(SubsOf(h))
  <2> DEFINE T == SubsOf(h)
  <2>1. T = {s[i] : i \in 1..Len(s)}
    BY <1>1 DEF SubsOf
  <2>2. \A i, j \in 1..Len(s) : s[i] = s[j] => i = j
    BY <1>1 DEF Match, Distinct
  <2>3. s \in [1..Len(s) -> T]
    BY <1>1, <2>1
  <2>4. s \in Bijection(1..Len(s), T)
    BY <2>1, <2>2, <2>3 DEF Bijection, Injection, Surjection, IsInjective
  <2>5. ExistsBijection(1..Len(s), T)
    BY <2>4 DEF ExistsBijection
  <2>6. IsFiniteSet(1..Len(s)) /\ Cardinality(1..Len(s)) = Len(s)
    BY <1>1, FS_Interval
  <2> HIDE DEF T
  <2>7. Cardinality(T) = Cardinality(1..Len(s))
    BY <2>5, <2>6, FS_Bijection
  <2> QED BY <2>6, <2>7 DEF T
<1>4. ASSUME h.fam = {4} PROVE SubsOf(h) = SubsIn(f, B)
  <2> DEFINE Of(n) == [id |-> n, net |-> LastIn(f, B, "subnet", n),
                       mask |-> LastIn(f, B, "mask", n)]
  <2>1. ASSUME NEW i \in DOMAIN s PROVE s[i] = Of(s[i].id)
    <3>1. /\ IsLast(f, B, "subnet", s[i].id, s[i].net)
          /\ IsLast(f, B, "mask", s[i].id, s[i].mask)
      BY <1>4, <2>1 DEF Match
    <3>2. /\ LastIn(f, B, "subnet", s[i].id) = s[i].net
          /\ LastIn(f, B, "mask", s[i].id) = s[i].mask
      BY <3>1, LastInIs
    <3>3. s[i] \in SubRecs
      BY <1>1, <2>1
    <3> QED BY <3>2, <3>3 DEF SubRecs
  <2>2. {s[i].id : i \in DOMAIN s} = SubIds(f, B)
    BY DEF Match, Ids
  <2>3. SubsIn(f, B) = {Of(n) : n \in SubIds(f, B)}
    BY DEF SubsIn
  <2> HIDE DEF Of
  <2> QED BY <2>1, <2>2, <2>3 DEF SubsOf
<1> QED BY <1>2, <1>3, <1>4 DEF Reads, Match

-----------------------------------------------------------------------------
(* Ranks                                                                   *)

\* The rank of a member, of the one that is put behind all others, and of the
\* members before it.
LEMMA Ranks ==
    ASSUME NEW S \in SUBSET Nat, IsFiniteSet(S)
    PROVE  /\ \A i \in S : /\ Rank(S, i) \in Nat /\ Rank(S, i) <= Cardinality(S)
                           /\ Rank(S, i) = Cardinality(S) <=> ~\E j \in S : i < j
           /\ \A x \in Nat : (\A j \in S : j < x) =>
                /\ IsFiniteSet(S \cup {x}) /\ Cardinality(S \cup {x}) = Cardinality(S) + 1
                /\ Rank(S \cup {x}, x) = Cardinality(S) + 1
                /\ \A i \in S : Rank(S \cup {x}, i) = Rank(S, i)
<1>1. ASSUME NEW i \in S
      PROVE  /\ Rank(S, i) \in Nat /\ Rank(S, i) <= Cardinality(S)
             /\ Rank(S, i) = Cardinality(S) <=> ~\E j \in S : i < j
  <2> DEFINE T == {j \in S : j <= i}
  <2>1. T \in SUBSET S /\ (T = S <=> ~\E j \in S : i < j)
    <3>1. \A j \in S : (j <= i) <=> ~(i < j)
      OBVIOUS
    <3>2. T = S <=> \A j \in S : j <= i
      OBVIOUS
    <3> QED BY <3>1, <3>2
  <2>2. Rank(S, i) = Cardinality(T)
    BY DEF Rank
  <2> HIDE DEF T
  <2>3. /\ IsFiniteSet(T) /\ Cardinality(T) <= Cardinality(S)
        /\ Cardinality(S) = Cardinality(T) => S = T
    BY <2>1, FS_Subset
  <2>4. Cardinality(T) \in Nat
    BY <2>3, FS_CardinalityType
  <2> QED BY <2>1, <2>2, <2>3, <2>4
<1>2. ASSUME NEW x \in Nat, \A j \in S : j < x
      PROVE  /\ IsFiniteSet(S \cup {x}) /\ Cardinality(S \cup {x}) = Cardinality(S) + 1
             /\ Rank(S \cup {x}, x) = Cardinality(S) + 1
             /\ \A i \in S : Rank(S \cup {x}, i) = Rank(S, i)
  <2>1. x \notin S
    BY <1>2
  <2>2. IsFiniteSet(S \cup {x}) /\ Cardinality(S \cup {x}) = Cardinality(S) + 1
    BY <2>1, FS_AddElement
  <2>3. {j \in S \cup {x} : j <= x} = S \cup {x}
    <3>1. \A j \in S \cup {x} : j <= x
      BY <1>2
    <3> QED BY <3>1
  <2>4. \A i \in S : {j \in S \cup {x} : j <= i} = {j \in S : j <= i}
    BY <1>2
  <2> QED BY <2>2, <2>3, <2>4 DEF Rank
<1> QED BY <1>1, <1>2

-----------------------------------------------------------------------------
(* The hosts that were sent are the blocks of the file                     *)

\* The blocks in the order of the hosts, the last of which is collected still.
DataOK(f, p) ==
    /\ Cardinality(Starts(f))
       = Cardinality(Hosts(p.sent)) + (IF p.cur.id = 0 THEN 0 ELSE 1)
    /\ \A s \in Starts(f) :
         /\ \A k \in Hosts(p.sent) :
              Rank(Hosts(p.sent), k) = Rank(Starts(f), s)
                => Match(p.sent[k].host, f, BlockOf(f, s))
         /\ Rank(Starts(f), s) > Cardinality(Hosts(p.sent)) => Match(p.cur, f, BlockOf(f, s))

\* It is the host of the last remote line, or there is none.
LastOK(f, p) ==
    /\ p.cur.id # 0 => \E k \in Remotes(f) : /\ f[k].id = p.cur.id
                                             /\ \A j \in Remotes(f) : j <= k
    /\ p.cur.id = 0 => Remotes(f) = {} /\ p.cur.addr = 0 /\ p.cur.subs = <<>>

\* The blocks and the hosts are finitely many positions.
LEMMA StartsFinite ==
    ASSUME NEW f \in Seq(LineRecs)
    PROVE  /\ Starts(f) \in SUBSET Nat /\ IsFiniteSet(Starts(f))
           /\ \A s : BlockOf(f, s) \in SUBSET (DOMAIN f)
<1>1. DOMAIN f = 1..Len(f) /\ Len(f) \in Nat
  OBVIOUS
<1>2. Starts(f) \in SUBSET (1..Len(f)) /\ \A s : BlockOf(f, s) \in SUBSET (DOMAIN f)
  BY <1>1 DEF Starts, Remotes, BlockOf
<1>3. IsFiniteSet(1..Len(f))
  BY <1>1, FS_Interval
<1> QED BY <1>1, <1>2, <1>3, FS_Subset

\* The messages about remote hosts are finitely many positions.
LEMMA HostsFinite ==
    ASSUME NEW m, IsSeq(m)
    PROVE  /\ Hosts(m) \in SUBSET Nat /\ IsFiniteSet(Hosts(m))
           /\ \A k \in Hosts(m) : k \in 1..Len(m)
<1>1. Len(m) \in Nat /\ m = [i \in 1..Len(m) |-> m[i]]
  BY DEF IsSeq
<1>2. DOMAIN m = 1..Len(m)
  BY <1>1
<1>3. Hosts(m) \in SUBSET (1..Len(m))
  BY <1>2 DEF Hosts
<1>4. ASSUME NEW n \in Nat PROVE IsFiniteSet(1..n)
  BY FS_Interval
<1>5. IsFiniteSet(1..Len(m)) /\ Len(m) \in Nat
  BY <1>1, <1>4, Zenon
<1>6. IsFiniteSet(Hosts(m))
  BY <1>3, <1>5, FS_Subset
<1> QED BY <1>3, <1>5, <1>6

\* One more message is one more host, if it is about a host.
LEMMA HostsAppended ==
    ASSUME NEW s, IsSeq(s), NEW h, NEW t, Appended(s, h, t)
    PROVE  /\ h.id = 0 => Hosts(t) = Hosts(s) /\ Given(t) = Given(s)
           /\ h.id # 0 => Hosts(t) = Hosts(s) \cup {Len(s) + 1}
           /\ h.id # 0 /\ h.addr = 0 => Given(t) = Given(s)
           /\ h.id # 0 /\ h.addr # 0 => Given(t) = Given(s) \cup {Len(s) + 1}
           /\ \A k \in Hosts(s) : t[k] = s[k] /\ k \in Nat /\ k < Len(s) + 1
           /\ t[Len(s) + 1].host = h /\ Len(s) + 1 \in Nat
<1> DEFINE n == Len(s) + 1
<1>1. Len(s) \in Nat /\ DOMAIN s = 1..Len(s) /\ DOMAIN t = 1..Len(t) /\ Len(t) = n
  BY DEF IsSeq, Appended
<1>2. DOMAIN t = DOMAIN s \cup {n} /\ n \in Nat /\ \A i \in DOMAIN s : i \in Nat /\ i < n
  BY <1>1
<1>3. t[n].host = h /\ \A i \in DOMAIN s : t[i] = s[i]
  BY <1>1 DEF Appended
<1> HIDE DEF n
<1>4. /\ h.id = 0 => Hosts(t) = Hosts(s)
      /\ h.id # 0 => Hosts(t) = Hosts(s) \cup {n}
  BY <1>2, <1>3 DEF Hosts
<1>5. /\ h.id = 0 => Given(t) = Given(s)
      /\ h.id # 0 /\ h.addr = 0 => Given(t) = Given(s)
      /\ h.id # 0 /\ h.addr # 0 => Given(t) = Given(s) \cup {n}
  BY <1>2, <1>3 DEF Hosts, Given
<1>6. \A k \in Hosts(s) : t[k] = s[k] /\ k \in Nat /\ k < n
  BY <1>2, <1>3 DEF Hosts
<1> QED BY <1>2, <1>3, <1>4, <1>5, <1>6 DEF n

\* A line that leaves the hosts alone.
LEMMA OtherData ==
    ASSUME NEW f \in Seq(LineRecs), NEW l \in LineRecs, NEW p, Good(p), DataOK(f, p),
           LastOK(f, p), NEW q, Other(p, l, q), q.stat = 0
    PROVE  DataOK(Append(f, l), q) /\ LastOK(Append(f, l), q)
<1> DEFINE g == Append(f, l)
<1>1. l.kind # "remote" /\ q.cur = p.cur
  BY DEF Other
<1>2. Longer(f, l, g)
  BY AppendLonger
<1> HIDE DEF g
<1>3. /\ Remotes(g) = Remotes(f) /\ Starts(g) = Starts(f)
      /\ \A s : BlockOf(g, s) = BlockOf(f, s)
  BY <1>1, <1>2, OtherBlocks
<1>4. IsSeq(p.sent)
  BY DEF Good, ParserOK
<1>5. Hosts(q.sent) = Hosts(p.sent) /\ \A k \in Hosts(p.sent) : q.sent[k] = p.sent[k]
  <2>1. CASE q.sent = p.sent
    BY <2>1
  <2>2. CASE Appended(p.sent, EmptyHost(0), q.sent)
    <3>1. EmptyHost(0).id = 0
      BY DEF EmptyHost
    <3> QED BY <1>4, <2>2, <3>1, HostsAppended
  <2> QED BY <2>1, <2>2 DEF Other
<1>6. \A h, s : Match(h, f, BlockOf(f, s)) => Match(h, g, BlockOf(g, s))
  BY <1>2, <1>3, StartsFinite, MatchLonger
<1>7. DataOK(g, q)
  BY <1>1, <1>3, <1>5, <1>6 DEF DataOK
<1>8. LastOK(g, q)
  BY <1>1, <1>2, <1>3, RemotesLonger DEF LastOK
<1> QED BY <1>7, <1>8 DEF g

\* Another line of the host that is collected.
LEMMA SameData ==
    ASSUME NEW f \in Seq(LineRecs), NEW l \in LineRecs, NEW p, Good(p), DataOK(f, p),
           LastOK(f, p), NEW q, l.kind = "remote", l.id = p.cur.id, l.id > 0,
           SameHost(p, q), Applied(p.cur, l, q.cur),
           l.key \notin {"subnet", "mask"} => l.n = 0
    PROVE  DataOK(Append(f, l), q) /\ LastOK(Append(f, l), q)
<1> DEFINE g == Append(f, l)
           n == Len(f) + 1
           S == Starts(f)
           H == Hosts(p.sent)
<1>1. Longer(f, l, g) /\ g[n] = l /\ n \in Nat
  BY AppendLonger DEF Longer
<1> HIDE DEF g
<1>2. PICK k \in Remotes(f) : f[k].id = l.id /\ \A j \in Remotes(f) : j <= k
  BY DEF LastOK, LineRecs
<1>3. /\ Starts(g) = S
      /\ \A s \in S : /\ (\E i \in S : s < i) => BlockOf(g, s) = BlockOf(f, s)
                      /\ ~(\E i \in S : s < i) => BlockOf(g, s) = With(BlockOf(f, s), f)
  BY <1>1, <1>2, SameBlocks DEF With
<1>4. /\ S \in SUBSET Nat /\ IsFiniteSet(S) /\ \A s : BlockOf(f, s) \in SUBSET (DOMAIN f)
      /\ IsSeq(p.sent) /\ HostOK(p.cur) /\ HostOK(q.cur)
      /\ q.sent = p.sent /\ q.cur.id = p.cur.id /\ p.cur.id # 0
  BY StartsFinite DEF Good, ParserOK, SameHost, LineRecs
<1>5. Cardinality(H) \in Nat /\ Cardinality(S) = Cardinality(H) + 1
  BY <1>4, HostsFinite, FS_CardinalityType DEF DataOK
<1>6. \A i \in H : Rank(H, i) \in Nat /\ Rank(H, i) <= Cardinality(H)
  BY <1>4, HostsFinite, Ranks
<1>7. ASSUME NEW s \in S
      PROVE  /\ Rank(S, s) \in Nat /\ Rank(S, s) <= Cardinality(S)
             /\ Rank(S, s) = Cardinality(S) <=> ~\E i \in S : s < i
  BY <1>4, Ranks
<1>8. ASSUME NEW s \in S
      PROVE  /\ \A i \in H : Rank(H, i) = Rank(S, s)
                               => Match(q.sent[i].host, g, BlockOf(g, s))
             /\ Rank(S, s) > Cardinality(H) => Match(q.cur, g, BlockOf(g, s))
  <2>1. ASSUME NEW i \in H, Rank(H, i) = Rank(S, s)
        PROVE  Match(q.sent[i].host, g, BlockOf(g, s))
    <3>1. BlockOf(g, s) = BlockOf(f, s)
      BY <1>3, <1>5, <1>6, <1>7, <2>1
    <3>2. Match(p.sent[i].host, f, BlockOf(f, s))
      BY <2>1 DEF DataOK
    <3> QED BY <1>1, <1>4, <3>1, <3>2, MatchLonger
  <2>2. ASSUME Rank(S, s) > Cardinality(H)
        PROVE  Match(q.cur, g, BlockOf(g, s))
    <3>1. BlockOf(g, s) = With(BlockOf(f, s), f)
      BY <1>3, <1>5, <1>7, <2>2
    <3>2. Match(p.cur, f, BlockOf(f, s))
      BY <2>2 DEF DataOK
    <3> QED BY <1>1, <1>4, <3>1, <3>2, MatchApplied
  <2> QED BY <2>1, <2>2
<1>9. DataOK(g, q)
  BY <1>3, <1>4, <1>5, <1>8 DEF DataOK
<1>10. LastOK(g, q)
  <2>1. Remotes(g) = Remotes(f) \cup {n} /\ \A j \in Remotes(f) : j \in Nat /\ j < n
    BY <1>1, RemotesLonger
  <2>2. n \in Remotes(g) /\ \A j \in Remotes(g) : j <= n
    BY <1>1, <2>1
  <2> HIDE DEF n
  <2> QED BY <1>1, <1>4, <2>2 DEF LastOK
<1> QED BY <1>9, <1>10 DEF g

\* The first line of another host.
LEMMA NewData ==
    ASSUME NEW f \in Seq(LineRecs), NEW l \in LineRecs, NEW p, Good(p), DataOK(f, p),
           LastOK(f, p), NEW m, Switched(p, l, m), NEW q, l.kind = "remote",
           SameHost(m, q), Applied(m.cur, l, q.cur),
           l.key \notin {"subnet", "mask"} => l.n = 0
    PROVE  DataOK(Append(f, l), q) /\ LastOK(Append(f, l), q)
<1> DEFINE g == Append(f, l)
           n == Len(f) + 1
           S == Starts(f)
           H == Hosts(p.sent)
           x == Len(p.sent) + 1
           J == Hosts(q.sent)
<1>1. Longer(f, l, g) /\ g[n] = l /\ n \in Nat
  BY AppendLonger DEF Longer
<1> HIDE DEF g
<1>2. /\ S \in SUBSET Nat /\ IsFiniteSet(S) /\ \A s : BlockOf(f, s) \in SUBSET (DOMAIN f)
      /\ IsSeq(p.sent) /\ HostOK(p.cur) /\ HostOK(m.cur) /\ HostOK(q.cur)
      /\ q.sent = m.sent /\ q.cur.id = m.cur.id
  BY StartsFinite DEF Good, ParserOK, SameHost, Switched
<1>3. l.id > 0 /\ l.id # p.cur.id /\ m.cur.id = l.id
  BY DEF Switched
<1>4. /\ Starts(g) = S \cup {n} /\ \A s \in S : BlockOf(g, s) = BlockOf(f, s)
      /\ BlockOf(g, n) = {n}
  <2>1. \A k \in Remotes(f) : (\A j \in Remotes(f) : j <= k) => f[k].id # l.id
    <3>1. CASE p.cur.id = 0
      BY <3>1 DEF LastOK
    <3>2. CASE p.cur.id # 0
      <4>1. PICK k \in Remotes(f) : f[k].id = p.cur.id /\ \A j \in Remotes(f) : j <= k
        BY <3>2 DEF LastOK
      <4>2. \A j \in Remotes(f) : j \in Nat
        BY <1>1, RemotesLonger
      <4> QED BY <1>3, <4>1, <4>2
    <3> QED BY <3>1, <3>2
  <2> QED BY <1>1, <2>1, NewBlocks
<1>5. \A s \in S : s \in Nat /\ s < n
  BY <1>1, RemotesLonger
<1>6. Match(q.cur, g, BlockOf(g, n))
  <2>1. m.cur.addr = 0 /\ m.cur.subs = <<>>
    BY DEF Switched, LastOK
  <2>2. Match(m.cur, f, {})
    BY <2>1, MatchNone
  <2>3. {} \in SUBSET (DOMAIN f)
    OBVIOUS
  <2>4. Match(q.cur, g, With({}, f))
    BY <1>1, <1>2, <1>3, <2>2, <2>3, MatchApplied
  <2> QED BY <1>4, <2>4 DEF With
<1>7. q.cur.id # 0
  BY <1>2, <1>3 DEF LineRecs
<1> HIDE DEF n
<1>8. /\ Cardinality(S) \in Nat /\ Cardinality(Starts(g)) = Cardinality(S) + 1
      /\ Rank(Starts(g), n) = Cardinality(S) + 1
      /\ \A s \in S : Rank(Starts(g), s) = Rank(S, s) /\ Rank(S, s) \in Nat
                      /\ Rank(S, s) <= Cardinality(S)
  <2>1. Cardinality(S) \in Nat
    BY <1>2, FS_CardinalityType
  <2> HIDE DEF S
  <2>2. /\ Cardinality(S \cup {n}) = Cardinality(S) + 1
        /\ Rank(S \cup {n}, n) = Cardinality(S) + 1
        /\ \A i \in S : Rank(S \cup {n}, i) = Rank(S, i)
    BY <1>1, <1>2, <1>5, Ranks
  <2>3. \A i \in S : Rank(S, i) \in Nat /\ Rank(S, i) <= Cardinality(S)
    BY <1>2, Ranks
  <2> QED BY <1>4, <2>1, <2>2, <2>3
<1>9. DataOK(g, q)
  <2>1. Cardinality(H) \in Nat /\ IsFiniteSet(H) /\ H \in SUBSET Nat
    BY <1>2, HostsFinite, FS_CardinalityType
  <2>2. CASE p.cur.id = 0 /\ m.sent = p.sent
    <3>1. S = {} /\ Cardinality(S) = 0
      BY <2>2, FS_EmptySet DEF LastOK, Starts
    <3>2. Cardinality(H) = 0 /\ H = {}
      BY <2>1, <2>2, <3>1, FS_EmptySet DEF DataOK
    <3>3. J = {} /\ Cardinality(J) = 0 /\ Starts(g) = {n}
      BY <1>2, <1>4, <2>2, <3>1, <3>2
    <3> HIDE DEF J, S, H
    <3> QED BY <1>6, <1>7, <1>8, <3>1, <3>3 DEF DataOK, J
  <2>3. CASE p.cur.id # 0 /\ Appended(p.sent, p.cur, m.sent)
    <3>1. /\ J = H \cup {x} /\ x \in Nat /\ q.sent[x].host = p.cur
          /\ \A k \in H : q.sent[k] = p.sent[k] /\ k \in Nat /\ k < x
      BY <1>2, <2>3, HostsAppended
    <3> HIDE DEF x, J, H
    <3>2. /\ Cardinality(J) = Cardinality(H) + 1 /\ Rank(J, x) = Cardinality(H) + 1
          /\ \A k \in H : Rank(J, k) = Rank(H, k)
      <4>1. \A j \in H : j < x
        BY <3>1
      <4>2. /\ Cardinality(H \cup {x}) = Cardinality(H) + 1
            /\ Rank(H \cup {x}, x) = Cardinality(H) + 1
            /\ \A k \in H : Rank(H \cup {x}, k) = Rank(H, k)
        BY <2>1, <3>1, <4>1, Ranks
      <4> QED BY <3>1, <4>2
    <3>3. \A k \in H : Rank(H, k) \in Nat /\ Rank(H, k) <= Cardinality(H)
      BY <2>1, Ranks
    <3>4. Cardinality(S) = Cardinality(H) + 1
      BY <2>3 DEF DataOK, H
    <3>5. ASSUME NEW s \in S
          PROVE  /\ \A k \in J : Rank(J, k) = Rank(Starts(g), s)
                                   => Match(q.sent[k].host, g, BlockOf(g, s))
                 /\ ~(Rank(Starts(g), s) > Cardinality(J))
      <4>1. ~(Rank(Starts(g), s) > Cardinality(J))
        BY <1>8, <2>1, <3>2, <3>4
      <4>2. ASSUME NEW k \in H, Rank(J, k) = Rank(Starts(g), s)
            PROVE  Match(q.sent[k].host, g, BlockOf(g, s))
        <5>1. Match(p.sent[k].host, f, BlockOf(f, s))
          BY <1>8, <3>2, <4>2 DEF DataOK, H
        <5>2. Match(p.sent[k].host, g, BlockOf(f, s))
          BY <1>1, <1>2, <5>1, MatchLonger
        <5> QED BY <1>4, <3>1, <5>2
      <4>3. ASSUME Rank(J, x) = Rank(Starts(g), s)
            PROVE  Match(q.sent[x].host, g, BlockOf(g, s))
        <5>1. Rank(S, s) > Cardinality(H)
          BY <1>8, <2>1, <3>2, <4>3
        <5>2. Match(p.cur, f, BlockOf(f, s))
          BY <5>1 DEF DataOK, H
        <5>3. Match(p.cur, g, BlockOf(f, s))
          BY <1>1, <1>2, <5>2, MatchLonger
        <5> QED BY <1>4, <3>1, <5>3
      <4> QED BY <3>1, <4>1, <4>2, <4>3
    <3>6. \A k \in J : Rank(J, k) # Rank(Starts(g), n)
      <4>1. Rank(Starts(g), n) = Cardinality(H) + 2
        BY <1>8, <2>1, <3>4
      <4>2. Rank(J, x) # Cardinality(H) + 2
        BY <2>1, <3>2
      <4>3. \A k \in H : Rank(J, k) # Cardinality(H) + 2
        BY <2>1, <3>2, <3>3
      <4> QED BY <3>1, <4>1, <4>2, <4>3
    <3> HIDE DEF S
    <3>7. \A s \in Starts(g) :
            /\ \A k \in J : Rank(J, k) = Rank(Starts(g), s)
                              => Match(q.sent[k].host, g, BlockOf(g, s))
            /\ Rank(Starts(g), s) > Cardinality(J) => Match(q.cur, g, BlockOf(g, s))
      BY <1>4, <1>6, <3>5, <3>6
    <3> QED BY <1>7, <1>8, <2>1, <3>2, <3>4, <3>7 DEF DataOK, J
  <2> QED BY <2>2, <2>3 DEF Switched
<1>10. LastOK(g, q)
  <2>1. Remotes(g) = Remotes(f) \cup {n} /\ \A j \in Remotes(f) : j \in Nat /\ j < n
    BY <1>1, RemotesLonger DEF n
  <2>2. n \in Remotes(g) /\ \A j \in Remotes(g) : j <= n
    BY <1>1, <2>1
  <2> QED BY <1>1, <1>2, <1>3, <1>7, <2>2 DEF LastOK
<1> QED BY <1>9, <1>10 DEF g

-----------------------------------------------------------------------------
(* Android's first host with an address                                    *)

FirstOK(p) ==
    \/ Given(p.sent) = {} /\ p.first = IF p.cur.addr # 0 THEN p.cur.id ELSE 0
    \/ \E k \in Given(p.sent) : /\ \A j \in Given(p.sent) : k <= j
                                /\ p.first = p.sent[k].host.id

\* The host that is collected is sent: the next one has no address yet.
LEMMA FirstSent ==
    ASSUME NEW p, ParserOK(p), FirstOK(p), p.cur.id # 0, NEW q, q.first = p.first,
           q.cur.addr = 0, Appended(p.sent, p.cur, q.sent)
    PROVE  FirstOK(q)
<1> DEFINE x == Len(p.sent) + 1
<1>1. IsSeq(p.sent)
  BY DEF ParserOK
<1>2. /\ p.cur.addr = 0 => Given(q.sent) = Given(p.sent)
      /\ p.cur.addr # 0 => Given(q.sent) = Given(p.sent) \cup {x}
      /\ \A k \in Hosts(p.sent) : q.sent[k] = p.sent[k] /\ k \in Nat /\ k < x
      /\ q.sent[x].host = p.cur /\ x \in Nat
  BY <1>1, HostsAppended
<1>3. Given(p.sent) \subseteq Hosts(p.sent)
  BY DEF Given
<1> HIDE DEF x
<1>4. CASE Given(p.sent) = {} /\ p.first = IF p.cur.addr # 0 THEN p.cur.id ELSE 0
  <2>1. CASE p.cur.addr = 0
    BY <1>2, <1>4, <2>1 DEF FirstOK
  <2>2. CASE p.cur.addr # 0
    <3>1. Given(q.sent) = {x} /\ q.first = q.sent[x].host.id /\ x <= x
      BY <1>2, <1>4, <2>2
    <3> QED BY <3>1 DEF FirstOK
  <2> QED BY <2>1, <2>2
<1>5. CASE \E k \in Given(p.sent) : /\ \A j \in Given(p.sent) : k <= j
                                    /\ p.first = p.sent[k].host.id
  <2>1. PICK k \in Given(p.sent) : /\ \A j \in Given(p.sent) : k <= j
                                   /\ p.first = p.sent[k].host.id
    BY <1>5
  <2>2. k \in Given(q.sent) /\ q.first = q.sent[k].host.id
    BY <1>2, <1>3, <2>1
  <2>3. \A j \in Given(q.sent) : k <= j
    BY <1>2, <1>3, <2>1
  <2> QED BY <2>2, <2>3 DEF FirstOK
<1> QED BY <1>4, <1>5 DEF FirstOK

\* A line of the host that is collected.
LEMMA FirstNoted ==
    ASSUME NEW m, FirstOK(m), m.cur.id # 0, NEW l \in LineRecs, NEW q, q.stat = 0,
           SameHost(m, q), Applied(m.cur, l, q.cur), AndNoted(m, l, q)
    PROVE  FirstOK(q)
<1>1. q.sent = m.sent /\ q.cur.id = m.cur.id
  BY DEF SameHost
<1>2. CASE l.key # "address"
  <2>1. q.cur.addr = m.cur.addr /\ q.first = m.first
    BY <1>2 DEF Applied, AndNoted
  <2> QED BY <1>1, <2>1 DEF FirstOK
<1>3. CASE l.key = "address"
  <2>1. /\ q.cur.addr = l.v /\ l.v # 0
        /\ q.first = IF m.first = 0 THEN m.cur.id ELSE m.first
    BY <1>3 DEF Applied, AndNoted
  <2>2. CASE Given(m.sent) = {} /\ m.first = IF m.cur.addr # 0 THEN m.cur.id ELSE 0
    <3>1. q.first = q.cur.id
      BY <1>1, <2>1, <2>2
    <3> QED BY <1>1, <2>1, <2>2, <3>1 DEF FirstOK
  <2>3. CASE \E k \in Given(m.sent) : /\ \A j \in Given(m.sent) : k <= j
                                      /\ m.first = m.sent[k].host.id
    <3>1. \A k \in Given(m.sent) : m.sent[k].host.id # 0
      BY DEF Given, Hosts
    <3>2. q.first = m.first
      BY <2>1, <2>3, <3>1
    <3> QED BY <1>1, <2>3, <3>2 DEF FirstOK
  <2> QED BY <2>2, <2>3 DEF FirstOK
<1> QED BY <1>2, <1>3

\* A line that leaves the hosts alone.
LEMMA FirstOther ==
    ASSUME NEW p, Good(p), FirstOK(p), NEW l, NEW q, Other(p, l, q)
    PROVE  FirstOK(q)
<1>1. Given(q.sent) = Given(p.sent) /\ \A k \in Given(p.sent) : q.sent[k] = p.sent[k]
  <2>1. CASE q.sent = p.sent
    BY <2>1
  <2>2. CASE Appended(p.sent, EmptyHost(0), q.sent)
    <3>1. EmptyHost(0).id = 0 /\ IsSeq(p.sent)
      BY DEF EmptyHost, Good, ParserOK
    <3>2. Given(q.sent) = Given(p.sent) /\ \A k \in Hosts(p.sent) : q.sent[k] = p.sent[k]
      BY <2>2, <3>1, HostsAppended
    <3> QED BY <3>2 DEF Given
  <2> QED BY <2>1, <2>2 DEF Other
<1>2. q.cur = p.cur /\ q.first = p.first
  BY DEF Other
<1> QED BY <1>1, <1>2 DEF FirstOK

-----------------------------------------------------------------------------
(* A round of the loop, and its end                                        *)

\* What holds of the hosts while no line was refused.
Read(r, f, p) == DataOK(f, p) /\ LastOK(f, p) /\ (r = "android" => FirstOK(p))

\* What has been read so far remains read after one more line.
LEMMA ReadOn ==
    ASSUME NEW r, NEW f \in Seq(LineRecs), NEW l \in Lines, NEW p, Good(p),
           p.stat = 0 => Read(r, f, p), NEW q,
           \/ Other(p, l, q)
           \/ /\ l.kind = "remote"
              /\ \E m : /\ Took(p, l, m, q)
                        /\ r = "android" => m.first = p.first /\ AndNoted(m, l, q),
           q.stat = 0
    PROVE  Read(r, Append(f, l), q)
<1>1. l \in LineRecs /\ (l.kind = "remote" /\ l.key \notin {"subnet", "mask"} => l.n = 0)
  BY LinesOK DEF LineRecs
<1>2. CASE Other(p, l, q)
  <2>1. p.stat = 0
    BY <1>2 DEF Other
  <2> QED BY <1>1, <1>2, <2>1, OtherData, FirstOther DEF Read
<1>3. CASE /\ l.kind = "remote"
           /\ \E m : /\ Took(p, l, m, q)
                     /\ r = "android" => m.first = p.first /\ AndNoted(m, l, q)
  <2>1. PICK m : /\ Took(p, l, m, q)
                 /\ r = "android" => m.first = p.first /\ AndNoted(m, l, q)
    BY <1>3
  <2>2. SameHost(m, q) /\ Applied(m.cur, l, q.cur) /\ m.stat = 0 /\ Mid(p, l, m)
    BY <2>1 DEF Took, SameHost
  <2>3. m # Err(p)
    <3>1. Err(p).stat = -1
      BY Refused DEF Good, ParserOK
    <3> QED BY <2>2, <3>1
  <2>4. CASE m = p /\ l.id = p.cur.id /\ l.id > 0
    <3>1. Read(r, f, p) /\ p.cur.id # 0
      BY <1>1, <2>2, <2>4 DEF LineRecs
    <3>2. DataOK(Append(f, l), q) /\ LastOK(Append(f, l), q)
      BY <1>1, <1>3, <2>2, <2>4, <3>1, SameData DEF Read
    <3>3. r = "android" => FirstOK(q)
      BY <1>1, <2>1, <2>2, <2>4, <3>1, FirstNoted DEF Read
    <3> QED BY <3>2, <3>3 DEF Read
  <2>5. CASE Switched(p, l, m)
    <3>1. Read(r, f, p) /\ m.cur.id # 0
      BY <1>1, <2>2, <2>5 DEF Switched, LineRecs
    <3>2. DataOK(Append(f, l), q) /\ LastOK(Append(f, l), q)
      BY <1>1, <1>3, <2>2, <2>5, <3>1, NewData DEF Read
    <3>3. r = "android" => FirstOK(m)
      <4>1. CASE p.cur.id = 0 /\ m.sent = p.sent
        <5>1. m.cur.addr = 0 /\ p.cur.addr = 0
          BY <2>5, <3>1, <4>1 DEF Read, LastOK, Switched
        <5> QED BY <2>1, <3>1, <4>1, <5>1 DEF Read, FirstOK
      <4>2. CASE p.cur.id # 0 /\ Appended(p.sent, p.cur, m.sent) /\ m.cur.addr = 0
        BY <2>1, <3>1, <4>2, FirstSent DEF Read, Good
      <4> QED BY <2>5, <4>1, <4>2 DEF Switched
    <3>4. r = "android" => FirstOK(q)
      BY <1>1, <2>1, <2>2, <3>1, <3>3, FirstNoted
    <3> QED BY <3>2, <3>4 DEF Read
  <2> QED BY <2>2, <2>3, <2>4, <2>5 DEF Mid
<1> QED BY <1>2, <1>3


\* Before the first line nothing is collected and nothing was sent.
LEMMA InitOK ==
    ASSUME NEW r
    PROVE  /\ Good(ParserInit) /\ NextOK(r, ParserInit) /\ Read(r, <<>>, ParserInit)
           /\ ParserInit.stat = 0 /\ ParserInit.cur.id = 0 /\ ParserInit.cur.addr = 0
<1> DEFINE p == ParserInit
           e == [id |-> 0, fam |-> {}, addr |-> 0, time |-> Default, port |-> 1,
                 subs |-> <<>>]
<1>1. /\ Shape(p) /\ p.stat = 0 /\ p.out = FALSE /\ p.fault = FALSE /\ p.sn = 0
      /\ p.cur = EmptyHost(Default) /\ p.rem = [i \in 0..MaxHosts-1 |-> NoHost]
      /\ p.nets = <<>> /\ p.first = 0 /\ p.sent = <<>>
  BY DEF ParserInit, Shape, Fields
<1>2. HostOK(p.cur) /\ p.cur.id = 0 /\ p.cur.addr = 0 /\ p.cur.subs = <<>>
  <2>1. p.cur.id = 0 /\ p.cur.addr = 0 /\ p.cur.fam = {} /\ p.cur.subs = <<>>
    BY DEF ParserInit, EmptyHost
  <2>2. p.cur = [f \in HostFields |-> p.cur[f]]
    BY DEF ParserInit, EmptyHost, HostFields
  <2> HIDE DEF p
  <2> QED BY <2>1, <2>2, HostIs
<1> HIDE DEF p
<1>3. p.rem \in [0..MaxHosts-1 -> Entry] /\ Known(p.rem) = {}
  BY <1>1 DEF Entry, NoHost, Known
<1>4. IsSeq(p.sent) /\ Len(p.sent) = 0 /\ Hosts(p.sent) = {} /\ Given(p.sent) = {}
  BY <1>1 DEF IsSeq, Hosts, Given
<1>5. Good(p)
  BY <1>1, <1>2, <1>3, <1>4 DEF Good, ParserOK, SnOK
<1>6. Registered(p) /\ NetsOK(p)
  <2>1. SentIds(p.sent) = {}
    BY <1>4 DEF SentIds
  <2>2. {p.cur.id} \ {0} = {}
    BY <1>2
  <2> QED BY <1>2, <1>3, <2>1, <2>2 DEF Registered, NetsOK
<1>7. Remotes(<<>>) = {} /\ Starts(<<>>) = {}
  BY DEF Remotes, Starts
<1>8. DataOK(<<>>, p) /\ LastOK(<<>>, p) /\ FirstOK(p)
  <2>1. Cardinality({}) = 0
    BY FS_EmptySet
  <2>2. DataOK(<<>>, p)
    <3>1. Cardinality(Hosts(p.sent)) = 0 /\ Cardinality(Starts(<<>>)) = 0
      BY <1>4, <1>7, <2>1
    <3>2. \A s \in Starts(<<>>) : FALSE
      BY <1>7
    <3> QED BY <1>2, <3>1, <3>2 DEF DataOK
  <2> QED BY <1>1, <1>2, <1>4, <1>7, <2>2 DEF LastOK, FirstOK
<1> QED BY <1>1, <1>2, <1>5, <1>6, <1>8 DEF NextOK, Read, p

\* The end of the file: what is known then, until the application ends.
Done(r, f, p) ==
    /\ ParserOK(p) /\ p.stat = 0 /\ p.cur.id = 0 /\ p.cur.addr = 0 /\ DataOK(f, p)
    /\ r # "android" => Registered(p)
    /\ r = "android" => FirstOK(p)

\* The last host is sent.
SentLast(p) == [UpdateSecHost(p) EXCEPT !.cur = EmptyHost(0)]

\* The host in hand is sent at the end of the file.
LEMMA LastSends ==
    ASSUME NEW p, ParserOK(p)
    PROVE  LET q == SentLast(p)
           IN  /\ ParserOK(q) /\ Appended(p.sent, p.cur, q.sent)
               /\ q.cur.id = 0 /\ q.cur.addr = 0
               /\ q.rem = p.rem /\ q.first = p.first /\ q.stat = p.stat
               /\ q.fault = p.fault /\ q.out = p.out
<1> DEFINE u == UpdateSecHost(p)
           q == [u EXCEPT !.cur = EmptyHost(0)]
<1>1. /\ ParserOK(u) /\ Appended(p.sent, p.cur, u.sent) /\ u.rem = p.rem
      /\ u.first = p.first /\ u.stat = p.stat /\ u.fault = p.fault /\ u.out = p.out
  BY UpdateSends
<1>2. /\ HostOK(EmptyHost(0)) /\ EmptyHost(0).id = 0 /\ EmptyHost(0).addr = 0
  <2>1. /\ EmptyHost(0) = [f \in HostFields |-> EmptyHost(0)[f]]
        /\ EmptyHost(0).id = 0 /\ EmptyHost(0).fam = {}
        /\ EmptyHost(0).addr = 0 /\ EmptyHost(0).subs = <<>>
    BY DEF EmptyHost, HostFields
  <2> QED BY <2>1, HostIs
<1> HIDE DEF u
<1>3. /\ Shape(q) /\ q.cur = EmptyHost(0) /\ q.sent = u.sent /\ q.rem = u.rem
      /\ q.first = u.first /\ q.stat = u.stat /\ q.fault = u.fault /\ q.out = u.out
      /\ q.sn = u.sn /\ q.nets = u.nets
  <2>1. Shape(u)
    BY <1>1 DEF ParserOK
  <2> QED BY <2>1 DEF Shape, Fields
<1>4. q = SentLast(p)
  BY DEF SentLast, u
<1> HIDE DEF q
<1>5. ParserOK(q)
  BY <1>1, <1>2, <1>3 DEF ParserOK
<1> QED BY <1>1, <1>2, <1>3, <1>4, <1>5

\* The host that was collected takes the place of the last block.
LEMMA LastBlock ==
    ASSUME NEW f \in Seq(LineRecs), NEW p, ParserOK(p), DataOK(f, p), p.cur.id # 0,
           NEW q, Appended(p.sent, p.cur, q.sent), q.cur.id = 0
    PROVE  DataOK(f, q)
<1> DEFINE S == Starts(f)
           H == Hosts(p.sent)
           J == Hosts(q.sent)
           x == Len(p.sent) + 1
<1>1. S \in SUBSET Nat /\ IsFiniteSet(S) /\ Cardinality(S) \in Nat
  BY StartsFinite, FS_CardinalityType
<1>2. IsSeq(p.sent)
  BY DEF ParserOK
<1>3. H \in SUBSET Nat /\ IsFiniteSet(H) /\ Cardinality(H) \in Nat
  BY <1>2, HostsFinite, FS_CardinalityType
<1>4. /\ J = H \cup {x} /\ x \in Nat /\ q.sent[x].host = p.cur
      /\ \A k \in H : q.sent[k] = p.sent[k] /\ k \in Nat /\ k < x
  BY <1>2, HostsAppended
<1>5. Cardinality(S) = Cardinality(H) + 1
  BY DEF DataOK
<1>6. \A s \in S : /\ \A k \in H : Rank(H, k) = Rank(S, s)
                                     => Match(p.sent[k].host, f, BlockOf(f, s))
                   /\ Rank(S, s) > Cardinality(H) => Match(p.cur, f, BlockOf(f, s))
  BY DEF DataOK
<1>7. \A s \in S : Rank(S, s) \in Nat /\ Rank(S, s) <= Cardinality(S)
  <2> HIDE DEF S
  <2> QED BY <1>1, Ranks
<1> HIDE DEF x, H, J
<1>8. /\ Cardinality(J) = Cardinality(H) + 1 /\ Rank(J, x) = Cardinality(H) + 1
      /\ \A k \in H : Rank(J, k) = Rank(H, k)
  <2>1. \A j \in H : j < x
    BY <1>4
  <2>2. /\ Cardinality(H \cup {x}) = Cardinality(H) + 1
        /\ Rank(H \cup {x}, x) = Cardinality(H) + 1
        /\ \A k \in H : Rank(H \cup {x}, k) = Rank(H, k)
    BY <1>3, <1>4, <2>1, Ranks
  <2> QED BY <1>4, <2>2
<1>9. ASSUME NEW s \in S
      PROVE  /\ \A k \in J : Rank(J, k) = Rank(S, s)
                               => Match(q.sent[k].host, f, BlockOf(f, s))
             /\ ~(Rank(S, s) > Cardinality(J))
  <2> HIDE DEF S
  <2>1. ~(Rank(S, s) > Cardinality(J))
    BY <1>3, <1>5, <1>7, <1>8
  <2>2. ASSUME NEW k \in H, Rank(J, k) = Rank(S, s)
        PROVE  Match(q.sent[k].host, f, BlockOf(f, s))
    BY <1>4, <1>6, <1>8, <2>2
  <2>3. ASSUME Rank(J, x) = Rank(S, s)
        PROVE  Match(q.sent[x].host, f, BlockOf(f, s))
    <3>1. Rank(S, s) > Cardinality(H)
      BY <1>3, <1>8, <2>3
    <3> QED BY <1>4, <1>6, <3>1
  <2> QED BY <1>4, <2>1, <2>2, <2>3
<1>10. Cardinality(S) = Cardinality(J) + 0
  BY <1>3, <1>5, <1>8
<1> QED BY <1>9, <1>10 DEF DataOK, S, J

\* parse_config returns zero.
LEMMA AtEnd ==
    ASSUME NEW r, NEW f \in Seq(LineRecs), NEW p, Good(p), NextOK(r, p), p.stat = 0,
           Read(r, f, p), NEW q, q = IF p.cur.id = 0 THEN p ELSE SentLast(p)
    PROVE  Done(r, f, q)
<1>1. CASE p.cur.id = 0
  BY <1>1 DEF Done, Good, NextOK, Read, LastOK
<1>2. CASE p.cur.id # 0
  <2>1. /\ ParserOK(q) /\ Appended(p.sent, p.cur, q.sent) /\ q.cur.id = 0
        /\ q.cur.addr = 0 /\ q.rem = p.rem /\ q.first = p.first /\ q.stat = 0
    <3>1. q = SentLast(p)
      BY <1>2
    <3> QED BY <3>1, LastSends DEF Good
  <2>2. DataOK(f, q)
    BY <1>2, <2>1, LastBlock DEF Good, Read
  <2>3. r = "android" => FirstOK(q)
    BY <1>2, <2>1, FirstSent DEF Good, Read
  <2>4. r # "android" => Registered(q)
    <3>1. SentIds(q.sent) = SentIds(p.sent) \cup {p.cur.id}
      <4>1. IsSeq(p.sent)
        BY DEF Good, ParserOK
      <4>2. 1..Len(q.sent) = 1..Len(p.sent) \cup {Len(p.sent) + 1}
        <5>1. Len(p.sent) \in Nat /\ Len(q.sent) = Len(p.sent) + 1
          BY <2>1, <4>1 DEF Appended, IsSeq
        <5> QED BY <5>1
      <4>3. /\ q.sent[Len(p.sent) + 1].host = p.cur
            /\ \A i \in 1..Len(p.sent) : q.sent[i] = p.sent[i]
        BY <2>1 DEF Appended
      <4>4. {q.sent[i].host.id : i \in 1..Len(q.sent)}
            = {p.sent[i].host.id : i \in 1..Len(p.sent)} \cup {p.cur.id}
        <5> DEFINE n == Len(p.sent)
        <5> HIDE DEF n
        <5>1. 1..Len(q.sent) = 1..n \cup {n + 1} /\ q.sent[n + 1].host.id = p.cur.id
          BY <4>2, <4>3 DEF n
        <5>2. \A i \in 1..n : q.sent[i].host.id = p.sent[i].host.id
          BY <4>3 DEF n
        <5>3. {q.sent[i].host.id : i \in 1..Len(q.sent)}
              = {p.sent[i].host.id : i \in 1..n} \cup {p.cur.id}
          <6> DEFINE A == 1..n
                     B == 1..Len(q.sent)
                     x == n + 1
                     g(i) == q.sent[i].host.id
                     h(i) == p.sent[i].host.id
          <6>1. B = A \cup {x} /\ g(x) = p.cur.id /\ \A i \in A : g(i) = h(i)
            BY <5>1, <5>2
          <6> HIDE DEF A, B, x, g, h
          <6>2. {g(i) : i \in B} = {h(i) : i \in A} \cup {p.cur.id}
            BY <6>1, Zenon
          <6> QED BY <6>2 DEF A, B, g, h
        <5> QED BY <5>3 DEF n
      <4> QED BY <1>2, <4>4 DEF SentIds
    <3> QED BY <1>2, <2>1, <3>1 DEF NextOK, Registered
  <2> QED BY <2>1, <2>2, <2>3, <2>4 DEF Done
<1> QED BY <1>1, <1>2

-----------------------------------------------------------------------------
(* The invariant                                                           *)

Before == {"setup", "cmdline", "names", "utils", "kernel", "name", "open"}
Ready == {"rawlan", "net", "sleep", "admin", "running"}

\* The hosts the raw packets went to.
RawOK(r, p) ==
    p.raw = LET told == IF r # "android" THEN Hosts(p.sent)
                        ELSE {k \in Given(p.sent) : \A j \in Given(p.sent) : k <= j}
            IN  {p.sent[k].host.id : k \in told}

IInv ==
    /\ role \in {"primary", "secondary", "android"}
    /\ phase \in Before \cup Ready \cup {"parse", "raw", "crashed", "exited"}
    /\ file \in Seq(LineRecs)
    /\ phase \in Before => ps = ParserInit /\ file = <<>>
    /\ phase = "parse" => Good(ps) /\ NextOK(role, ps) /\ (ps.stat = 0 => Read(role, file, ps))
    /\ phase \in Ready \cup {"raw"} => Done(role, file, ps)
    /\ phase \in Ready => RawOK(role, ps)
    /\ FaultExplained

\* The packets go to the hosts that were sent.
LEMMA RawSent ==
    ASSUME NEW r, NEW f, NEW p, Done(r, f, p), NEW S,
           \/ r # "android" /\ S = Known(p.rem)
           \/ r = "android" /\ S = {p.first} \ {0}
    PROVE  LET q == [p EXCEPT !.raw = S] IN Done(r, f, q) /\ RawOK(r, q)
<1> DEFINE q == [p EXCEPT !.raw = S]
<1> SUFFICES Done(r, f, q) /\ RawOK(r, q)
  OBVIOUS
<1>1. Shape(p)
  BY DEF Done, ParserOK
<1>2. /\ Shape(q) /\ q.raw = S /\ q.stat = p.stat /\ q.sn = p.sn /\ q.first = p.first
      /\ q.cur = p.cur /\ q.rem = p.rem /\ q.nets = p.nets /\ q.sent = p.sent
  BY <1>1 DEF Shape, Fields
<1> HIDE DEF q
<1>3. ParserOK(q)
  BY <1>2 DEF Done, ParserOK
<1>4. DataOK(f, q) /\ (r # "android" => Registered(q)) /\ (r = "android" => FirstOK(q))
  BY <1>2 DEF Done, DataOK, Registered, FirstOK
<1>5. RawOK(r, q)
  <2>1. CASE r # "android"
    <3>1. S = SentIds(p.sent)
      BY <2>1 DEF Done, Registered
    <3>2. SentIds(p.sent) = {p.sent[k].host.id : k \in Hosts(p.sent)}
      <4>1. DOMAIN p.sent = 1..Len(p.sent)
        <5>1. IsSeq(p.sent)
          BY DEF Done, ParserOK
        <5> QED BY <5>1 DEF IsSeq
      <4> QED BY <4>1 DEF SentIds, Hosts
    <3> QED BY <1>2, <2>1, <3>1, <3>2 DEF RawOK
  <2>2. CASE r = "android"
    <3> DEFINE told == {k \in Given(p.sent) : \A j \in Given(p.sent) : k <= j}
    <3>1. S = {p.sent[k].host.id : k \in told}
      <4>1. CASE Given(p.sent) = {} /\ p.first = 0
        BY <2>2, <4>1
      <4>2. CASE \E k \in Given(p.sent) : /\ \A j \in Given(p.sent) : k <= j
                                          /\ p.first = p.sent[k].host.id
        <5>1. PICK k \in Given(p.sent) : /\ \A j \in Given(p.sent) : k <= j
                                         /\ p.first = p.sent[k].host.id
          BY <4>2
        <5>2. Given(p.sent) \in SUBSET Nat /\ p.first # 0
          <6>1. IsSeq(p.sent)
            BY DEF Done, ParserOK
          <6>2. Hosts(p.sent) \in SUBSET Nat
            BY <6>1, HostsFinite
          <6> QED BY <5>1, <6>2 DEF Given, Hosts
        <5>3. told = {k}
          BY <5>1, <5>2
        <5> HIDE DEF told
        <5> QED BY <2>2, <5>1, <5>2, <5>3
      <4> QED BY <2>2, <4>1, <4>2 DEF Done, FirstOK
    <3> QED BY <1>2, <2>2, <3>1 DEF RawOK
  <2> QED BY <2>1, <2>2
<1> QED BY <1>2, <1>3, <1>4, <1>5 DEF Done


\* Before the file is read.
LEMMA InvInit == Init => IInv
<1> SUFFICES ASSUME Init PROVE IInv
  OBVIOUS
<1>1. file = <<>> /\ <<>> \in Seq(LineRecs)
  BY DEF Init
<1> QED BY <1>1 DEF Init, IInv, Before, Ready, FaultExplained

\* The application ends: nothing more is said of it.
LEMMA Exits ==
    ASSUME IInv, phase' = "exited", role' = role, file' \in Seq(LineRecs)
    PROVE  IInv'
BY DEF IInv, Before, Ready, FaultExplained

\* A step of init_system that succeeds.
LEMMA Moved ==
    ASSUME IInv, NEW a, NEW b, Moves(a, b),
           \/ a \in Before /\ b \in Before \cup {"exited", "parse", "raw"}
           \/ a \in Ready /\ b \in Ready
    PROVE  IInv'
<1>1. phase = a /\ phase' = b /\ role' = role /\ file' = file /\ ps' = ps
  BY DEF Moves
<1>2. CASE a \in Ready /\ b \in Ready
  BY <1>1, <1>2 DEF IInv, Before, Ready, FaultExplained, Done, RawOK
<1>3. CASE a \in Before /\ b \in Before \cup {"exited"}
  BY <1>1, <1>3 DEF IInv, Before, Ready, FaultExplained
<1>4. CASE a \in Before /\ b \in {"parse", "raw"}
  <2>1. ps' = ParserInit /\ file' = <<>>
    BY <1>1, <1>4 DEF IInv
  <2>2. /\ Good(ParserInit) /\ NextOK(role', ParserInit) /\ Read(role', <<>>, ParserInit)
        /\ ParserInit.stat = 0 /\ ParserInit.cur.id = 0 /\ ParserInit.cur.addr = 0
    BY InitOK
  <2>3. Done(role', <<>>, ParserInit)
    BY <2>2 DEF Done, Good, NextOK, Read
  <2>4. /\ role' \in {"primary", "secondary", "android"} /\ file' \in Seq(LineRecs)
        /\ phase' \in {"parse", "raw"}
    BY <1>1, <1>4 DEF IInv
  <2>5. Good(ps') /\ NextOK(role', ps') /\ Read(role', file', ps') /\ Done(role', file', ps')
    BY <2>1, <2>2, <2>3
  <2> QED BY <2>4, <2>5 DEF IInv, Before, Ready, FaultExplained
<1> QED BY <1>2, <1>3, <1>4

\* A step of init_system that fails.
LEMMA Failed ==
    ASSUME IInv, NEW a, Fails(a)
    PROVE  IInv'
<1>1. phase' = "exited" /\ role' = role /\ file' = file /\ file \in Seq(LineRecs)
  BY DEF Fails, IInv
<1> QED BY <1>1, Exits

\* A line of the file.
LEMMA ReadLineKeeps ==
    ASSUME IInv, ReadLine
    PROVE  IInv'
<1>1. PICK l \in Lines :
        /\ phase = "parse" /\ file' = Append(file, l)
        /\ \/ role = "primary" /\ ps' = PriParse(ps, l)
           \/ role = "secondary" /\ ps' = SecParse(ps, l)
           \/ role = "android" /\ ps' = AndParse(ps, l)
           \/ CanFail(ps, l) /\ ps' = Out(ps)
        /\ phase' = NextPhase(ps')
        /\ role' = role
  BY DEF ReadLine
<1>2. l \in LineRecs /\ file \in Seq(LineRecs)
  BY LinesOK DEF LineRecs, IInv
<1>3. /\ file' \in Seq(LineRecs) /\ Len(file') = Len(file) + 1 /\ file'[Len(file')] = l
  BY <1>1, <1>2, AppendLonger DEF Longer
<1>4. Good(ps) /\ NextOK(role, ps) /\ (ps.stat = 0 => Read(role, file, ps))
  BY <1>1 DEF IInv
<1>5. Round(role, ps, l, ps')
  <2>1. CASE ps' = Out(ps)
    <3>1. ps'.out /\ ps'.fault = ps.fault
      BY <2>1, <1>4, Refused DEF Good, ParserOK
    <3> QED BY <1>4, <3>1 DEF Round, Good
  <2>2. CASE \/ role = "primary" /\ ps' = PriParse(ps, l)
             \/ role = "secondary" /\ ps' = SecParse(ps, l)
             \/ role = "android" /\ ps' = AndParse(ps, l)
    BY <1>2, <1>4, <2>2, Rounds
  <2> QED BY <1>1, <2>1, <2>2
<1>6. CASE ps'.out /\ ~ps'.fault
  <2>1. phase' = "exited"
    BY <1>1, <1>6 DEF NextPhase
  <2> QED BY <1>1, <1>3, <2>1, Exits
<1>7. CASE ps'.fault /\ Explained(l)
  <2>1. phase' = "crashed"
    BY <1>1, <1>7 DEF NextPhase
  <2>2. FaultExplained'
    BY <1>3, <1>7 DEF FaultExplained, Explained, Explains
  <2> QED BY <1>1, <1>3, <2>1, <2>2 DEF IInv, Before, Ready
<1>8. CASE /\ Good(ps') /\ NextOK(role, ps')
           /\ \/ Other(ps, l, ps')
              \/ /\ l.kind = "remote"
                 /\ \E m : /\ Took(ps, l, m, ps')
                           /\ role = "android" => m.first = ps.first /\ AndNoted(m, l, ps')
  <2>1. phase' = "parse"
    BY <1>1, <1>8 DEF NextPhase, Good
  <2>2. ps'.stat = 0 => Read(role, file', ps')
    BY <1>1, <1>2, <1>4, <1>8, ReadOn
  <2>3. Good(ps') /\ NextOK(role', ps') /\ (ps'.stat = 0 => Read(role', file', ps'))
    BY <1>1, <1>8, <2>2
  <2> QED BY <1>1, <1>3, <2>1, <2>3 DEF IInv, Before, Ready, FaultExplained
<1> QED BY <1>5, <1>6, <1>7, <1>8 DEF Round

\* parse_config returns.
LEMMA EndKeeps ==
    ASSUME IInv, EndOfFile
    PROVE  IInv'
<1>1. /\ phase = "parse" /\ role' = role /\ file' = file /\ file \in Seq(LineRecs)
      /\ Good(ps) /\ NextOK(role, ps) /\ (ps.stat = 0 => Read(role, file, ps))
  BY DEF EndOfFile, IInv
<1>2. CASE phase' = "exited"
  BY <1>1, <1>2, Exits
<1>3. CASE phase' # "exited"
  <2>1. phase' = "raw" /\ ps.stat = 0
    BY <1>1, <1>3 DEF EndOfFile, Good, ParserOK
  <2>2. ps' = IF ps.cur.id = 0 THEN ps ELSE SentLast(ps)
    BY <1>3 DEF EndOfFile, PriLast, SecLast, AndLast, UpdatePriHost, AndUpdatePriHost,
                SentLast
  <2>3. Done(role', file', ps')
    <3>1. Done(role, file, ps')
      BY <1>1, <2>1, <2>2, AtEnd
    <3> QED BY <1>1, <3>1
  <2>4. role' \in {"primary", "secondary", "android"}
    BY <1>1 DEF IInv
  <2> QED BY <1>1, <2>1, <2>3, <2>4 DEF IInv, Before, Ready, FaultExplained
<1> QED BY <1>2, <1>3

\* The raw packets are sent.
LEMMA RawKeeps ==
    ASSUME IInv, RawHosts \/ AndRaw
    PROVE  IInv'
<1>1. CASE Fails("raw")
  BY <1>1, Failed
<1>2. CASE ~Fails("raw")
  <2>1. /\ phase = "raw" /\ phase' \in {"rawlan", "admin"} /\ role' = role /\ file' = file
        /\ \/ role # "android" /\ ps' = [ps EXCEPT !.raw = Known(ps.rem)]
           \/ role = "android" /\ ps' = [ps EXCEPT !.raw = {ps.first} \ {0}]
    BY <1>2 DEF RawHosts, AndRaw, Known
  <2>2. Done(role, file, ps)
    BY <2>1 DEF IInv
  <2>3. Done(role, file, ps') /\ RawOK(role, ps')
    <3>1. PICK S : /\ ps' = [ps EXCEPT !.raw = S]
                   /\ \/ role # "android" /\ S = Known(ps.rem)
                      \/ role = "android" /\ S = {ps.first} \ {0}
      BY <2>1
    <3>2. LET q == [ps EXCEPT !.raw = S] IN Done(role, file, q) /\ RawOK(role, q)
      BY <2>2, <3>1, RawSent
    <3> QED BY <3>1, <3>2
  <2>4. Done(role', file', ps') /\ RawOK(role', ps')
    BY <2>1, <2>3
  <2>5. role' \in {"primary", "secondary", "android"} /\ file' \in Seq(LineRecs)
    BY <2>1 DEF IInv
  <2> QED BY <2>1, <2>4, <2>5 DEF IInv, Before, Ready, FaultExplained
<1> QED BY <1>1, <1>2

\* Every step keeps the invariant.
LEMMA InvNext == IInv /\ [Next]_vars => IInv'
<1> SUFFICES ASSUME IInv, [Next]_vars PROVE IInv'
  OBVIOUS
<1>1. CASE UNCHANGED vars
  <2>1. role' = role /\ phase' = phase /\ file' = file /\ ps' = ps
    BY <1>1 DEF vars
  <2> QED BY <2>1 DEF IInv, FaultExplained, Done, RawOK
<1>2. CASE ReadLine
  BY <1>2, ReadLineKeeps
<1>3. CASE EndOfFile
  BY <1>3, EndKeeps
<1>4. CASE RawHosts \/ AndRaw
  BY <1>4, RawKeeps
<1>5. CASE InitMain \/ AndInitMain
  BY <1>5, Moved, Failed DEF InitMain, AndInitMain, Before
<1>6. CASE ParseCmdline
  BY <1>6, Moved, Failed DEF ParseCmdline, Before
<1>7. CASE DirNames
  BY <1>7, Moved, Failed DEF DirNames, Before
<1>8. CASE InitUtils \/ AndInitUtils
  BY <1>8, Moved, Failed DEF InitUtils, AndInitUtils, Before
<1>9. CASE InitKernelComm \/ AndInitKernelComm
  BY <1>9, Moved, Failed DEF InitKernelComm, AndInitKernelComm, Before
<1>10. CASE ConfigName
  BY <1>10, Moved, Failed DEF ConfigName, Before
<1>11. CASE OpenConfig
  BY <1>11, Moved DEF OpenConfig, Before
<1>12. CASE InitConfig \/ AndInitConfig
  BY <1>12, Moved, Failed DEF InitConfig, AndInitConfig, Before
<1>13. CASE RawSubnets
  BY <1>13, Moved, Failed DEF RawSubnets, Ready
<1>14. CASE Listen
  BY <1>14, Moved, Failed DEF Listen, Ready
<1>15. CASE Connect \/ ConnectFails \/ StopSession
  BY <1>15, Moved DEF Connect, ConnectFails, StopSession, Ready
<1>16. CASE OpenAdmin \/ AndOpenAdmin
  BY <1>16, Moved, Failed DEF OpenAdmin, AndOpenAdmin, Ready
<1> QED BY <1>1, <1>2, <1>3, <1>4, <1>5, <1>6, <1>7, <1>8, <1>9, <1>10, <1>11, <1>12,
           <1>13, <1>14, <1>15, <1>16 DEF Next

\* What holds of the application's start in every state it can be in.
THEOREM ConfigInvariant == Spec => []IInv
<1> QED BY InvInit, InvNext, PTL DEF Spec

\* The blocks and the hosts agree as the property says.
LEMMA DataAsWritten ==
    ASSUME NEW f \in Seq(LineRecs), NEW p, ParserOK(p), DataOK(f, p)
    PROVE  LET done == Cardinality(Hosts(p.sent))
           IN  /\ Cardinality(Starts(f)) = done + (IF p.cur.id = 0 THEN 0 ELSE 1)
               /\ \A s \in Starts(f) :
                    /\ \A k \in Hosts(p.sent) :
                         Rank(Hosts(p.sent), k) = Rank(Starts(f), s) =>
                           Reads(p.sent[k].host, f, BlockOf(f, s))
                    /\ Rank(Starts(f), s) > done => Reads(p.cur, f, BlockOf(f, s))
<1>1. /\ IsSeq(p.sent) /\ HostOK(p.cur)
      /\ \A i \in 1..Len(p.sent) : HostOK(p.sent[i].host)
  BY DEF ParserOK
<1>2. \A k \in Hosts(p.sent) : HostOK(p.sent[k].host)
  BY <1>1, HostsFinite
<1>3. \A s : BlockOf(f, s) \in SUBSET Nat
  <2>1. \A i \in DOMAIN f : i \in Nat
    OBVIOUS
  <2> QED BY <2>1, StartsFinite
<1>4. \A s : \A h : HostOK(h) /\ Match(h, f, BlockOf(f, s)) => Reads(h, f, BlockOf(f, s))
  BY <1>3, MatchReads
<1> QED BY <1>1, <1>2, <1>4 DEF DataOK

\* While no line was refused, the hosts that were sent and the one that is
\* collected are the blocks of the file, each with the address and exactly the
\* subnets of its own lines, whatever the file and the sizes of the arrays.
THEOREM AsWrittenThm == Spec => []AsWritten
<1>1. IInv => AsWritten
  <2> SUFFICES ASSUME IInv, ps.stat = 0, phase \notin {"crashed", "exited"}
               PROVE  ParserOK(ps) /\ DataOK(file, ps) /\ file \in Seq(LineRecs)
    BY DataAsWritten DEF AsWritten
  <2>1. file \in Seq(LineRecs)
    BY DEF IInv
  <2>2. CASE phase \in Before
    BY <2>2, InitOK DEF IInv, Good, Read
  <2>3. CASE phase = "parse"
    BY <2>3 DEF IInv, Good, Read
  <2>4. CASE phase \in Ready \cup {"raw"}
    BY <2>4 DEF IInv, Done
  <2> QED BY <2>1, <2>2, <2>3, <2>4 DEF IInv
<1> QED BY <1>1, ConfigInvariant, PTL

\* The hosts that have had a raw packet are the ones the kernel module was told
\* of, and on Android the first of them that has an address.
THEOREM RawReadyThm == Spec => []RawReady
<1>1. IInv => RawReady
  BY DEF IInv, Ready, RawOK, RawReady
<1> QED BY <1>1, ConfigInvariant, PTL

\* Only an id at or outside the ends of an array leads to memory the language
\* leaves undefined.
THEOREM FaultExplainedThm == Spec => []FaultExplained
<1>1. IInv => FaultExplained
  BY DEF IInv
<1> QED BY <1>1, ConfigInvariant, PTL
=============================================================================
