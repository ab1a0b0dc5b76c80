--------------------------- MODULE P3GatewayProofs ---------------------------
(* Proofs about P3Gateway, for any hosts, networks, masks and table size:  *)
(* the route table and the pointers that packets follow are what           *)
(* parse_p3data, the raw packets and P3INIT have made of them so far.      *)
EXTENDS P3Gateway, FiniteSetTheorems, WellFoundedInduction, TLAPS

HostSet == {hosts[i] : i \in DOMAIN hosts}
RouteSet == {routes[j] : j \in DOMAIN routes}

Configs == [host : Hosts \cup {None}, i : Nat, step : {None, "route", "host"}]
Lasts == [src : Hosts \cup {None, "me", "me2", "lan"}, syn : BOOLEAN,
          hook : {None, "pre", "out", "fwd"}, fate : {None, "accept", "oops"},
          net : HostNets \cup {Lan, NoNet}]

\* What the variables hold.
TypeOK ==
    /\ role \in {"primary", "secondary"}
    /\ mod \in {"load", "up", "exit", "out", "failed"}
    /\ hosts \in Seq(Hosts)
    /\ routes \in Seq(HostNets)
    /\ nhost \subseteq HostNets
    /\ hnet \in [Hosts -> HostNets \cup {NoNet}]
    /\ act \subseteq HostNets \cup {Lan}
    /\ okfn \subseteq HostNets \cup {Lan}
    /\ cfg \in Configs
    /\ raw \in HostNets \cup {Lan, NoNet}
    /\ last \in Lasts

-----------------------------------------------------------------------------
(* Networks and sequences                                                   *)

\* A network of a host is a pair of the host and the network's index.
LEMMA HostNetPair ==
    /\ \A n \in HostNets : /\ n[1] \in Hosts /\ n[2] \in DOMAIN NetsOf[n[1]]
                           /\ n = <<n[1], n[2]>> /\ n # Lan /\ n # NoNet
    /\ \A h \in Hosts : \A i \in DOMAIN NetsOf[h] :
         <<h, i>> \in HostNets /\ <<h, i>>[1] = h /\ <<h, i>>[2] = i
BY NamesOK DEF HostNets, Lan, NoNet

\* The hosts of the list when one has been put at its head.
LEMMA ConsRange ==
    \A q, r \in Seq(Hosts), x \in Hosts :
       (Len(r) = Len(q) + 1 /\ r[1] = x /\ \A i \in 1..Len(q) : r[i + 1] = q[i])
       => \A y : (\E i \in DOMAIN r : y = r[i]) <=> (y = x \/ \E i \in DOMAIN q : y = q[i])
<1> SUFFICES ASSUME NEW q \in Seq(Hosts), NEW r \in Seq(Hosts), NEW x \in Hosts,
                    Len(r) = Len(q) + 1, r[1] = x, \A i \in 1..Len(q) : r[i + 1] = q[i]
             PROVE  \A y : (\E i \in DOMAIN r : y = r[i])
                              <=> (y = x \/ \E i \in DOMAIN q : y = q[i])
  BY Zenon
<1>1. Len(r) = Len(q) + 1 /\ r[1] = x
  OBVIOUS
<1>2. \A i \in 1..Len(q) : r[i + 1] = q[i]
  OBVIOUS
<1>3. DOMAIN r = 1..(Len(q) + 1) /\ DOMAIN q = 1..Len(q) /\ Len(q) \in Nat
  BY <1>1
<1>4. \A y : (\E i \in DOMAIN r : y = r[i]) <=> (y = x \/ \E i \in DOMAIN q : y = q[i])
  <2> TAKE y
  <2>1. ASSUME NEW i \in DOMAIN r, y = r[i], y # x
        PROVE  \E j \in DOMAIN q : y = q[j]
    <3>1. i - 1 \in DOMAIN q /\ i = (i - 1) + 1  BY <1>1, <1>3, <2>1
    <3> QED  BY <1>2, <1>3, <2>1, <3>1
  <2>2. ASSUME NEW j \in DOMAIN q, y = q[j] PROVE \E i \in DOMAIN r : y = r[i]
    BY <1>2, <1>3, <2>2
  <2>3. ASSUME y = x PROVE \E i \in DOMAIN r : y = r[i]
    BY <1>1, <1>3, <2>3
  <2> QED  BY <2>1, <2>2, <2>3
<1> QED  BY <1>4

\* The networks of the table when one has been appended.
LEMMA AppendRange ==
    ASSUME NEW S, NEW q \in Seq(S), NEW x \in S
    PROVE  /\ Append(q, x) \in Seq(S) /\ Len(Append(q, x)) = Len(q) + 1
           /\ {Append(q, x)[i] : i \in DOMAIN Append(q, x)} = {q[i] : i \in DOMAIN q} \cup {x}
<1> DEFINE r == Append(q, x)
<1>1. r \in Seq(S) /\ Len(r) = Len(q) + 1 /\ r[Len(q) + 1] = x
  OBVIOUS
<1>2. \A i \in 1..Len(q) : r[i] = q[i]
  OBVIOUS
<1>3. DOMAIN r = 1..(Len(q) + 1) /\ DOMAIN q = 1..Len(q) /\ Len(q) \in Nat
  BY <1>1
<1> HIDE DEF r
<1>4. \A y : (\E i \in DOMAIN r : y = r[i]) <=> (y = x \/ \E i \in DOMAIN q : y = q[i])
  BY <1>1, <1>2, <1>3
<1> QED  BY <1>1, <1>4 DEF r

\* The first of several indexes.
LEMMA SmallestIndex ==
    ASSUME NEW T \in SUBSET Nat, T # {}
    PROVE  \E x \in T : \A y \in T : x <= y
<1> DEFINE R == OpToRel(<, Nat)
<1>1. PICK x \in T : \A y \in T : ~ (<<y, x>> \in R)
  BY NatLessThanWellFounded, WFMin
<1>2. R = {ss \in Nat \X Nat : ss[1] < ss[2]}
  BY Zenon DEF OpToRel
<1> HIDE DEF R
<1>3. \A y \in T : /\ x \in Nat /\ y \in Nat
                  /\ <<y, x>> \in Nat \X Nat /\ <<y, x>>[1] = y /\ <<y, x>>[2] = x
  OBVIOUS
<1>4. \A y \in T : ~(y < x)
  BY <1>1, <1>2, <1>3
<1> QED  BY <1>3, <1>4

-----------------------------------------------------------------------------
(* Looking up a packet                                                      *)

\* The packets the hooks see.
LEMMA PacketType ==
    ASSUME NEW p \in Packets
    PROVE  /\ p.src \in Hosts \cup {"me", "me2", "lan"}
           /\ p.kind \in {"p3data", "p3ctl", "plain", "syn", "tcp", "udp", "raw"}
           /\ p.fwd \in BOOLEAN /\ p.hook \in {"pre", "out", "fwd"}
           /\ p.src \in Hosts => p.hook = "pre" /\ p.kind \in {"p3data", "p3ctl", "plain"}
           /\ p.src \in {"me", "me2"} => p.hook = "out"
           /\ p.src = "lan" => p.hook \in {"pre", "fwd"}
BY NamesOK DEF Packets, Inbound, Outbound, FromLan

\* What p3_lookup can find: a host of the list, with the network noted for
\* it; a network of the route table; the local subnet; or nothing.
LEMMA LookupResult ==
    ASSUME TypeOK, NEW p \in Packets
    PROVE  LET l == Lookup(p) IN
           /\ l.op \in {None, "src", "dst"}
           /\ l.net \in HostNets \cup {Lan, NoNet}
           /\ l.op = None => l.net \in {NoNet, Lan}
           /\ l.op = "src" => /\ p.src \in HostSet
                              /\ l.net = IF p.fwd THEN Lan ELSE hnet[p.src]
                              /\ l.srsub = (p.hook = "fwd")
           /\ l.op = "dst" =>
                \/ /\ l.net \in RouteSet
                   /\ l.srsub = (IF p.src = "me" THEN p.hook = "fwd" ELSE p.hook # "fwd")
                \/ l.net = Lan /\ p.src = "me"
           /\ hosts = <<>> => l.op = None /\ l.net = NoNet
<1> DEFINE match == {i \in DOMAIN routes : p.dst \in Covers[Net(routes[i])]}
           first == routes[CHOOSE i \in match : \A j \in match : i <= j]
           l == Lookup(p)
<1>1. ASSUME match # {} PROVE first \in RouteSet /\ first \in HostNets
  <2>1. match \in SUBSET Nat  BY DEF TypeOK
  <2>2. \E i \in match : \A j \in match : i <= j  
    <3> HIDE DEF match
    <3> QED  BY <1>1, <2>1, SmallestIndex
  <2>3. (CHOOSE i \in match : \A j \in match : i <= j) \in match  BY <2>2
  <2>4. (CHOOSE i \in match : \A j \in match : i <= j) \in DOMAIN routes  BY <2>3
  <2> DEFINE c == CHOOSE i \in match : \A j \in match : i <= j
  <2> HIDE DEF c
  <2>5. c \in DOMAIN routes  BY <2>4 DEF c
  <2>6. routes[c] \in RouteSet /\ routes[c] \in HostNets  BY <2>5 DEF RouteSet, TypeOK
  <2> QED  BY <2>6 DEF c
<1> DEFINE none == ~({"route4", "main"} \subseteq res \/ mod = "exit") \/ hosts = <<>>
<1>2. l = IF none
          THEN [op |-> None, net |-> NoNet, srsub |-> p.hook = "fwd", dssub |-> FALSE]
          ELSE IF p.src \in HostSet
          THEN [op |-> "src", net |-> IF p.fwd THEN Lan ELSE hnet[p.src],
                srsub |-> p.hook = "fwd", dssub |-> p.fwd]
          ELSE IF match # {}
          THEN [op |-> "dst", net |-> first, dssub |-> p.dst # first[1],
                srsub |-> IF p.src = "me" THEN p.hook = "fwd" ELSE p.hook # "fwd"]
          ELSE [op |-> IF p.src = "me" /\ p.dst = LanAddr THEN "dst" ELSE None,
                net |-> Lan, srsub |-> p.hook = "fwd", dssub |-> FALSE]
  BY DEF Lookup, HostSet
<1>3. p.src \in HostSet => hnet[p.src] \in HostNets \cup {NoNet}
  BY DEF TypeOK, HostSet
<1>4. hosts = <<>> => none
  OBVIOUS
<1> HIDE DEF match, first, l, none
<1>5. CASE none
  BY <1>2, <1>5 DEF None, l
<1>6. CASE ~none /\ p.src \in HostSet
  BY <1>2, <1>3, <1>4, <1>6 DEF None, l
<1>7. CASE ~none /\ p.src \notin HostSet /\ match # {}
  BY <1>1, <1>2, <1>4, <1>7 DEF None, l
<1>8. CASE ~none /\ p.src \notin HostSet /\ match = {}
  BY <1>2, <1>4, <1>8 DEF None, l
<1> QED  BY <1>5, <1>6, <1>7, <1>8

-----------------------------------------------------------------------------
(* The inductive invariant                                                  *)

\* What P3INIT has acquired after k of its steps.
Prefix(k) == {InitSteps[i] : i \in 1..k}

\* Until the module is loaded there is no host and no packet was looked up.
Loading == mod = "load" => /\ \E k \in 0..9 : res = Prefix(k)
                           /\ hosts = <<>> /\ last.net = NoNet

\* parse_p3data is adding a host of the list, and is at one of its networks.
Adding ==
    /\ cfg.host = None <=> cfg.step = None
    /\ cfg.host # None =>
         /\ mod = "up"
         /\ cfg.host \in HostSet /\ cfg.i \in 1..(Len(NetsOf[cfg.host]) + 1)
         /\ cfg.step = "host" => cfg.i \in DOMAIN NetsOf[cfg.host]

\* The networks of a listed host that have been given to build_p3table.
Entered(h, k) == h # cfg.host \/ k < cfg.i \/ (k = cfg.i /\ cfg.step = "host")

\* They are in the table, or it is full.
Table ==
    /\ Len(routes) <= MaxRoute
    /\ Len(routes) < MaxRoute =>
         \A h \in HostSet : \A k \in DOMAIN NetsOf[h] :
            Entered(h, k) => \E n \in RouteSet : Net(n) = NetsOf[h][k]

\* The host pointer of a network in the table is set, but for the network
\* that is being added.
Pointers == \A n \in RouteSet :
               n \in nhost \/ (cfg.step = "host" /\ n = <<cfg.host, cfg.i>>)

\* A listed host's own network is noted once parse_p3data is past it.
Owns == \A h \in HostSet : \A k \in DOMAIN NetsOf[h] :
           (NetsOf[h][k] = h /\ (h # cfg.host \/ k < cfg.i)) => hnet[h] # NoNet

\* The local subnet is active from the raw packet on, whose okfn is stored
\* a step later.
LanRaw == Lan \in act => Lan \in okfn \/ raw = Lan

GatewayInv == /\ TypeOK /\ Loading /\ Adding /\ Table /\ Pointers /\ Owns /\ LanRaw
              /\ NoPlaintext /\ NetworkSafe /\ FailedClean

-----------------------------------------------------------------------------
(* The steps                                                                *)

\* The verdict of a hook function, as it is remembered.
LEMMA EndsLast ==
    ASSUME TypeOK, NEW p \in Packets, NEW fate, Ends(p, fate)
    PROVE  /\ last' \in Lasts
           /\ last'.fate = IF fate \in {"accept", "oops"} THEN fate ELSE None
           /\ last'.fate # None => /\ last'.src = p.src /\ last'.syn = (p.kind = "syn")
                                  /\ last'.hook = p.hook /\ last'.net = Lookup(p).net
           /\ last'.fate = None => last'.net = NoNet
           /\ hosts = <<>> => last'.net = NoNet
<1>1. CASE fate \in {"accept", "oops"}
  <2>1. last' = [src |-> p.src, syn |-> p.kind = "syn", hook |-> p.hook,
                 fate |-> fate, net |-> Lookup(p).net]
    BY <1>1 DEF Ends
  <2> QED  BY <1>1, <2>1, LookupResult, PacketType DEF Lasts, None
<1>2. CASE fate \notin {"accept", "oops"}
  <2>1. last' = NoPacket  BY <1>2 DEF Ends
  <2> QED  BY <1>2, <2>1 DEF NoPacket, Lasts, None
<1> QED  BY <1>1, <1>2

\* A step that leaves the tables alone.
LEMMA TablesKept ==
    ASSUME Adding, Table, Pointers, Owns, UNCHANGED <<hosts, routes, nhost, hnet, cfg>>,
           cfg.host # None => mod' = mod
    PROVE  Adding' /\ Table' /\ Pointers' /\ Owns'
BY DEF Adding, Table, Pointers, Owns, HostSet, RouteSet, Entered

\* The parts of the invariant that concern packets, after one of them.
LEMMA PacketStep ==
    ASSUME GatewayInv, NEW p \in Packets, NEW fate, Ends(p, fate),
           UNCHANGED <<role, res, mod, tables, cfg>>,
           act' \subseteq HostNets \cup {Lan}, okfn' = okfn, LanRaw',
           raw' \in HostNets \cup {Lan, NoNet},
           NoPlaintext', NetworkSafe'
    PROVE  GatewayInv'
<1>1. TypeOK'
  BY EndsLast DEF GatewayInv, TypeOK, tables
<1>2. Loading'
  BY EndsLast DEF GatewayInv, Loading, Prefix, tables
<1>3. Adding' /\ Table' /\ Pointers' /\ Owns'
  BY TablesKept DEF GatewayInv, tables
<1>4. FailedClean'
  BY DEF GatewayInv, FailedClean
<1> QED  BY <1>1, <1>2, <1>3, <1>4 DEF GatewayInv

\* A packet left as it is keeps the invariant: one for an active network is
\* left so only when it comes back from the local subnet.
LEMMA AcceptStep ==
    ASSUME GatewayInv, NEW p \in Packets, Accept(p)
    PROVE  GatewayInv'
<1> DEFINE l == Lookup(p)
<1>1. /\ Ends(p, "accept") /\ UNCHANGED <<role, res, mod, tables, devices, cfg, raw>>
      /\ \/ l.op = None \/ l.srsub
         \/ l.op = "src" /\ (l.net \notin act \/ p.kind = "plain")
         \/ l.op = "dst" /\ p.kind = "syn"
         \/ l.op = "dst" /\ p.kind # "raw" /\ l.net \notin act
  BY DEF Accept
<1>2. /\ last'.fate = "accept" /\ last'.src = p.src /\ last'.syn = (p.kind = "syn")
      /\ last'.hook = p.hook /\ last'.net = l.net
  BY <1>1, EndsLast DEF GatewayInv, None
<1>3. NoPlaintext'
  <2> SUFFICES ASSUME p.kind # "syn", p.src = "me" \/ p.hook = "fwd", l.net \in HostNets
               PROVE  l.net \notin act
    BY <1>1, <1>2 DEF NoPlaintext, devices
  <2>1. l.op \notin {None, "src"}
    BY LookupResult, PacketType, HostNetPair, NamesOK DEF GatewayInv, TypeOK, HostSet
  <2>2. l.op = "dst" /\ ~l.srsub
    BY <2>1, LookupResult, PacketType, HostNetPair DEF GatewayInv
  <2> QED  BY <1>1, <2>2 DEF None
<1>4. NetworkSafe'
  BY <1>2 DEF NetworkSafe
<1> QED  BY <1>1, <1>3, <1>4, PacketStep DEF GatewayInv, TypeOK, LanRaw, devices

\* A pointer nobody set is followed only for the host that is being added.
LEMMA OopsStep ==
    ASSUME GatewayInv, NEW p \in Packets, Oops(p)
    PROVE  GatewayInv'
<1> DEFINE l == Lookup(p)
<1>1. /\ Ends(p, "oops") /\ UNCHANGED <<role, res, mod, tables, devices, cfg, raw>>
      /\ Faults(p)
  BY DEF Oops
<1>2. /\ last'.fate = "oops" /\ last'.src = p.src /\ last'.hook = p.hook /\ last'.net = l.net
  BY <1>1, EndsLast DEF GatewayInv, None
<1>3. NoPlaintext'
  BY <1>2 DEF NoPlaintext
<1>4. NetworkSafe'
  <2> SUFFICES ASSUME mod = "up", p.hook # "out"
               PROVE  cfg.host \in {p.src, l.net[1]}
    BY <1>1, <1>2 DEF NetworkSafe
  <2>1. \/ l.op = "src" /\ l.net = NoNet
        \/ l.op = "dst" /\ l.net # Lan /\ l.net \notin nhost
        \/ l.op = "dst" /\ l.net = Lan
    BY <1>1 DEF Faults
  <2>2. CASE l.op = "src" /\ l.net = NoNet
    <3>1. p.src \in HostSet /\ hnet[p.src] = NoNet
      BY <2>2, LookupResult DEF GatewayInv, Lan, NoNet
    <3>2. p.src \in Hosts
      BY <3>1 DEF HostSet, GatewayInv, TypeOK
    <3>3. PICK k \in DOMAIN NetsOf[p.src] : NetsOf[p.src][k] = p.src
      BY <3>2, ConfigOK
    <3> QED  BY <3>1, <3>3 DEF GatewayInv, Owns
  <2>3. CASE l.op = "dst" /\ l.net # Lan /\ l.net \notin nhost
    <3>1. l.net \in RouteSet
      BY <2>3, LookupResult DEF GatewayInv
    <3>2. l.net = <<cfg.host, cfg.i>>
      BY <2>3, <3>1 DEF GatewayInv, Pointers
    <3> QED  BY <3>2
  <2>4. CASE l.op = "dst" /\ l.net = Lan
    <3>1. RouteSet \subseteq HostNets
      BY DEF RouteSet, GatewayInv, TypeOK
    <3>2. p.src = "me"
      BY <2>4, <3>1, LookupResult, HostNetPair DEF GatewayInv
    <3> QED  BY <3>2, PacketType
  <2> QED  BY <2>1, <2>2, <2>3, <2>4
<1> QED  BY <1>1, <1>3, <1>4, PacketStep DEF GatewayInv, TypeOK, LanRaw, devices

\* A packet whose fate is none of the two that are remembered.
LEMMA OtherFate ==
    ASSUME GatewayInv, NEW p \in Packets, NEW fate, fate \notin {"accept", "oops"},
           Ends(p, fate)
    PROVE  NoPlaintext' /\ NetworkSafe'
BY EndsLast DEF GatewayInv, NoPlaintext, NetworkSafe, None

\* A packet of a P3 host for the local subnet finds no okfn only between the
\* two steps of the local subnet's raw packet.
LEMMA FromHostStep ==
    ASSUME GatewayInv, NEW p \in Packets, FromHost(p)
    PROVE  GatewayInv'
<1> DEFINE l == Lookup(p)
<1>1. /\ UNCHANGED <<role, res, mod, tables, devices, cfg, raw>>
      /\ l.op = "src" /\ l.net \in act
      /\ \/ Ends(p, "drop") \/ Ends(p, "control") \/ Ends(p, "decrypted")
         \/ p.fwd /\ Lan \notin okfn /\ Ends(p, "oops")
  BY DEF FromHost
<1>2. TypeOK /\ act' \subseteq HostNets \cup {Lan} /\ okfn' = okfn /\ LanRaw'
      /\ raw' \in HostNets \cup {Lan, NoNet}
  BY <1>1 DEF GatewayInv, TypeOK, LanRaw, devices
<1>3. CASE Ends(p, "drop") \/ Ends(p, "control") \/ Ends(p, "decrypted")
  BY <1>1, <1>2, <1>3, PacketStep, OtherFate
<1>4. CASE p.fwd /\ Lan \notin okfn /\ Ends(p, "oops")
  <2>1. last'.fate = "oops" /\ last'.net = l.net
    BY <1>2, <1>4, EndsLast DEF None
  <2>2. l.net = Lan
    BY <1>1, <1>2, <1>4, LookupResult
  <2>3. raw = Lan
    BY <1>1, <1>4, <2>2 DEF GatewayInv, LanRaw
  <2>4. NoPlaintext' /\ NetworkSafe'
    BY <1>1, <2>1, <2>2, <2>3 DEF NoPlaintext, NetworkSafe
  <2> QED  BY <1>1, <1>2, <1>4, <2>4, PacketStep
<1> QED  BY <1>1, <1>3, <1>4

\* The raw packet makes networks of a host active, or the local subnet.
LEMMA RawPacketStep ==
    ASSUME GatewayInv, NEW p \in Packets, RawPacket(p)
    PROVE  GatewayInv'
<1> DEFINE l == Lookup(p)
<1>1. /\ UNCHANGED <<role, res, mod, tables, okfn, cfg>> /\ Ends(p, "stolen")
      /\ l.op = "dst" /\ raw' = l.net /\ raw = NoNet
      /\ act' = IF l.net = Lan THEN act \cup {Lan} ELSE set_net_active(l.net)
  BY DEF RawPacket
<1>2. TypeOK /\ l.net \in HostNets \cup {Lan}
  BY <1>1, LookupResult DEF GatewayInv, TypeOK, RouteSet, None
<1>3. act' \subseteq HostNets \cup {Lan} /\ (Lan \in act' => Lan \in act \/ l.net = Lan)
  <2>1. CASE l.net = Lan
    BY <1>1, <1>2, <2>1 DEF TypeOK
  <2>2. CASE l.net # Lan
    <3>1. {<<l.net[1], i>> : i \in DOMAIN NetsOf[l.net[1]]} \subseteq HostNets
      BY <1>2, <2>2, HostNetPair
    <3>2. Lan \notin HostNets
      BY HostNetPair
    <3> QED  BY <1>1, <1>2, <2>2, <3>1, <3>2 DEF TypeOK, set_net_active
  <2> QED  BY <2>1, <2>2
<1>4. LanRaw'
  BY <1>1, <1>3 DEF GatewayInv, LanRaw, Lan, NoNet
<1> QED  BY <1>1, <1>2, <1>3, <1>4, OtherFate, PacketStep

\* The okfn of the raw packet is stored.
LEMMA RawOkfnStep ==
    ASSUME GatewayInv, RawOkfn, last.fate # "oops"
    PROVE  GatewayInv'
<1>1. /\ UNCHANGED <<role, res, mod, tables, act, cfg, last>>
      /\ raw # NoNet /\ okfn' = okfn \cup {raw} /\ raw' = NoNet
  BY DEF RawOkfn
<1>2. TypeOK'
  BY <1>1 DEF GatewayInv, TypeOK, tables
<1>3. Loading'
  BY <1>1 DEF GatewayInv, Loading, Prefix, tables
<1>4. Adding' /\ Table' /\ Pointers' /\ Owns'
  BY <1>1, TablesKept DEF GatewayInv, tables
<1>5. LanRaw' /\ NoPlaintext' /\ NetworkSafe' /\ FailedClean'
  BY <1>1 DEF GatewayInv, LanRaw, NoPlaintext, NetworkSafe, FailedClean
<1> QED  BY <1>2, <1>3, <1>4, <1>5 DEF GatewayInv

\* A packet is encrypted on the Forward hook, or on the way out of the
\* gateway, where an okfn may be missing.
LEMMA SendStep ==
    ASSUME GatewayInv, NEW p \in Packets, SendLocal(p) \/ SendForward(p)
    PROVE  GatewayInv'
<1> DEFINE l == Lookup(p)
<1>1. /\ UNCHANGED <<role, res, mod, tables, devices, cfg, raw>>
      /\ l.op = "dst" /\ ~l.srsub /\ p.kind \in {"tcp", "udp"}
      /\ \/ Ends(p, "drop") \/ Ends(p, "encrypted")
         \/ p.hook # "fwd" /\ Ends(p, "oops")
  BY DEF SendLocal, SendForward, Encrypts
<1>2. TypeOK /\ act' \subseteq HostNets \cup {Lan} /\ okfn' = okfn /\ LanRaw'
      /\ raw' \in HostNets \cup {Lan, NoNet}
  BY <1>1 DEF GatewayInv, TypeOK, LanRaw, devices
<1>3. CASE Ends(p, "drop") \/ Ends(p, "encrypted")
  BY <1>1, <1>2, <1>3, PacketStep, OtherFate
<1>4. CASE p.hook # "fwd" /\ Ends(p, "oops")
  <2>1. last'.fate = "oops" /\ last'.hook = p.hook
    BY <1>2, <1>4, EndsLast DEF None
  <2>2. p.hook = "out"
    <3>1. p.src \notin Hosts  BY <1>1, PacketType
    <3>2. p.src # "lan" \/ p.hook = "pre"  BY <1>4, PacketType
    <3>3. p.src = "lan" /\ p.hook = "pre" => l.srsub
      BY <1>1, <1>2, LookupResult
    <3> QED  BY <1>1, <3>1, <3>2, <3>3, PacketType
  <2>3. NoPlaintext' /\ NetworkSafe'
    BY <2>1, <2>2 DEF NoPlaintext, NetworkSafe
  <2> QED  BY <1>1, <1>2, <1>4, <2>3, PacketStep
<1> QED  BY <1>1, <1>3, <1>4

-----------------------------------------------------------------------------
(* Configuration                                                            *)

\* The parts of the invariant that a step of parse_p3data cannot disturb.
LEMMA ConfigKeeps ==
    ASSUME GatewayInv, last.fate # "oops", mod = "up",
           UNCHANGED <<role, res, mod, devices, raw, last>>
    PROVE  Loading' /\ LanRaw' /\ NoPlaintext' /\ NetworkSafe' /\ FailedClean'
BY DEF GatewayInv, Loading, LanRaw, NoPlaintext, NetworkSafe, FailedClean, devices

\* The local subnet is configured, on the secondary without its device.
LEMMA ConfigLocalStep ==
    ASSUME GatewayInv, last.fate # "oops", ConfigPrimary \/ ConfigSecondary
    PROVE  GatewayInv'
<1>1. /\ UNCHANGED <<role, res, mod, hosts, routes, nhost, hnet, cfg, raw, last>>
      /\ mod = "up" /\ act' \subseteq act /\ okfn' \subseteq okfn
      /\ act' = act \ {Lan} \/ (act' = act /\ okfn' = okfn)
  BY DEF ConfigPrimary, ConfigSecondary, devices
<1>2. TypeOK'
  BY <1>1 DEF GatewayInv, TypeOK
<1>3. Adding' /\ Table' /\ Pointers' /\ Owns'
  BY <1>1, TablesKept DEF GatewayInv
<1>4. Loading' /\ LanRaw' /\ NoPlaintext' /\ NetworkSafe' /\ FailedClean'
  BY <1>1 DEF GatewayInv, Loading, LanRaw, NoPlaintext, NetworkSafe, FailedClean
<1> QED  BY <1>2, <1>3, <1>4 DEF GatewayInv

\* A new host has no network yet.
LEMMA AddHostStep ==
    ASSUME GatewayInv, last.fate # "oops", NEW h \in Hosts, AddHost(h)
    PROVE  GatewayInv'
<1>1. /\ UNCHANGED <<role, res, mod, local, routes, nhost, hnet, devices, raw, last>>
      /\ mod = "up" /\ cfg.host = None /\ h \notin HostSet
      /\ hosts' = <<h>> \o hosts
      /\ cfg' = [host |-> h, i |-> 1, step |-> "route"]
  BY DEF AddHost, HostSet
<1>2. hosts' \in Seq(Hosts) /\ HostSet' = HostSet \cup {h} /\ RouteSet' = RouteSet
  <2>1. hosts \in Seq(Hosts) /\ hosts' = <<h>> \o hosts
    BY <1>1 DEF GatewayInv, TypeOK
  <2>2. /\ hosts' \in Seq(Hosts) /\ Len(hosts') = Len(hosts) + 1 /\ hosts'[1] = h
        /\ \A i \in 1..Len(hosts) : hosts'[i + 1] = hosts[i]
    BY <2>1
  <2>3. \A y : (\E i \in DOMAIN hosts' : y = hosts'[i])
                 <=> (y = h \/ \E i \in DOMAIN hosts : y = hosts[i])
    BY <2>1, <2>2, ConsRange
  <2>4. HostSet' = HostSet \cup {h}  BY <2>3 DEF HostSet
  <2> QED  BY <1>1, <2>2, <2>4 DEF RouteSet
<1>3. TypeOK'
  BY <1>1, <1>2 DEF GatewayInv, TypeOK, Configs, devices
<1>4. /\ cfg'.host = h /\ cfg'.i = 1 /\ cfg'.step = "route" /\ h # None
      /\ NetsOf[h] \in Seq(DOMAIN Covers) /\ cfg.step = None
  BY <1>1, ConfigOK, NamesOK DEF None, GatewayInv, Adding
<1>5. Adding'
  BY <1>1, <1>2, <1>4 DEF Adding, None
<1>6. \A g \in HostSet : g \in Hosts /\ g # h /\ g # None
  BY <1>1, NamesOK DEF HostSet, GatewayInv, TypeOK, None
<1>7. Table'
  <2>1. \A k \in DOMAIN NetsOf[h] : ~ Entered(h, k)'
    BY <1>4 DEF Entered
  <2>2. \A g \in HostSet : \A k \in DOMAIN NetsOf[g] : Entered(g, k)
    BY <1>1, <1>6 DEF Entered
  <2> QED  BY <1>1, <1>2, <2>1, <2>2 DEF GatewayInv, Table
<1>8. Pointers'
  BY <1>1, <1>2, <1>4 DEF GatewayInv, Pointers, None
<1>9. Owns'
  <2>1. \A k \in DOMAIN NetsOf[h] : ~ (k < 1)
    BY <1>4
  <2> QED  BY <1>1, <1>2, <1>4, <1>6, <2>1 DEF GatewayInv, Owns
<1> QED  BY <1>1, <1>3, <1>5, <1>7, <1>8, <1>9, ConfigKeeps DEF GatewayInv

\* build_p3table enters the network, finds it, or finds the table full.
LEMMA BuildTableResult ==
    ASSUME routes \in Seq(HostNets), Len(routes) <= MaxRoute, NEW n \in HostNets
    PROVE  /\ BuildTable(n) \in Seq(HostNets) /\ Len(BuildTable(n)) <= MaxRoute
           /\ Len(BuildTable(n)) >= Len(routes)
           /\ LET r == {BuildTable(n)[j] : j \in DOMAIN BuildTable(n)}
              IN  /\ RouteSet \subseteq r /\ r \subseteq RouteSet \cup {n}
                  /\ Len(BuildTable(n)) < MaxRoute => \E m \in r : Net(m) = Net(n)
<1> DEFINE b == BuildTable(n)
<1>1. CASE Len(routes) = MaxRoute \/ \E i \in DOMAIN routes : Net(routes[i]) = Net(n)
  <2>1. b = routes  BY <1>1 DEF BuildTable
  <2>2. Len(routes) < MaxRoute => \E m \in RouteSet : Net(m) = Net(n)
    BY <1>1, RouteOK DEF RouteSet
  <2> HIDE DEF b
  <2>3. Len(routes) \in Nat  OBVIOUS
  <2>4. {b[j] : j \in DOMAIN b} = RouteSet  BY <2>1 DEF RouteSet
  <2> QED  BY <2>1, <2>2, <2>3, <2>4, RouteOK DEF b
<1>2. CASE ~(Len(routes) = MaxRoute \/ \E i \in DOMAIN routes : Net(routes[i]) = Net(n))
  <2>1. b = Append(routes, n)  BY <1>2 DEF BuildTable
  <2> HIDE DEF b
  <2>2. b \in Seq(HostNets) /\ Len(b) = Len(routes) + 1 /\ Len(routes) \in Nat
    BY <2>1, AppendRange
  <2>3. {b[j] : j \in DOMAIN b} = RouteSet \cup {n}
    BY <2>1, AppendRange DEF RouteSet
  <2>4. Len(b) <= MaxRoute /\ Len(b) >= Len(routes)
    BY <1>2, <2>2, RouteOK
  <2> QED  BY <2>2, <2>3, <2>4 DEF b
<1> QED  BY <1>1, <1>2

\* The network that parse_p3data is at.
LEMMA CurrentNet ==
    ASSUME GatewayInv, cfg.step # None, cfg.i <= Len(NetsOf[cfg.host])
    PROVE  /\ cfg.host \in Hosts /\ cfg.host # None /\ cfg.host \in HostSet /\ mod = "up"
           /\ cfg.i \in DOMAIN NetsOf[cfg.host] /\ cfg.i \in Nat
           /\ <<cfg.host, cfg.i>> \in HostNets
           /\ Net(<<cfg.host, cfg.i>>) = NetsOf[cfg.host][cfg.i]
<1>1. /\ cfg.host # None /\ cfg.host \in HostSet /\ mod = "up"
      /\ cfg.i \in 1..(Len(NetsOf[cfg.host]) + 1)
  BY DEF GatewayInv, Adding
<1>2. cfg.host \in Hosts
  BY <1>1 DEF GatewayInv, TypeOK, HostSet
<1>3. NetsOf[cfg.host] \in Seq(DOMAIN Covers)
  BY <1>2, ConfigOK
<1>4. cfg.i \in DOMAIN NetsOf[cfg.host] /\ cfg.i \in Nat
  BY <1>1, <1>3
<1> QED  BY <1>1, <1>2, <1>4, HostNetPair DEF Net

\* The network is entered before its pointer is set.
LEMMA ConfigRouteStep ==
    ASSUME GatewayInv, last.fate # "oops", ConfigRoute
    PROVE  GatewayInv'
<1> DEFINE n == <<cfg.host, cfg.i>>
<1>1. /\ UNCHANGED <<role, res, mod, local, hosts, nhost, hnet, devices, raw, last>>
      /\ cfg.step = "route" /\ cfg.i <= Len(NetsOf[cfg.host])
      /\ routes' = BuildTable(n) /\ cfg' = [cfg EXCEPT !.step = "host"]
  BY DEF ConfigRoute
<1>2. /\ cfg.host \in Hosts /\ cfg.host # None /\ cfg.host \in HostSet /\ mod = "up"
      /\ cfg.i \in DOMAIN NetsOf[cfg.host] /\ cfg.i \in Nat
      /\ n \in HostNets /\ Net(n) = NetsOf[cfg.host][cfg.i]
  BY <1>1, CurrentNet DEF None
<1>3. /\ cfg' \in Configs
      /\ cfg'.host = cfg.host /\ cfg'.i = cfg.i /\ cfg'.step = "host"
  BY <1>1 DEF GatewayInv, TypeOK, Configs
<1> HIDE DEF n
<1>4. routes \in Seq(HostNets) /\ Len(routes) <= MaxRoute /\ Len(routes) \in Nat
  BY DEF GatewayInv, TypeOK, Table
<1>5. /\ routes' \in Seq(HostNets) /\ Len(routes') <= MaxRoute
      /\ Len(routes') >= Len(routes) /\ Len(routes') \in Nat
      /\ RouteSet \subseteq RouteSet' /\ RouteSet' \subseteq RouteSet \cup {n}
      /\ Len(routes') < MaxRoute => \E m \in RouteSet' : Net(m) = Net(n)
  <2> DEFINE b == BuildTable(n)
             r == {b[j] : j \in DOMAIN b}
  <2>1. /\ b \in Seq(HostNets) /\ Len(b) <= MaxRoute /\ Len(b) >= Len(routes)
        /\ RouteSet \subseteq r /\ r \subseteq RouteSet \cup {n}
        /\ Len(b) < MaxRoute => \E m \in r : Net(m) = Net(n)
    BY <1>2, <1>4, BuildTableResult
  <2>2. routes' = b  BY <1>1
  <2> HIDE DEF b
  <2>3. RouteSet' = r  BY <2>2 DEF RouteSet
  <2>4. Len(b) \in Nat  BY <2>1
  <2> HIDE DEF r
  <2> QED  BY <2>1, <2>2, <2>3, <2>4
<1>6. HostSet' = HostSet
  BY <1>1 DEF HostSet
<1>7. TypeOK'
  BY <1>1, <1>3, <1>5 DEF GatewayInv, TypeOK, devices
<1>8. Adding'
  BY <1>1, <1>2, <1>3, <1>6 DEF GatewayInv, Adding, None
<1>9. Table'
  <2> SUFFICES ASSUME Len(routes') < MaxRoute, NEW h \in HostSet,
                      NEW k \in DOMAIN NetsOf[h], Entered(h, k)'
               PROVE  \E m \in RouteSet' : Net(m) = NetsOf[h][k]
    BY <1>5, <1>6 DEF Table
  <2>1. CASE Entered(h, k)
    <3>1. Len(routes) < MaxRoute  BY <1>4, <1>5, RouteOK
    <3> QED  BY <1>5, <2>1, <3>1 DEF GatewayInv, Table
  <2>2. CASE ~Entered(h, k)
    <3>1. h = cfg.host /\ k = cfg.i  BY <1>3, <2>2 DEF Entered
    <3> QED  BY <1>2, <1>5, <3>1
  <2> QED  BY <2>1, <2>2
<1>10. Pointers'
  BY <1>1, <1>3, <1>5 DEF GatewayInv, Pointers, n
<1>11. Owns'
  BY <1>1, <1>3, <1>6 DEF GatewayInv, Owns
<1> QED  BY <1>1, <1>2, <1>7, <1>8, <1>9, <1>10, <1>11, ConfigKeeps DEF GatewayInv

\* The pointers are set, and parse_p3data turns to the next network.
LEMMA ConfigNetHostStep ==
    ASSUME GatewayInv, last.fate # "oops", ConfigNetHost
    PROVE  GatewayInv'
<1> DEFINE n == <<cfg.host, cfg.i>>
<1>1. /\ UNCHANGED <<role, res, mod, local, hosts, routes, devices, raw, last>>
      /\ cfg.step = "host" /\ nhost' = nhost \cup {n}
      /\ hnet' = IF Net(n) = cfg.host THEN [hnet EXCEPT ![cfg.host] = n] ELSE hnet
      /\ cfg' = [cfg EXCEPT !.step = "route", !.i = @ + 1]
  BY DEF ConfigNetHost
<1>2. /\ cfg.host \in Hosts /\ cfg.host # None /\ cfg.host \in HostSet /\ mod = "up"
      /\ cfg.i \in DOMAIN NetsOf[cfg.host] /\ cfg.i \in Nat
      /\ n \in HostNets /\ Net(n) = NetsOf[cfg.host][cfg.i]
  <2>1. cfg.host # None /\ cfg.i \in DOMAIN NetsOf[cfg.host] /\ cfg.host \in Hosts
    BY <1>1 DEF GatewayInv, Adding, TypeOK, HostSet, None
  <2>2. NetsOf[cfg.host] \in Seq(DOMAIN Covers)
    BY <2>1, ConfigOK
  <2>3. cfg.i <= Len(NetsOf[cfg.host])
    BY <2>1, <2>2
  <2> QED  BY <1>1, <2>3, CurrentNet DEF None
<1>3. /\ cfg' \in Configs
      /\ cfg'.host = cfg.host /\ cfg'.i = cfg.i + 1 /\ cfg'.step = "route"
  <2>1. cfg \in Configs  BY DEF GatewayInv, TypeOK
  <2>2. cfg' = [host |-> cfg.host, i |-> cfg.i + 1, step |-> "route"]
    BY <1>1, <2>1 DEF Configs
  <2> QED  BY <1>2, <2>1, <2>2 DEF Configs
<1>4. n # NoNet
  BY <1>2, HostNetPair
<1> HIDE DEF n
<1>5. HostSet' = HostSet /\ RouteSet' = RouteSet
  BY <1>1 DEF HostSet, RouteSet
<1>6. TypeOK'
  BY <1>1, <1>2, <1>3 DEF GatewayInv, TypeOK, devices
<1>7. NetsOf[cfg.host] \in Seq(DOMAIN Covers)
  BY <1>2, ConfigOK
<1>8. Adding'
  <2>1. cfg.i + 1 \in 1..(Len(NetsOf[cfg.host]) + 1)  BY <1>2, <1>7
  <2> QED  BY <1>1, <1>2, <1>3, <1>5, <2>1 DEF Adding, None
<1>9. \A h \in HostSet : \A k \in DOMAIN NetsOf[h] :
         /\ k \in Nat
         /\ k < cfg.i + 1 <=> k < cfg.i \/ k = cfg.i
  <2> SUFFICES ASSUME NEW h \in HostSet, NEW k \in DOMAIN NetsOf[h]
               PROVE  k \in Nat /\ (k < cfg.i + 1 <=> k < cfg.i \/ k = cfg.i)
    OBVIOUS
  <2>1. NetsOf[h] \in Seq(DOMAIN Covers)  BY ConfigOK DEF GatewayInv, TypeOK, HostSet
  <2> QED  BY <1>2, <2>1
<1>10. Table'
  <2>1. \A h \in HostSet : \A k \in DOMAIN NetsOf[h] : Entered(h, k)' => Entered(h, k)
    BY <1>1, <1>3, <1>9 DEF Entered
  <2> QED  BY <1>1, <1>5, <2>1 DEF GatewayInv, Table
<1>11. Pointers'
  BY <1>1, <1>5 DEF GatewayInv, Pointers, n
<1>12. Owns'
  <2> SUFFICES ASSUME NEW h \in HostSet, NEW k \in DOMAIN NetsOf[h], NetsOf[h][k] = h,
                      h # cfg.host \/ k < cfg.i + 1
               PROVE  hnet'[h] # NoNet
    BY <1>3, <1>5 DEF Owns
  <2>1. hnet \in [Hosts -> HostNets \cup {NoNet}] /\ h \in Hosts
    BY DEF GatewayInv, TypeOK, HostSet
  <2>2. CASE h = cfg.host /\ k = cfg.i
    BY <1>1, <1>2, <1>4, <2>1, <2>2
  <2>3. CASE h # cfg.host \/ k < cfg.i
    <3>1. hnet[h] # NoNet  BY <2>3 DEF GatewayInv, Owns
    <3> QED  BY <1>1, <1>2, <1>4, <2>1, <3>1
  <2> QED  BY <1>9, <2>2, <2>3
<1> QED  BY <1>1, <1>2, <1>6, <1>8, <1>10, <1>11, <1>12, ConfigKeeps DEF GatewayInv

\* All networks of the host have been entered when the ioctl returns.
LEMMA ConfigEndStep ==
    ASSUME GatewayInv, last.fate # "oops", ConfigEnd
    PROVE  GatewayInv'
<1>1. /\ UNCHANGED <<role, res, mod, tables, devices, raw, last>>
      /\ cfg.step = "route" /\ cfg.i > Len(NetsOf[cfg.host])
      /\ cfg' = [host |-> None, i |-> 0, step |-> None]
  BY DEF ConfigEnd
<1>2. HostSet' = HostSet /\ RouteSet' = RouteSet
  BY <1>1 DEF HostSet, RouteSet, tables
<1>3. cfg.host # None /\ cfg.host \in Hosts /\ cfg.i \in Nat /\ mod = "up"
  BY <1>1 DEF GatewayInv, Adding, TypeOK, HostSet, None, Configs
<1>4. \A h \in HostSet : \A k \in DOMAIN NetsOf[h] : h # cfg.host \/ k < cfg.i
  <2> SUFFICES ASSUME NEW k \in DOMAIN NetsOf[cfg.host] PROVE k < cfg.i
    OBVIOUS
  <2>1. NetsOf[cfg.host] \in Seq(DOMAIN Covers)  BY <1>3, ConfigOK
  <2> QED  BY <1>1, <1>3, <2>1
<1>5. TypeOK'
  BY <1>1 DEF GatewayInv, TypeOK, Configs, tables, devices
<1>6. Adding'
  BY <1>1 DEF Adding
<1>7. Table'
  BY <1>1, <1>2, <1>4 DEF GatewayInv, Table, Entered, tables
<1>8. Pointers'
  BY <1>1, <1>2 DEF GatewayInv, Pointers, tables
<1>9. Owns'
  BY <1>1, <1>2, <1>4 DEF GatewayInv, Owns, tables
<1> QED  BY <1>1, <1>3, <1>5, <1>6, <1>7, <1>8, <1>9, ConfigKeeps DEF GatewayInv

-----------------------------------------------------------------------------
(* Loading and unloading                                                    *)

\* Every step of P3INIT acquires something new.
LEMMA PrefixSize ==
    \A k \in 0..9 : Cardinality(Prefix(k)) = k
<1>1. \A k \in 0..9 : Prefix(k) = IF k = 0 THEN {} ELSE Prefix(k - 1) \cup {InitSteps[k]}
  <2> SUFFICES ASSUME NEW k \in 0..9
               PROVE  Prefix(k) = IF k = 0 THEN {} ELSE Prefix(k - 1) \cup {InitSteps[k]}
    OBVIOUS
  <2>1. 1..k = IF k = 0 THEN {} ELSE (1..(k - 1)) \cup {k}
    <3>1. CASE k = 0  BY <3>1
    <3>2. CASE k # 0
      <4>1. \A j : j \in 1..k <=> j \in (1..(k - 1)) \cup {k}  BY <3>2
      <4> QED  BY <3>2, <4>1
    <3> QED  BY <3>1, <3>2
  <2> QED  BY <2>1 DEF Prefix
<1>2. \A k \in 1..9 : InitSteps[k] \notin Prefix(k - 1)
  <2>1. \A j, k \in 1..9 : j < k => InitSteps[j] # InitSteps[k]
    BY DEF InitSteps
  <2> QED  BY <2>1 DEF Prefix
<1> DEFINE P(k) == IsFiniteSet(Prefix(k)) /\ Cardinality(Prefix(k)) = k
<1>3. P(0)
  BY <1>1, FS_EmptySet
<1>4. \A k \in 1..9 : P(k - 1) => P(k)
  <2> SUFFICES ASSUME NEW k \in 1..9, P(k - 1) PROVE P(k)
    OBVIOUS
  <2>1. Prefix(k) = Prefix(k - 1) \cup {InitSteps[k]}  BY <1>1
  <2>2. IsFiniteSet(Prefix(k - 1)) /\ Cardinality(Prefix(k - 1)) = k - 1
    OBVIOUS
  <2>3. InitSteps[k] \notin Prefix(k - 1)  BY <1>2
  <2>4. IsFiniteSet(Prefix(k)) /\ Cardinality(Prefix(k)) = Cardinality(Prefix(k - 1)) + 1
    BY <2>1, <2>2, <2>3, FS_AddElement
  <2> QED  BY <2>2, <2>4
<1> HIDE DEF P
<1>5. P(1) /\ P(2) /\ P(3)  BY <1>3, <1>4
<1>6. P(4) /\ P(5) /\ P(6)  BY <1>4, <1>5
<1>7. P(7) /\ P(8) /\ P(9)  BY <1>4, <1>6
<1>8. \A k \in 0..9 : P(k)  BY <1>3, <1>5, <1>6, <1>7
<1> QED  BY <1>8 DEF P

\* The ladder takes back what was acquired before the step that failed.
LEMMA LadderUndoes ==
    ASSUME NEW k \in 0..9
    PROVE  (Prefix(k) \ Undo(FailStat[k + 1]))
              \cap {"hooks", "device", "class", "cdevadd", "region", "ramdisk"} = {}
<1> SUFFICES ASSUME NEW i \in 1..k,
                    InitSteps[i] \in {"hooks", "device", "class", "cdevadd", "region", "ramdisk"}
             PROVE  InitSteps[i] \in Undo(FailStat[k + 1])
  BY DEF Prefix
<1>1. \/ i = 1 /\ k + 1 >= 2 /\ InitSteps[i] = "region"
      \/ i = 3 /\ k + 1 >= 4 /\ InitSteps[i] = "ramdisk"
      \/ i = 4 /\ k + 1 >= 5 /\ InitSteps[i] = "cdevadd"
      \/ i = 5 /\ k + 1 >= 6 /\ InitSteps[i] = "class"
      \/ i = 6 /\ k + 1 >= 7 /\ InitSteps[i] = "device"
      \/ i = 7 /\ k + 1 >= 8 /\ InitSteps[i] = "hooks"
  BY DEF InitSteps
<1>2. /\ k + 1 >= 2 => FailStat[k + 1] > 1
      /\ k + 1 >= 4 => FailStat[k + 1] > 2
      /\ k + 1 >= 5 => FailStat[k + 1] > 3
      /\ k + 1 >= 6 => FailStat[k + 1] > 4
      /\ k + 1 >= 7 => FailStat[k + 1] > 5
      /\ k + 1 >= 8 => FailStat[k + 1] > 6
  BY DEF FailStat
<1> QED  BY <1>1, <1>2 DEF Undo

\* P3INIT goes on, ends, or fails and takes everything back.
LEMMA LoadStepKeeps ==
    ASSUME GatewayInv, last.fate # "oops", LoadStep
    PROVE  GatewayInv'
<1>1. /\ UNCHANGED <<role, tables, devices, cfg, raw, last>> /\ mod = "load"
      /\ \/ /\ res' = res \cup {InitSteps[Cardinality(res) + 1]}
            /\ mod' = IF Cardinality(res) + 1 = Len(InitSteps) THEN "up" ELSE "load"
         \/ res' = res \ Undo(FailStat[Cardinality(res) + 1]) /\ mod' = "failed"
  BY DEF LoadStep
<1>2. PICK k \in 0..9 : res = Prefix(k)
  BY <1>1 DEF GatewayInv, Loading
<1>3. Cardinality(res) = k /\ Len(InitSteps) = 10
  BY <1>2, PrefixSize DEF InitSteps
<1>4. hosts = <<>> /\ last.net = NoNet /\ cfg.host = None
  BY <1>1 DEF GatewayInv, Loading, Adding
<1>5. TypeOK'
  BY <1>1 DEF GatewayInv, TypeOK, tables, devices
<1>6. Loading'
  <2> SUFFICES ASSUME mod' = "load" PROVE \E j \in 0..9 : res' = Prefix(j)
    BY <1>1, <1>4 DEF Loading, tables, Prefix
  <2>1. k + 1 \in 0..9 /\ res' = Prefix(k) \cup {InitSteps[k + 1]}
    BY <1>1, <1>2, <1>3
  <2>2. 1..(k + 1) = (1..k) \cup {k + 1}
    OBVIOUS
  <2>3. Prefix(k + 1) = Prefix(k) \cup {InitSteps[k + 1]}
    BY <2>2 DEF Prefix
  <2> QED  BY <2>1, <2>3
<1>7. Adding' /\ Table' /\ Pointers' /\ Owns'
  BY <1>1, <1>4, TablesKept DEF GatewayInv, tables
<1>8. LanRaw' /\ NoPlaintext'
  <2>1. NoNet \notin HostNets  BY HostNetPair
  <2> QED  BY <1>1, <1>4, <2>1 DEF GatewayInv, LanRaw, NoPlaintext, devices
<1>9. NetworkSafe'
  BY <1>1 DEF NetworkSafe
<1>10. FailedClean'
  BY <1>1, <1>2, <1>3, LadderUndoes DEF FailedClean
<1> QED  BY <1>5, <1>6, <1>7, <1>8, <1>9, <1>10 DEF GatewayInv

\* P3EXIT frees the tables, and then removes the hooks.
LEMMA ExitStep ==
    ASSUME GatewayInv, last.fate # "oops", ExitFree \/ ExitUnhook
    PROVE  GatewayInv'
<1>1. /\ UNCHANGED <<role, tables, devices, cfg, raw>>
      /\ mod' \in {"exit", "out"} /\ cfg.host = None
      /\ mod' = "out" =>
           res' = res \ {"hooks", "device", "class", "cdev", "cdevadd", "region", "ramdisk"}
      /\ last' = last \/ last' = NoPacket
  BY DEF ExitFree, ExitUnhook, GatewayInv, Adding
<1>2. TypeOK'
  <2>1. NoPacket \in Lasts  BY DEF NoPacket, Lasts, None
  <2> QED  BY <1>1, <2>1 DEF GatewayInv, TypeOK, tables, devices
<1>3. Adding' /\ Table' /\ Pointers' /\ Owns'
  BY <1>1, TablesKept DEF GatewayInv, tables
<1>4. Loading' /\ LanRaw' /\ NoPlaintext' /\ NetworkSafe'
  BY <1>1 DEF GatewayInv, Loading, LanRaw, NoPlaintext, NetworkSafe, devices
<1>5. FailedClean'
  BY <1>1 DEF FailedClean
<1> QED  BY <1>2, <1>3, <1>4, <1>5 DEF GatewayInv

-----------------------------------------------------------------------------
(* The theorems                                                             *)

\* A module that is being loaded has no host, no network and no packet.
LEMMA InitGateway == Init => GatewayInv
<1> SUFFICES ASSUME Init PROVE GatewayInv
  OBVIOUS
<1>1. TypeOK
  BY DEF Init, TypeOK, Configs, Lasts, NoPacket, None
<1>2. hosts = <<>> /\ routes = <<>> /\ HostSet = {} /\ RouteSet = {} /\ Len(routes) = 0
  BY DEF Init, HostSet, RouteSet
<1>3. Loading
  <2>1. res = Prefix(0)  BY DEF Init, Prefix
  <2> QED  BY <2>1 DEF Init, Loading, NoPacket
<1>4. Adding /\ Pointers /\ Owns /\ LanRaw
  BY <1>2 DEF Init, Adding, Pointers, Owns, LanRaw
<1>5. Table
  BY <1>2, RouteOK DEF Table
<1>6. NoPlaintext /\ NetworkSafe /\ FailedClean
  BY DEF Init, NoPlaintext, NetworkSafe, FailedClean, NoPacket, None
<1> QED  BY <1>1, <1>3, <1>4, <1>5, <1>6 DEF GatewayInv

\* Every step keeps the invariant.
LEMMA NextGateway == GatewayInv /\ [Next]_vars => GatewayInv'
<1> SUFFICES ASSUME GatewayInv, [Next]_vars PROVE GatewayInv'
  OBVIOUS
<1>1. CASE UNCHANGED vars
  BY <1>1 DEF GatewayInv, TypeOK, Loading, Prefix, Adding, Table, Pointers, Owns, LanRaw,
              NoPlaintext, NetworkSafe, FailedClean, HostSet, RouteSet, Entered, vars
<1>2. CASE ~Stopped /\ LoadStep
  BY <1>2, LoadStepKeeps DEF Stopped
<1>3. CASE ~Stopped /\ (ExitFree \/ ExitUnhook)
  BY <1>3, ExitStep DEF Stopped
<1>4. CASE ~Stopped /\ Config
  <2>1. last.fate # "oops"
    BY <1>4 DEF Stopped
  <2>2. CASE ConfigPrimary \/ ConfigSecondary
    BY <2>1, <2>2, ConfigLocalStep
  <2>3. ASSUME NEW h \in Hosts, ConfigSecHost(h) \/ ConfigPriHost(h) PROVE GatewayInv'
    BY <2>1, <2>3, AddHostStep DEF ConfigSecHost, ConfigPriHost
  <2>4. CASE ConfigRoute \/ ConfigNetHost \/ ConfigEnd
    BY <2>1, <2>4, ConfigRouteStep, ConfigNetHostStep, ConfigEndStep
  <2> QED  BY <1>4, <2>2, <2>3, <2>4 DEF Config
<1>5. CASE ~Stopped /\ Packet
  BY <1>5, OopsStep, AcceptStep, FromHostStep, RawPacketStep, SendStep DEF Packet
<1>6. CASE ~Stopped /\ RawOkfn
  BY <1>6, RawOkfnStep DEF Stopped
<1> QED  BY <1>1, <1>2, <1>3, <1>4, <1>5, <1>6 DEF Next, Done

\* The invariant holds of the kernel module of either gateway.
THEOREM GatewayInvariant == Spec => []GatewayInv
BY InitGateway, NextGateway, PTL DEF Spec

\* packet_handler never lets a packet for an active network leave in clear,
\* whatever hosts, networks and masks are configured.
THEOREM NoPlaintextThm == Spec => []NoPlaintext
<1>1. GatewayInv => NoPlaintext  BY DEF GatewayInv
<1> QED  BY <1>1, GatewayInvariant, PTL

\* Packets of the P3 network and forwarded packets follow an unset pointer
\* only in the two windows of parse_p3data and of the raw packet.
THEOREM NetworkSafeThm == Spec => []NetworkSafe
<1>1. GatewayInv => NetworkSafe  BY DEF GatewayInv
<1> QED  BY <1>1, GatewayInvariant, PTL

\* P3INIT that fails, at whichever step, and P3EXIT leave nothing registered.
THEOREM FailedCleanThm == Spec => []FailedClean
<1>1. GatewayInv => FailedClean  BY DEF GatewayInv
<1> QED  BY <1>1, GatewayInvariant, PTL

\* Between ioctls every network of every host is in the route table, unless
\* build_p3table found the table full.
THEOREM RoutedThm == Spec => []Routed
<1>1. GatewayInv => Routed
  <2> SUFFICES ASSUME GatewayInv, cfg.host = None, Len(routes) < MaxRoute,
                      NEW i \in DOMAIN hosts, NEW k \in DOMAIN NetsOf[hosts[i]]
               PROVE  \E j \in DOMAIN routes : Net(routes[j]) = NetsOf[hosts[i]][k]
    BY DEF Routed
  <2>1. hosts[i] \in HostSet /\ hosts[i] # None
    BY NamesOK DEF HostSet, GatewayInv, TypeOK, None
  <2>2. Entered(hosts[i], k)
    BY <2>1 DEF Entered
  <2>3. PICK n \in RouteSet : Net(n) = NetsOf[hosts[i]][k]
    BY <2>1, <2>2 DEF GatewayInv, Table
  <2> QED  BY <2>3 DEF RouteSet
<1> QED  BY <1>1, GatewayInvariant, PTL
=============================================================================
