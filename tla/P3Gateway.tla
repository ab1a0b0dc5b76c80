------------------------------ MODULE P3Gateway ------------------------------
(***************************************************************************)
(* The kernel module of one gateway, primary or secondary: it is loaded    *)
(* step by step and unloaded (p3linux.c), gets its local address and the   *)
(* remote hosts with their networks by ioctl (parse_p3data), and decides   *)
(* about every packet the netfilter hooks see: p3_lookup, packet_handler   *)
(* and the p3pkt_intercept functions.  The session, its keys and the       *)
(* packet's bytes are the subject of P3Session and P3Packet.               *)
(***************************************************************************)
EXTENDS Naturals, Sequences, FiniteSets

CONSTANTS
    Hosts,      \* remote P3 hosts (their addresses)
    NetsOf,     \* host -> sequence of its networks, in the order configured
    Covers,     \* network -> destination addresses its mask matches
    LanAddr,    \* the address the local subnet is configured with
    MaxRoute    \* P3MAXROUTE

\* Every host is also configured as a network of its own.
ASSUME ConfigOK ==
    /\ \A h \in Hosts : h \in DOMAIN Covers /\ Covers[h] = {h}
    /\ NetsOf \in [Hosts -> Seq(DOMAIN Covers)]
    /\ \A h \in Hosts : \E i \in DOMAIN NetsOf[h] : NetsOf[h][i] = h
ASSUME NamesOK == Hosts \cap {"none", "lan", "me", "me2"} = {}
ASSUME RouteOK == MaxRoute \in Nat

VARIABLES
    role,    \* which module was built
    res,     \* what the module has allocated or registered
    mod,     \* "load", "up", "exit", "out", "failed"
    local,   \* the local address and subnet are configured
    hosts,   \* p3hosts: list of hosts, newest first
    routes,  \* ipv4route->nets: table of networks <<host, i>>
    nhost,   \* networks whose host pointer is set
    hnet,    \* host -> its own network, or NoNet
    act,     \* networks with p3NET_ACT
    okfn,    \* networks whose OS dependent data, which p3net_utils allocates
             \* when a packet first needs it, holds the okfn of a raw packet
    cfg,     \* the host parse_p3data is adding, and the next network
    raw,     \* network of a raw packet between packet_handler and okfn
    last     \* the last packet, the hook that saw it and its fate

vars == <<role, res, mod, local, hosts, routes, nhost, hnet, act, okfn, cfg,
          raw, last>>
tables == <<local, hosts, routes, nhost, hnet>>
devices == <<act, okfn>>

None == "none"
NoNet == <<"none", 0>>
Lan == <<"lan", 0>>      \* primain->subnet, secmain->subnet
HostNets == UNION {{<<h, i>> : i \in DOMAIN NetsOf[h]} : h \in Hosts}
Net(n) == NetsOf[n[1]][n[2]]
NoPacket == [src |-> None, syn |-> FALSE, hook |-> None, fate |-> None, net |-> NoNet]

Init == /\ role \in {"primary", "secondary"}
        /\ res = {} /\ mod = "load" /\ local = FALSE
        /\ hosts = <<>> /\ routes = <<>> /\ nhost = {}
        /\ hnet = [h \in Hosts |-> NoNet]
        /\ act = {} /\ okfn = {}
        /\ cfg = [host |-> None, i |-> 0, step |-> None] /\ raw = NoNet
        /\ last = NoPacket

-----------------------------------------------------------------------------
(* Loading and unloading.                                                   *)

\* What P3INIT acquires, in order, and the status when a step fails.
InitSteps == <<"region", "cdev", "ramdisk", "cdevadd", "class", "device",
               "hooks", "main", "route4", "route6">>
FailStat == <<1, 2, 3, 3, 4, 5, 6, 8, 8, 8>>

\* Mutant: a rung one too low, the class stays when the device fails.
UndoLowRung(stat) == (IF stat > 6 THEN {"hooks"} ELSE {})
         \cup (IF stat > 5 THEN {"device", "class"} ELSE {})
         \cup (IF stat > 3 THEN {"cdevadd", "cdev"} ELSE {})
         \cup (IF stat > 2 THEN {"ramdisk"} ELSE {})
         \cup (IF stat > 1 THEN {"region"} ELSE {})

\* The undo ladder at the end of P3INIT: each rung for statuses below it.
Undo(stat) == (IF stat > 6 THEN {"hooks"} ELSE {})
         \cup (IF stat > 5 THEN {"device"} ELSE {})
         \cup (IF stat > 4 THEN {"class"} ELSE {})
         \cup (IF stat > 3 THEN {"cdevadd", "cdev"} ELSE {})
         \cup (IF stat > 2 THEN {"ramdisk"} ELSE {})
         \cup (IF stat > 1 THEN {"region"} ELSE {})

(* P3INIT, one step; the hooks are registered before primain (secmain) and  *)
(* the route tables exist.                                                  *)
LoadStep ==
    LET n == Cardinality(res) + 1
    IN  /\ mod = "load"
        /\ \/ /\ res' = res \cup {InitSteps[n]}
              /\ mod' = IF n = Len(InitSteps) THEN "up" ELSE "load"
           \/ /\ res' = res \ Undo(FailStat[n])
              /\ mod' = "failed"
        /\ UNCHANGED <<role, tables, devices, cfg, raw, last>>

(* P3EXIT first frees the main structure and, on the primary, the tables.   *)
ExitFree ==
    /\ mod = "up" /\ cfg.host = None /\ raw = NoNet
    /\ mod' = "exit"
    /\ res' = res \ (IF role = "primary" THEN {"main", "route4", "route6"} ELSE {"main"})
    /\ UNCHANGED <<role, tables, devices, cfg, raw, last>>

(* Then it unregisters the hooks, and removes the device.                   *)
ExitUnhook ==
    /\ mod = "exit"
    /\ mod' = "out"
    /\ res' = res \ {"hooks", "device", "class", "cdev", "cdevadd", "region", "ramdisk"}
    /\ last' = NoPacket
    /\ UNCHANGED <<role, tables, devices, cfg, raw>>

-----------------------------------------------------------------------------
(* Configuration by ioctl: parse_p3data of the primary and the secondary.   *)

(* primarycfg: the local subnet is allocated once.                          *)
ConfigPrimary ==
    /\ mod = "up" /\ role = "primary" /\ cfg.host = None
    /\ local' = TRUE
    /\ UNCHANGED <<role, res, mod, hosts, routes, nhost, hnet, devices, cfg, raw, last>>

(* secondarycfg: the local subnet is allocated anew every time.             *)
ConfigSecondary ==
    /\ mod = "up" /\ role = "secondary" /\ cfg.host = None /\ raw = NoNet
    /\ local' = TRUE
    /\ act' = act \ {Lan} /\ okfn' = okfn \ {Lan}
    /\ UNCHANGED <<role, res, mod, hosts, routes, nhost, hnet, cfg, raw, last>>

\* A new host goes to the head of the list; its networks follow.
AddHost(h) ==
    /\ mod = "up" /\ local /\ cfg.host = None
    /\ h \notin {hosts[i] : i \in DOMAIN hosts}
    /\ hosts' = <<h>> \o hosts
    /\ cfg' = [host |-> h, i |-> 1, step |-> "route"]
    /\ UNCHANGED <<role, res, mod, local, routes, nhost, hnet, devices, raw, last>>

(* secondaryhostcfg of the primary.                                         *)
ConfigSecHost(h) == role = "primary" /\ AddHost(h)

(* primaryhostcfg of the secondary.                                         *)
ConfigPriHost(h) == role = "secondary" /\ AddHost(h)

\* Mutant: the last entry of the table is never used.
BuildTableShort(n) ==
    IF \/ Len(routes) + 1 >= MaxRoute
       \/ \E i \in DOMAIN routes : Net(routes[i]) = Net(n)
    THEN routes ELSE Append(routes, n)

\* build_p3table: a full table or a known network is only a warning.
BuildTable(n) ==
    IF \/ Len(routes) = MaxRoute
       \/ \E i \in DOMAIN routes : Net(routes[i]) = Net(n)
    THEN routes ELSE Append(routes, n)

(* parse_p3data, one subnet: the network is entered in the route table ...  *)
ConfigRoute ==
    /\ cfg.step = "route" /\ cfg.i <= Len(NetsOf[cfg.host])
    /\ routes' = BuildTable(<<cfg.host, cfg.i>>)
    /\ cfg' = [cfg EXCEPT !.step = "host"]
    /\ UNCHANGED <<role, res, mod, local, hosts, nhost, hnet, devices, raw, last>>

\* Mutant: the network with the host's own address is not noted.
ConfigNetHostNoOwn ==
    /\ cfg.step = "host"
    /\ nhost' = nhost \cup {<<cfg.host, cfg.i>>}
    /\ cfg' = [cfg EXCEPT !.step = "route", !.i = @ + 1]
    /\ UNCHANGED <<role, res, mod, local, hosts, routes, hnet, devices, raw, last>>

(* ... before its host pointer, and the host's own network, are set.        *)
ConfigNetHost ==
    LET n == <<cfg.host, cfg.i>>
    IN  /\ cfg.step = "host"
        /\ nhost' = nhost \cup {n}
        /\ hnet' = IF Net(n) = cfg.host THEN [hnet EXCEPT ![cfg.host] = n] ELSE hnet
        /\ cfg' = [cfg EXCEPT !.step = "route", !.i = @ + 1]
        /\ UNCHANGED <<role, res, mod, local, hosts, routes, devices, raw, last>>

\* The session's contexts are created, and the ioctl returns.
ConfigEnd ==
    /\ cfg.step = "route" /\ cfg.i > Len(NetsOf[cfg.host])
    /\ cfg' = [host |-> None, i |-> 0, step |-> None]
    /\ UNCHANGED <<role, res, mod, tables, devices, raw, last>>

-----------------------------------------------------------------------------
(* Packets.  A packet has a source, a destination, a kind and, between P3   *)
(* hosts, the mark that it is to be forwarded.                              *)

Inbound == [src : Hosts, dst : {"me"}, kind : {"p3data", "p3ctl", "plain"},
            fwd : BOOLEAN, hook : {"pre"}]
Outbound == [src : {"me", "me2"}, dst : UNION {Covers[n] : n \in DOMAIN Covers} \cup {LanAddr, "else"},
             kind : {"syn", "tcp", "udp"}, fwd : {FALSE}, hook : {"out"}]
       \cup [src : {"me"}, dst : Hosts \cup {LanAddr}, kind : {"raw"}, fwd : {FALSE},
             hook : {"out"}]
FromLan == [src : {"lan"}, dst : UNION {Covers[n] : n \in DOMAIN Covers} \cup {"else"},
            kind : {"tcp", "udp"}, fwd : {FALSE}, hook : {"pre", "fwd"}]
Packets == Inbound \cup Outbound \cup FromLan

\* The hooks are called on every CPU, also while an ioctl adds a host, while a
\* raw packet is between its two steps and while P3EXIT runs.
Handles == "hooks" \in res

\* Mutant: a matching route leaves the Forward hook's flag SRSUB as it is.
LookupKeepsFlag(p) ==
    LET match == {i \in DOMAIN routes : p.dst \in Covers[Net(routes[i])]}
        first == routes[CHOOSE i \in match : \A j \in match : i <= j]
        fwd == p.hook = "fwd"
    IN  IF ~({"route4", "main"} \subseteq res \/ mod = "exit") \/ hosts = <<>>
        THEN [op |-> None, net |-> NoNet, srsub |-> fwd, dssub |-> FALSE]
        ELSE IF p.src \in {hosts[i] : i \in DOMAIN hosts}
        THEN [op |-> "src", net |-> IF p.fwd THEN Lan ELSE hnet[p.src],
              srsub |-> fwd, dssub |-> p.fwd]
        ELSE IF match # {}
        THEN [op |-> "dst", net |-> first, dssub |-> p.dst # first[1], srsub |-> fwd]
        ELSE [op |-> IF p.src = "me" /\ p.dst = LanAddr THEN "dst" ELSE None,
              net |-> Lan, srsub |-> fwd, dssub |-> FALSE]

(* p3_lookup: source of a P3 host, else the first route whose mask matches  *)
(* the destination, else the local subnet's address.  The Forward hook has  *)
(* set the flag SRSUB, which a match of a route inverts.                    *)
Lookup(p) ==
    LET match == {i \in DOMAIN routes : p.dst \in Covers[Net(routes[i])]}
        first == routes[CHOOSE i \in match : \A j \in match : i <= j]
    IN  IF ~({"route4", "main"} \subseteq res \/ mod = "exit") \/ hosts = <<>>
        THEN [op |-> None, net |-> NoNet, srsub |-> p.hook = "fwd", dssub |-> FALSE]
        ELSE IF p.src \in {hosts[i] : i \in DOMAIN hosts}
        THEN [op |-> "src", net |-> IF p.fwd THEN Lan ELSE hnet[p.src],
              srsub |-> p.hook = "fwd", dssub |-> p.fwd]
        ELSE IF match # {}
        THEN [op |-> "dst", net |-> first, dssub |-> p.dst # first[1],
              srsub |-> IF p.src = "me" THEN p.hook = "fwd" ELSE p.hook # "fwd"]
        ELSE [op |-> IF p.src = "me" /\ p.dst = LanAddr THEN "dst" ELSE None,
              net |-> Lan, srsub |-> p.hook = "fwd", dssub |-> FALSE]

\* The verdict of the hook function; it is kept, with the packet, for the two
\* fates that the properties are about.
Ends(p, fate) ==
    last' = IF fate \in {"accept", "oops"}
            THEN [src |-> p.src, syn |-> p.kind = "syn", hook |-> p.hook,
                  fate |-> fate, net |-> Lookup(p).net]
            ELSE NoPacket

\* Pointers p3_lookup and packet_handler follow without a test.
Faults(p) ==
    LET l == Lookup(p)
    IN  /\ hosts # <<>>
        /\ \/ mod = "exit" /\ (p.src \in Hosts => (p.fwd \/ hnet[p.src] \in act))
           \/ l.op = "src" /\ l.net = NoNet
           \/ l.op = "dst" /\ l.net # Lan /\ l.net \notin nhost
           \/ l.op = "dst" /\ l.net = Lan /\ (p.kind \in {"syn", "tcp"} \/ (p.kind = "udp" /\ Lan \in act))

(* A NULL or freed structure is used: the kernel stops.                     *)
Oops(p) == /\ Handles /\ Faults(p) /\ Ends(p, "oops")
           /\ UNCHANGED <<role, res, mod, tables, devices, cfg, raw>>

(* packet_handler leaves the packet as it is: not for P3, source is the     *)
(* local subnet (it is intercepted again), session set-up, not active.      *)
Accept(p) ==
    LET l == Lookup(p)
    IN  /\ Handles /\ ~Faults(p)
        /\ \/ l.op = None \/ l.srsub
           \/ l.op = "src" /\ (l.net \notin act \/ p.kind = "plain")
           \/ l.op = "dst" /\ p.kind = "syn"
           \/ l.op = "dst" /\ p.kind # "raw" /\ l.net \notin act
        /\ Ends(p, "accept")
        /\ UNCHANGED <<role, res, mod, tables, devices, cfg, raw>>

(* packet_handler, source is a P3 host: the packet is decrypted.  Control   *)
(* messages end here; data goes to this host, or with the okfn of the local *)
(* subnet's raw packet to the local subnet.                                 *)
FromHost(p) ==
    LET l == Lookup(p)
    IN  /\ Handles /\ ~Faults(p)
        /\ l.op = "src" /\ ~l.srsub /\ l.net \in act /\ p.kind \in {"p3data", "p3ctl"}
        /\ \/ Ends(p, "drop")
           \/ p.kind = "p3ctl" /\ Ends(p, "control")
           \/ p.kind = "p3data" /\ ~p.fwd /\ Ends(p, "decrypted")
           \/ p.kind = "p3data" /\ p.fwd /\ Ends(p, IF Lan \in okfn THEN "decrypted" ELSE "oops")
        /\ UNCHANGED <<role, res, mod, tables, devices, cfg, raw>>

\* All networks of the host become active with one of them.
set_net_active(n) == act \cup {<<n[1], i>> : i \in DOMAIN NetsOf[n[1]]}

(* packet_handler, raw packet of the system application: the networks of    *)
(* the host (set_net_active), or the local subnet, become active ...  The   *)
(* application sends one at a time.                                         *)
RawPacket(p) ==
    LET l == Lookup(p)
    IN  /\ Handles /\ ~Faults(p) /\ raw = NoNet
        /\ l.op = "dst" /\ ~l.srsub /\ p.kind = "raw"
        /\ act' = IF l.net = Lan THEN act \cup {Lan} ELSE set_net_active(l.net)
        /\ raw' = l.net
        /\ Ends(p, "stolen")
        /\ UNCHANGED <<role, res, mod, tables, okfn, cfg>>

(* ... and p3pkt_intercept then stores the hook's okfn.                     *)
RawOkfn == /\ raw # NoNet
           /\ okfn' = okfn \cup {raw} /\ raw' = NoNet
           /\ UNCHANGED <<role, res, mod, tables, act, cfg, last>>

\* packet_handler, destination is an active P3 network: to be encrypted.
Encrypts(p) ==
    LET l == Lookup(p)
    IN  /\ Handles /\ ~Faults(p)
        /\ l.op = "dst" /\ ~l.srsub /\ p.kind \in {"tcp", "udp"} /\ l.net \in act

(* p3pkt_intercept of a packet the gateway sends itself: encrypted, or      *)
(* dropped (rekeying, too large, no memory).  A packet for a remote subnet  *)
(* is handed to the okfn kept for that network.                             *)
SendLocal(p) ==
    /\ Encrypts(p) /\ p.hook # "fwd"
    /\ \/ Ends(p, "drop")
       \/ Ends(p, IF ~Lookup(p).dssub \/ Lookup(p).net \in okfn THEN "encrypted" ELSE "oops")
    /\ UNCHANGED <<role, res, mod, tables, devices, cfg, raw>>

(* p3pkt_intercept_forward of a packet from the local subnet: encrypted and *)
(* handed to the okfn of the hook, or dropped.                              *)
SendForward(p) ==
    /\ Encrypts(p) /\ p.hook = "fwd"
    /\ Ends(p, "drop") \/ Ends(p, "encrypted")
    /\ UNCHANGED <<role, res, mod, tables, devices, cfg, raw>>

Stopped == mod \in {"out", "failed"} \/ last.fate = "oops"
Done == Stopped /\ UNCHANGED vars

Config == ConfigPrimary \/ ConfigSecondary \/ (\E h \in Hosts : ConfigSecHost(h) \/ ConfigPriHost(h))
             \/ ConfigRoute \/ ConfigNetHost \/ ConfigEnd
Packet == \E p \in Packets : Oops(p) \/ Accept(p) \/ FromHost(p) \/ RawPacket(p)
                             \/ SendLocal(p) \/ SendForward(p)

Next == \/ /\ ~Stopped
           /\ LoadStep \/ ExitFree \/ ExitUnhook \/ Config \/ Packet \/ RawOkfn
        \/ Done

Spec == Init /\ [][Next]_vars

-----------------------------------------------------------------------------
(* Properties.                                                              *)

(* Once the networks of a host are active, no packet for them leaves the    *)
(* gateway in clear: neither one the gateway sends from its own address nor *)
(* one it forwards, except the TCP SYN that sets up the P3 session.         *)
NoPlaintext ==
    (last.fate = "accept" /\ ~last.syn /\ mod = "up"
       /\ (last.src = "me" \/ last.hook = "fwd") /\ last.net \in HostNets)
      => last.net \notin act

(* Packets from the P3 network and packets forwarded to it make the kernel  *)
(* follow a pointer nobody set (a network without host or okfn) in two      *)
(* windows only: while parse_p3data is adding the very host, and between    *)
(* the two steps of the raw packet for the very network; P3EXIT apart,      *)
(* which frees the tables before it removes the hooks.                      *)
NetworkSafe ==
    (last.fate = "oops" /\ mod = "up" /\ last.hook # "out") =>
        \/ cfg.host \in {last.src, last.net[1]}
        \/ raw[1] = last.net[1]

(* After a failed start nothing of the module can be called any more: no    *)
(* hook, device, class or character device region is left registered.       *)
FailedClean == mod \in {"failed", "out"} =>
                  res \cap {"hooks", "device", "class", "cdevadd", "region", "ramdisk"} = {}

(* A destination of a configured host is in the route table, unless the     *)
(* table was full: a network that is refused travels in clear.              *)
Routed ==
    (cfg.host = None /\ Len(routes) < MaxRoute) =>
        \A i \in DOMAIN hosts : \A k \in DOMAIN NetsOf[hosts[i]] :
            \E j \in DOMAIN routes : Net(routes[j]) = NetsOf[hosts[i]][k]
=============================================================================
