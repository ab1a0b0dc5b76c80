------------------------------ MODULE P3Config ------------------------------
(***************************************************************************)
(* The start of the P3 system application (p3system.c: init_system,        *)
(* parse_config, update_sechost, update_prihost; p3utils.c; p3net.c), for  *)
(* the primary, the secondary and the older secondary of the Android port. *)
(* The configuration file is read line by line; each remote host is        *)
(* collected in one structure and sent to the kernel module by ioctl when  *)
(* a line of another host, or the end of the file, is reached.  Then one   *)
(* raw packet is sent to every remote host and local subnet, and the       *)
(* application listens for, or connects to, its peer.                      *)
(*                                                                         *)
(* A line is a record: its kind, the host id before the slash, the key,    *)
(* the number that ends a subnet or mask key, and the value, 0 standing    *)
(* for one that isallnum, inet_pton or the range test refuses.  One key,   *)
(* "time", stands for the five intervals, which are all treated alike.     *)
(***************************************************************************)
EXTENDS Integers, Sequences, FiniteSets

CONSTANTS
    Lines,      \* the lines a configuration file may hold
    MaxLines,   \* bound on the length of a file
    MaxHosts,   \* entries of remhosts: 32 for the primary, 2 for the secondary
    MaxNets     \* entries of p3main->subnets: 8

ASSUME SizesOK == MaxLines \in Nat /\ MaxHosts \in Nat \ {0} /\ MaxNets \in Nat \ {0}
\* Only the keys of subnets and their masks end in a number.
ASSUME LinesOK ==
    /\ Lines \subseteq [kind : {"localstart", "localend", "novalue", "remote", "local"},
                        id : Int, key : STRING, n : Int, v : Nat]
    /\ \A l \in Lines : l.kind = "remote" /\ l.key \notin {"subnet", "mask"} => l.n = 0

VARIABLES
    role,   \* which application was built
    phase,  \* the step of init_system that is next
    file,   \* the lines read so far
    ps      \* what parse_config has made of them

vars == <<role, phase, file, ps>>

Default == 9                \* p3PCFG_RKWT and the other built-in intervals
NoHost == [fam |-> {}, addr |-> -1]
NewHost == [fam |-> {}, addr |-> 0]   \* a p3host from p3calloc

\* shcfg and phcfg after memset, with the intervals of pricfg.
EmptyHost(t) == [id |-> 0, fam |-> {}, addr |-> 0, time |-> t, port |-> 0, subs |-> <<>>]

\* parse_config's variables: stat, a jump to out, an access the C language
\* leaves undefined, localdef, pricfg or seccfg, shcfg or phcfg, the id of
\* *sncfg (0: NULL), the arrays remhosts and subnets, the list seclist, and
\* the ioctl buffers the kernel module got.
ParserInit ==
    [stat |-> 0, out |-> FALSE, fault |-> FALSE, localdef |-> FALSE,
     loc |-> [fam |-> {}, addr |-> 0, time |-> Default, port |-> 1,
              cluster |-> FALSE, lan |-> 0],
     cur |-> EmptyHost(Default), sn |-> 0,
     rem |-> [i \in 0..MaxHosts-1 |-> NoHost],
     sub |-> [i \in 0..MaxNets-1 |-> NoHost],
     nets |-> <<>>, peer |-> 0, first |-> 0, sent |-> <<>>, raw |-> {}]

Init == /\ role \in {"primary", "secondary", "android"}
        /\ phase = "setup" /\ file = <<>> /\ ps = ParserInit

Err(p) == [p EXCEPT !.stat = -1]
Out(p) == [p EXCEPT !.stat = -1, !.out = TRUE]
Fault(p) == [p EXCEPT !.fault = TRUE]

-----------------------------------------------------------------------------
(* init_system up to parse_config: the main structure and the random       *)
(* number generator, the command line, directory names, utilities and the  *)
(* kernel module's device.  Every step can fail.                           *)

Moves(a, b) == phase = a /\ phase' = b /\ UNCHANGED <<role, file, ps>>
Fails(a) == phase = a /\ phase' = "exited" /\ ps' = Err(ps) /\ UNCHANGED <<role, file>>

\* The main structure and, for the primary, the random number generator.
InitMain == role # "android" /\ (Moves("setup", "cmdline") \/ Fails("setup"))

\* Android's application has no command line: the directories are fixed.
AndInitMain == role = "android" /\ (Moves("setup", "utils") \/ Fails("setup"))

\* -v or a wrong option ends the application with status 1, which main
\* turns into 0.
ParseCmdline == Moves("cmdline", "names") \/ Fails("cmdline") \/ Moves("cmdline", "exited")

\* The directories the command line has not named.
DirNames == Moves("names", "utils") \/ Fails("names")

\* The message file is opened.
InitUtils == role # "android" /\ (Moves("utils", "kernel") \/ Fails("utils"))

\* Android only tests that the messages' directory is there.
AndInitUtils == role = "android" /\ (Moves("utils", "kernel") \/ Fails("utils"))

\* The kernel module's device is opened and, for the primary, mapped.
InitKernelComm == role # "android" /\ (Moves("kernel", "name") \/ Fails("kernel"))
AndInitKernelComm == role = "android" /\ (Moves("kernel", "name") \/ Fails("kernel"))

\* The name of the configuration file.
ConfigName == Moves("name", "open") \/ Fails("name")

OpenConfig == Moves("open", "parse")

\* The file does not exist: init_config creates it, for writing, so that the
\* first read fails, the loop ends and nothing is configured.
InitConfig == role # "android" /\ (Moves("open", "raw") \/ Fails("open"))
AndInitConfig == role = "android" /\ (Moves("open", "raw") \/ Fails("open"))

-----------------------------------------------------------------------------
(* The lines between localstart and localend.                              *)

LocalIp(p, l) == IF l.v \in {4, 6} THEN [p EXCEPT !.loc.fam = @ \cup {l.v}] ELSE Err(p)

\* The IP version must come first; a refused address leaves the old one.
LocalAddress(p, l) ==
    IF p.loc.fam = {} \/ l.v = 0 THEN Err(p) ELSE [p EXCEPT !.loc.addr = l.v]

LocalPort(p, l) == IF l.v = 0 THEN Err(p) ELSE [p EXCEPT !.loc.port = l.v]

LocalCluster(p, l) ==
    IF l.v = 0 THEN Err(p) ELSE [p EXCEPT !.loc.cluster = @ \/ l.v = 2]

\* Load balancing needs the clustering structure.
LocalLoad(p, l) == IF l.v = 0 \/ (l.v = 2 /\ ~p.loc.cluster) THEN Err(p) ELSE p

LocalTime(p, l) == IF l.v = 0 THEN Err(p) ELSE [p EXCEPT !.loc.time = l.v]

\* subnets[num], for which num = MaxNets passes the test and is one too far.
LocalSubnet(p, l) ==
    CASE l.n <= 0 \/ l.n > MaxNets -> Out(p)
      [] l.n = MaxNets -> Fault(p)
      [] OTHER ->
         LET a == IF p.sub[l.n] = NoHost THEN NewHost ELSE p.sub[l.n]
             q == [p EXCEPT !.sub[l.n] = a]
         IN  CASE p.loc.fam = {} -> Err(q)
               [] 4 \in p.loc.fam ->
                  [q EXCEPT !.sub[l.n].fam = @ \cup {4},
                            !.sub[l.n].addr = IF l.v = 0 THEN @ ELSE l.v,
                            !.loc.lan = IF l.v = 0 THEN a.addr ELSE l.v,
                            !.stat = IF l.v = 0 THEN -1 ELSE @]
               [] OTHER ->
                  [q EXCEPT !.sub[l.n].fam = @ \cup {6},
                            !.sub[l.n].addr = IF l.v = 0 THEN @ ELSE l.v,
                            !.stat = IF l.v = 0 THEN -1 ELSE @]

PriLocalLine(p, l) ==
    CASE l.key = "ip" -> LocalIp(p, l)
      [] l.key = "address" -> LocalAddress(p, l)
      [] l.key = "port" -> LocalPort(p, l)
      [] l.key = "cluster_state" -> LocalCluster(p, l)
      [] l.key = "load_balance" -> LocalLoad(p, l)
      [] l.key = "time" -> LocalTime(p, l)
      [] l.key = "subnet" -> LocalSubnet(p, l)
      [] OTHER -> Err(p)

\* The secondary has no port to listen on and no intervals.
SecLocalLine(p, l) ==
    IF l.key \in {"port", "time"} THEN Err(p) ELSE PriLocalLine(p, l)

-----------------------------------------------------------------------------
(* Remote hosts.                                                           *)

\* update_sechost: header and subnets go in one buffer.
UpdateSecHost(p) == [p EXCEPT !.sent = Append(@, [host |-> p.cur, loc |-> p.loc])]

\* update_prihost: the same for a primary.
UpdatePriHost(p) == UpdateSecHost(p)
AndUpdatePriHost(p) == UpdateSecHost(p)

\* Mutant: sncfg still points into the host that was sent.
PriSwitchKeepsSubnet(p, l) ==
    IF l.id <= 0 THEN Err(p)
    ELSE IF l.id = p.cur.id THEN p
    ELSE IF l.id > MaxHosts THEN Out(p)
    ELSE IF l.id = MaxHosts THEN Fault(p)
    ELSE
         LET q == [p EXCEPT !.rem[l.id] = IF @ = NoHost THEN NewHost ELSE @,
                            !.nets = <<0>> \o @]
             s == IF p.cur.id = 0 THEN q
                  ELSE [UpdateSecHost(q) EXCEPT !.cur = EmptyHost(p.loc.time)]
         IN  [s EXCEPT !.cur.id = l.id, !.cur.fam = {}]

\* The first line of another remote id.  num = MaxHosts passes the test and
\* is one too far.  The host collected so far is sent and shcfg starts again
\* from the local intervals; sncfg is only reset when there was a host.
PriSwitch(p, l) ==
    IF l.id <= 0 THEN Err(p)
    ELSE IF l.id = p.cur.id THEN p
    ELSE IF l.id > MaxHosts THEN Out(p)
    ELSE IF l.id = MaxHosts THEN Fault(p)
    ELSE
         LET q == [p EXCEPT !.rem[l.id] = IF @ = NoHost THEN NewHost ELSE @,
                            !.nets = <<0>> \o @]
             s == IF p.cur.id = 0 THEN q
                  ELSE [UpdateSecHost(q) EXCEPT !.cur = EmptyHost(p.loc.time), !.sn = 0]
         IN  [s EXCEPT !.cur.id = l.id, !.cur.fam = {}]

\* The secondary keeps no list of networks; its default port comes back.
SecSwitch(p, l) ==
    IF l.id <= 0 THEN Err(p)
    ELSE IF l.id = p.cur.id THEN p
    ELSE IF l.id > MaxHosts THEN Out(p)
    ELSE IF l.id = MaxHosts THEN Fault(p)
    ELSE
         LET q == [p EXCEPT !.rem[l.id] = IF @ = NoHost THEN NewHost ELSE @]
             s == IF p.cur.id = 0 THEN q
                  ELSE [UpdatePriHost(q) EXCEPT !.cur = EmptyHost(Default), !.sn = 0,
                                                !.loc.port = 1]
         IN  [s EXCEPT !.cur.id = l.id, !.cur.fam = {}]

\* remhosts[num] is NULL for num = 0, and outside the array for less.
RemoteIp(p, l) ==
    IF l.v \notin {4, 6} THEN Err(p)
    ELSE IF l.id <= 0 THEN Fault(p)
    ELSE [p EXCEPT !.cur.fam = @ \cup {l.v}, !.rem[l.id].fam = @ \cup {l.v}]

SetAddress(p, l) ==
    LET a == IF l.v = 0 THEN p.cur.addr ELSE l.v
    IN  IF p.cur.fam = {} THEN Err(p)
        ELSE IF l.id <= 0 THEN Fault(p)
        ELSE [p EXCEPT !.cur.addr = a, !.rem[l.id].addr = a,
                       !.stat = IF l.v = 0 THEN -1 ELSE @]

\* First the address is copied to snet, which is NULL before the first host.
PriAddress(p, l) ==
    IF p.nets = <<>> THEN Fault(p) ELSE SetAddress([p EXCEPT !.nets[1] = l.v], l)

\* First the address is copied to p3main->net, the host to connect to.
SecAddress(p, l) == SetAddress([p EXCEPT !.peer = l.v], l)

\* Mutant: a subnet found by the search does not become sncfg.
FindSubnetNotSet(p, l) ==
    IF l.n = p.sn \/ \E i \in DOMAIN p.cur.subs : p.cur.subs[i].id = l.n THEN p
    ELSE [p EXCEPT !.cur.subs = <<[id |-> l.n, net |-> 0, mask |-> 0]>> \o @]

\* sncfg is kept when it has the id; else the list is searched and, in the
\* end, a new subnet is put at its head.
FindSubnet(p, l) ==
    IF l.n = p.sn THEN p
    ELSE IF \E i \in DOMAIN p.cur.subs : p.cur.subs[i].id = l.n
         THEN [p EXCEPT !.sn = l.n]
         ELSE [p EXCEPT !.sn = l.n,
                        !.cur.subs = <<[id |-> l.n, net |-> 0, mask |-> 0]>> \o @]

\* The field f of *sncfg gets the value.
SetSubnet(p, f, v) ==
    [p EXCEPT !.cur.subs = [i \in DOMAIN @ |->
        IF @[i].id = p.sn THEN [@[i] EXCEPT ![f] = v] ELSE @[i]]]

\* An id that is not positive only marks the error, and the value goes to
\* whatever sncfg was left at, or to address zero.
RemoteSubnet(p, l) ==
    LET q == IF l.n <= 0 THEN Err(p) ELSE FindSubnet(p, l)
    IN  IF p.cur.fam = {} THEN Err(q)
        ELSE IF q.sn = 0 THEN Fault(q)
        ELSE IF l.v = 0 THEN Err(q)
        ELSE SetSubnet(q, "net", l.v)

\* An IPv6 mask is only reported.
RemoteMask(p, l) ==
    LET q == IF l.n <= 0 THEN Err(p) ELSE FindSubnet(p, l)
    IN  IF p.cur.fam = {} THEN Err(q)
        ELSE IF 4 \notin p.cur.fam THEN q
        ELSE IF q.sn = 0 THEN Fault(q)
        ELSE IF l.v = 0 THEN Err(q)
        ELSE SetSubnet(q, "mask", l.v)

RemoteTime(p, l) ==
    [p EXCEPT !.cur.time = l.v, !.stat = IF l.v = 0 THEN -1 ELSE @]

SecPort(p, l) == IF l.v = 0 THEN Err(p) ELSE [p EXCEPT !.cur.port = l.v, !.loc.port = l.v]

\* An unknown key of a remote host is ignored.
PriRemoteLine(p, l) ==
    LET q == PriSwitch(p, l)
    IN  IF q.out \/ q.fault THEN q
        ELSE CASE l.key = "ip" -> RemoteIp(q, l)
               [] l.key = "address" -> PriAddress(q, l)
               [] l.key = "subnet" -> RemoteSubnet(q, l)
               [] l.key = "mask" -> RemoteMask(q, l)
               [] l.key = "time" -> RemoteTime(q, l)
               [] OTHER -> q

SecRemoteLine(p, l) ==
    LET q == SecSwitch(p, l)
    IN  IF q.out \/ q.fault THEN q
        ELSE CASE l.key = "ip" -> RemoteIp(q, l)
               [] l.key = "address" -> SecAddress(q, l)
               [] l.key = "port" -> SecPort(q, l)
               [] l.key = "subnet" -> RemoteSubnet(q, l)
               [] l.key = "mask" -> RemoteMask(q, l)
               [] OTHER -> q

-----------------------------------------------------------------------------
(* The Android port: a secondary without the arrays of hosts and subnets.  *)

AndLocalLine(p, l) ==
    IF l.key \in {"port", "time", "subnet"} THEN Err(p) ELSE PriLocalLine(p, l)

AndSwitch(p, l) ==
    IF l.id <= 0 THEN Err(p)
    ELSE IF l.id = p.cur.id THEN p
    ELSE IF p.cur.id = 0 THEN [p EXCEPT !.cur.id = l.id, !.cur.fam = {}]
    ELSE [AndUpdatePriHost(p) EXCEPT !.cur = [EmptyHost(Default) EXCEPT !.id = l.id], !.sn = 0]

\* Only the first address becomes p3utils->remhost.
AndAddress(p, l) ==
    IF p.cur.fam = {} THEN Err(p)
    ELSE [p EXCEPT !.cur.addr = IF l.v = 0 THEN @ ELSE l.v,
                   !.first = IF @ = 0 THEN p.cur.id ELSE @,
                   !.stat = IF l.v = 0 THEN -1 ELSE @]

AndRemoteLine(p, l) ==
    LET q == AndSwitch(p, l)
    IN  CASE l.key = "ip" ->
               IF l.v \in {4, 6} THEN [q EXCEPT !.cur.fam = @ \cup {l.v}] ELSE Err(q)
          [] l.key = "address" -> AndAddress(q, l)
          [] l.key = "port" -> IF l.v = 0 THEN Err(q) ELSE [q EXCEPT !.cur.port = l.v]
          [] l.key = "subnet" -> RemoteSubnet(q, l)
          [] l.key = "mask" -> RemoteMask(q, l)
          [] OTHER -> q

-----------------------------------------------------------------------------
\* One round of parse_config's loop, which every application has of its own.
ParseLine(p, l, LocalLine(_, _), RemoteLine(_, _)) ==
    CASE l.kind = "localstart" -> [p EXCEPT !.localdef = TRUE]
      [] l.kind = "localend" ->
            [p EXCEPT !.localdef = FALSE,
                      !.sent = Append(@, [host |-> EmptyHost(0), loc |-> p.loc])]
      [] l.kind = "novalue" -> Err(p)
      [] l.kind = "remote" -> IF p.localdef THEN Err(p) ELSE RemoteLine(p, l)
      [] l.kind = "local" -> LocalLine(p, l)

PriParse(p, l) == ParseLine(p, l, PriLocalLine, PriRemoteLine)
SecParse(p, l) == ParseLine(p, l, SecLocalLine, SecRemoteLine)
AndParse(p, l) == ParseLine(p, l, AndLocalLine, AndRemoteLine)

\* Lines that need memory or an ioctl, which can fail.
CanFail(p, l) ==
    \/ l.kind = "localend"
    \/ l.kind = "local" /\ l.key \in {"cluster_state", "subnet"}
    \/ l.kind = "remote" /\ ~p.localdef /\ (l.id # p.cur.id \/ l.key \in {"subnet", "mask"})

-----------------------------------------------------------------------------
NextPhase(p) == IF p.fault THEN "crashed" ELSE IF p.out THEN "exited" ELSE "parse"

ReadLine == \E l \in Lines :
    /\ phase = "parse" /\ Len(file) < MaxLines
    /\ file' = Append(file, l)
    /\ \/ role = "primary" /\ ps' = PriParse(ps, l)
       \/ role = "secondary" /\ ps' = SecParse(ps, l)
       \/ role = "android" /\ ps' = AndParse(ps, l)
       \/ CanFail(ps, l) /\ ps' = Out(ps)
    /\ phase' = NextPhase(ps')
    /\ UNCHANGED role

\* The last host is sent, when there is one.
PriLast(p) == IF p.cur.id = 0 THEN p ELSE [UpdateSecHost(p) EXCEPT !.cur = EmptyHost(0)]
SecLast(p) == IF p.cur.id = 0 THEN p ELSE [UpdatePriHost(p) EXCEPT !.cur = EmptyHost(0)]
AndLast(p) == IF p.cur.id = 0 THEN p ELSE [AndUpdatePriHost(p) EXCEPT !.cur = EmptyHost(0)]

\* parse_config returns the status.
EndOfFile ==
    /\ phase = "parse"
    /\ \/ /\ \/ role = "primary" /\ ps' = PriLast(ps)
             \/ role = "secondary" /\ ps' = SecLast(ps)
             \/ role = "android" /\ ps' = AndLast(ps)
          /\ phase' = IF ps.stat < 0 THEN "exited" ELSE "raw"
       \/ /\ ps.cur.id # 0
          /\ ps' = Out(ps) /\ phase' = "exited"
    /\ UNCHANGED <<role, file>>

\* init_raw_socket: only IPv4 is implemented; socket, setsockopt and sendto
\* can fail.
RawSocketOK(hs) == \A h \in hs : 4 \in h.fam
Entries(array) == {array[i] : i \in DOMAIN array} \ {NoHost}

\* Mutant: the loop over remhosts ends one entry early.
RawHostsShort == role # "android" /\
    \/ /\ phase = "raw" /\ RawSocketOK(Entries(ps.rem))
       /\ phase' = "rawlan"
       /\ ps' = [ps EXCEPT !.raw = {i \in DOMAIN ps.rem : i + 1 < MaxHosts /\ ps.rem[i] # NoHost}]
       /\ UNCHANGED <<role, file>>
    \/ Entries(ps.rem) # {} /\ Fails("raw")

\* A raw packet to every entry of remhosts.
RawHosts == role # "android" /\
    \/ /\ phase = "raw" /\ RawSocketOK(Entries(ps.rem))
       /\ phase' = "rawlan"
       /\ ps' = [ps EXCEPT !.raw = {i \in DOMAIN ps.rem : ps.rem[i] # NoHost}]
       /\ UNCHANGED <<role, file>>
    \/ Entries(ps.rem) # {} /\ Fails("raw")

\* Android's init_raw_socket: one packet, to the first host with an address;
\* the network initialisation before it is empty.
AndRaw ==
    /\ role = "android"
    /\ \/ /\ phase = "raw" /\ phase' = "admin"
          /\ ps' = [ps EXCEPT !.raw = {ps.first} \ {0}] /\ UNCHANGED <<role, file>>
       \/ Fails("raw")

\* The same for the local subnets.
RawSubnets ==
    \/ RawSocketOK(Entries(ps.sub)) /\ Moves("rawlan", "net")
    \/ Entries(ps.sub) # {} /\ Fails("rawlan")

\* p3listen: a socket that is bound and listens, or the application ends.
Listen == role = "primary" /\ (Moves("net", "admin") \/ Fails("net"))

\* p3session(p3START) succeeds; the session is stopped at once.
Connect == role = "secondary" /\ Moves("net", "admin")

\* It fails, and the secondary sleeps, stops the session and tries again.
ConnectFails == role = "secondary" /\ Moves("net", "sleep")
StopSession == Moves("sleep", "net")

\* init_admin opens the administrators' FIFOs.
OpenAdmin == role # "android" /\ (Moves("admin", "running") \/ Fails("admin"))
AndOpenAdmin == role = "android" /\ (Moves("admin", "running") \/ Fails("admin"))

Next == \/ InitMain \/ ParseCmdline \/ DirNames \/ InitUtils \/ InitKernelComm
        \/ ConfigName \/ OpenConfig \/ InitConfig \/ ReadLine \/ EndOfFile
        \/ RawHosts \/ RawSubnets \/ Listen \/ Connect \/ ConnectFails \/ StopSession
        \/ OpenAdmin
        \/ AndInitMain \/ AndInitUtils \/ AndInitKernelComm \/ AndInitConfig \/ AndRaw
        \/ AndOpenAdmin

Spec == Init /\ [][Next]_vars

-----------------------------------------------------------------------------
(* Properties.                                                             *)

\* The remote lines of a file, and the messages about remote hosts.
Remotes(f) == {i \in DOMAIN f : f[i].kind = "remote"}
Hosts(m) == {i \in DOMAIN m : m[i].host.id # 0}
Rank(S, i) == Cardinality({j \in S : j <= i})

\* A reference reading of the file: a host's block is a longest run of remote
\* lines with its id.  Starts holds the first line of every block.
Starts(f) == {i \in Remotes(f) : \A j \in Remotes(f) :
                f[j].id = f[i].id => j >= i \/ \E k \in Remotes(f) : j < k /\ k < i}
BlockOf(f, s) == {j \in Remotes(f) : s <= j /\ ~\E i \in Starts(f) : s < i /\ i <= j}
LastIn(f, B, key, n) ==
    LET C == {i \in B : f[i].key = key /\ f[i].n = n}
    IN  IF C = {} THEN 0 ELSE f[CHOOSE i \in C : \A j \in C : j <= i].v
SubIds(f, B) == {f[i].n : i \in {j \in B : f[j].key \in {"subnet", "mask"}}}
SubsIn(f, B) == {[id |-> n, net |-> LastIn(f, B, "subnet", n),
                  mask |-> LastIn(f, B, "mask", n)] : n \in SubIds(f, B)}
SubsOf(h) == {h.subs[i] : i \in DOMAIN h.subs}

\* The host has the address and the subnets, with their masks, of the lines B
\* (an IPv6 mask is not kept).
Reads(h, f, B) ==
    /\ \A i \in B : f[i].id = h.id
    /\ h.addr = LastIn(f, B, "address", 0)
    /\ Len(h.subs) = Cardinality(SubsOf(h))
    /\ h.fam = {4} => SubsOf(h) = SubsIn(f, B)

\* While no line was refused, the hosts sent to the kernel module and the one
\* being collected are the blocks of the file, one after the other, each with
\* the address and exactly the subnets, with their masks, of its own lines:
\* the list, its cached element sncfg and the structure that is used again
\* for every host leak nothing from one host into the next.
AsWritten ==
    (ps.stat = 0 /\ phase \notin {"crashed", "exited"}) =>
        LET done == Cardinality(Hosts(ps.sent))
        IN  /\ Cardinality(Starts(file)) = done + (IF ps.cur.id = 0 THEN 0 ELSE 1)
            /\ \A s \in Starts(file) :
                 /\ \A k \in Hosts(ps.sent) :
                      Rank(Hosts(ps.sent), k) = Rank(Starts(file), s) =>
                        Reads(ps.sent[k].host, file, BlockOf(file, s))
                 /\ Rank(Starts(file), s) > done => Reads(ps.cur, file, BlockOf(file, s))

\* Once init_system is past the raw sockets, the hosts that have had a raw
\* packet, whose okfn the kernel module needs to send anything of its own, are
\* exactly the ones the kernel module was told of; on Android, the first of
\* them that was given an address, and no other.
Given(m) == {k \in Hosts(m) : m[k].host.addr # 0}
RawReady ==
    phase \in {"rawlan", "net", "sleep", "admin", "running"} =>
        ps.raw = LET told == IF role # "android" THEN Hosts(ps.sent)
                             ELSE {k \in Given(ps.sent) : \A j \in Given(ps.sent) : k <= j}
                 IN  {ps.sent[k].host.id : k \in told}

\* Undefined behaviour is only reached through an id at or outside the ends
\* of an array: a host id or a subnet id of zero, or one equal to its size.
FaultExplained ==
    phase = "crashed" =>
        LET l == file[Len(file)]
        IN  \/ l.kind = "remote" /\ (l.id <= 0 \/ l.id = MaxHosts)
            \/ l.kind = "remote" /\ l.key \in {"subnet", "mask"} /\ l.n <= 0
            \/ l.kind = "local" /\ l.n = MaxNets
=============================================================================
