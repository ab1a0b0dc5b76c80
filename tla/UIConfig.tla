------------------------------ MODULE UIConfig ------------------------------
(***************************************************************************)
(* The configuration kept by the administration library of the user       *)
(* interface (src/P3/ui_src/p3config.c): the definition file read at start *)
(* (get_config, parse_def), the definitions a user interface changes       *)
(* (handle_def and its three handlers), the file written by an update      *)
(* (save_config) and the list of definitions handed to the user interface  *)
(* or sent to the daemon (get_list, p3admin.c).                             *)
(*                                                                         *)
(* A definition is a path of up to four levels with up to two numbers, and *)
(* a value.  Values are numbers: names, addresses and choices are small    *)
(* ones, periods and sizes keep the ranges the code checks.  The text of a *)
(* line is not modelled.  Both builds are covered: role is chosen in Init. *)
(***************************************************************************)
EXTENDS Integers, Sequences, FiniteSets, SequencesExt

CONSTANTS
    Lines,      \* Lines[role]: the definitions files and commands are made of
    Base,       \* Base[role]: a complete file
    MaxDefs     \* bound on the lines of another file plus the later commands

VARIABLES
    role,       \* which build: "primary" or "secondary"
    phase,      \* "load": get_config is reading; "ready": serving; "down"
    file,       \* the definition file
    line,       \* the next line of it to read
    cfg,        \* the p3config structure
    saved,      \* <file>.new, written by save_config: [ok, lines]
    commlist,   \* definitions waiting for GETNEXT or for the update loop
    listed,     \* the count get_list reported last, and the list it made
    defs,       \* definitions used of the budget MaxDefs
    before      \* the configuration as it was when the last save was made

vars == <<role, phase, file, line, cfg, saved, commlist, listed, defs, before>>

None == -1              \* an undefined string, number or pointer
NullText == -2          \* the text "(null)" printf writes for a NULL string
AES128 == 1
YES == 1
NO == 2
HARDWARE == 1
SOFTWARE == 2
Categories == 1..4      \* ORG, LOC, SEC, NET

(* A definition: levels, numbers, value; c is the category of "CAT,name".  *)
Def(l1, i1, l2, i2, l3, l4, v, c) ==
    [l1 |-> l1, id1 |-> i1, l2 |-> l2, id2 |-> i2, l3 |-> l3, l4 |-> l4,
     v |-> v, c |-> c]

-----------------------------------------------------------------------------
(* Structures.                                                              *)

Keys0 == [alg |-> 0, rekey |-> 0, runit |-> "", nuse |-> FALSE, size |-> 0,
          dat |-> 0, dunit |-> "", ctl |-> 0, cunit |-> "",
          beat |-> 0, fail |-> 0]

(* The built-in keying parameters of the local host of a primary.          *)
LocalKeys == [Keys0 EXCEPT !.alg = AES128, !.rekey = 3600, !.runit = "time",
                           !.nuse = TRUE, !.size = 256,
                           !.dat = 86400, !.dunit = "time",
                           !.ctl = 82800, !.cunit = "time",
                           !.beat = 60, !.fail = 30]

NewLocal(r) == [name |-> None, addr |-> None, ip |-> 0, hw |-> FALSE,
                s2u |-> None, u2s |-> None, subs |-> <<>>, upd |-> FALSE,
                port |-> IF r = "primary" THEN 12358 ELSE 0,
                k |-> IF r = "primary" THEN LocalKeys ELSE Keys0]

NewGroup(id) == [ID |-> id, name |-> None, level |-> 0, upd |-> FALSE,
                 k |-> Keys0]

NewRemote(id, r) == [ID |-> IF r = "primary" THEN id ELSE 0, name |-> None,
                     addr |-> None, ip |-> 0, subs |-> <<>>,
                     groups |-> [s \in Categories |-> None],
                     port |-> IF r = "secondary" THEN 12358 ELSE 0,
                     upd |-> FALSE, k |-> Keys0]

NewSubnet(id) == [ID |-> id, ip |-> 0, addr |-> None]

InitConfig(r) == [local |-> NewLocal(r), groups |-> 0, group |-> <<>>,
                  remotes |-> 0, remote |-> <<>>,
                  glist |-> None, gmap |-> <<>>, fault |-> ""]

Having(s, id) == {i \in DOMAIN s : s[i].ID = id}
Find(s, id) == CHOOSE i \in Having(s, id) : \A j \in Having(s, id) : i <= j

-----------------------------------------------------------------------------
(* The keying parameters, common to local, group and remote definitions.   *)

NOT_TIME(v) == ~(600 < v /\ v < 2592000)
NOT_PACKETS(v) == ~(1024 < v)
NOT_PORT(v) == ~(1024 < v /\ v < 65536)

Period(unit, v) == \/ unit = "time" /\ ~NOT_TIME(v)
                   \/ unit = "packets" /\ ~NOT_PACKETS(v)

ArrayOK(d) == \/ d.l3 = "use"
              \/ d.l3 = "size" /\ d.v \in 64..1024
              \/ d.l3 \in {"data", "control"} /\ Period(d.l4, d.v)

SetArray(k, d) ==
    CASE d.l3 = "use" -> IF d.v \in {YES, NO} THEN [k EXCEPT !.nuse = (d.v = NO)]
                                              ELSE k
      [] d.l3 = "size" -> [k EXCEPT !.size = d.v]
      [] d.l3 = "data" -> [k EXCEPT !.dat = d.v, !.dunit = d.l4]
      [] OTHER -> [k EXCEPT !.ctl = d.v, !.cunit = d.l4]

HeartbeatOK(d) == \/ d.l3 = "time" /\ d.v \in 15..3600
                  \/ d.l3 = "fail" /\ d.v \in 5..600

KeyingOK(d) == \/ d.l2 = "encryption" /\ d.v \in 1..2
               \/ d.l2 = "rekey" /\ Period(d.l3, d.v)
               \/ d.l2 = "array" /\ ArrayOK(d)
               \/ d.l2 = "heartbeat" /\ HeartbeatOK(d)

SetKeying(k, d) ==
    CASE d.l2 = "encryption" -> [k EXCEPT !.alg = d.v]
      [] d.l2 = "rekey" -> [k EXCEPT !.rekey = d.v, !.runit = d.l3]
      [] d.l2 = "array" -> SetArray(k, d)
      [] OTHER -> IF d.l3 = "time" THEN [k EXCEPT !.beat = d.v]
                                   ELSE [k EXCEPT !.fail = d.v]

-----------------------------------------------------------------------------
(* Addresses.  The version of a host is fixed by the first definition that *)
(* names one; an address alone makes it IPv4.  inet_pton's answer for a    *)
(* malformed address is not negative, so any address text is accepted; a   *)
(* bad mask (a value < 1) is seen only where the mask is parsed.            *)

VersionOK(h, d) == \/ d.v = 4 /\ h.ip # 6
                   \/ d.v = 6 /\ h.ip # 4

parse_ipaddr(h, d, mask) == ~mask \/ d.v # 0

SetAddr(h, d) == [h EXCEPT !.ip = IF h.ip = 6 THEN 6 ELSE 4, !.addr = d.v]

(* Subnet definitions; a new subnet goes to the head of the list.          *)
SubnetOK(s, d, mask) == \/ d.l3 = "ipver" /\ VersionOK(s, d)
                        \/ d.l3 = "address" /\ parse_ipaddr(s, d, mask)

WithSubnet(subs, id) ==
    IF Having(subs, id) = {} THEN <<NewSubnet(id)>> \o subs ELSE subs

SetSubnet(h, id, d, mask) ==
    LET subs == WithSubnet(h.subs, id)
        i == Find(subs, id)
    IN IF SubnetOK(subs[i], d, mask)
       THEN [h EXCEPT !.subs = [subs EXCEPT ![i] =
                 IF d.l3 = "ipver" THEN [@ EXCEPT !.ip = d.v] ELSE SetAddr(@, d)]]
       ELSE [h EXCEPT !.subs = subs]

-----------------------------------------------------------------------------
(* A level a handler does not know.  parse_def accepts a missing or unknown *)
(* third or fourth level ("" here) and leaves -1 for it; the handler's last *)
(* else prints its name, and reads the table of names at -1 as an unsigned  *)
(* number.  A level of the wrong kind is printed and refused.               *)

NoLevel(r, d) ==
    \/ /\ d.l3 = ""
       /\ \/ d.l1 = "local" /\ d.l2 = "fifo"
          \/ d.l2 = "subnet" /\ (d.l1 = "remote" \/ r = "secondary")
          \/ r = "primary" /\ d.l2 \in {"rekey", "array", "heartbeat"}
    \/ r = "primary" /\ d.l2 = "array" /\ d.l3 \in {"data", "control"} /\ d.l4 = ""

Refusal(r, c, d) == IF NoLevel(r, d) THEN [c EXCEPT !.fault = "level"] ELSE c

-----------------------------------------------------------------------------
(* handle_local_defs.                                                       *)

LocalOK(r, h, d) ==
    \/ d.l2 = "hostname"
    \/ d.l2 = "fifo" /\ d.l3 \in {"u2sname", "s2uname"}
    \/ d.l2 = "ipver" /\ VersionOK(h, d)
    \/ d.l2 = "address"
    \/ /\ r = "primary"
       /\ \/ d.l2 = "port" /\ ~NOT_PORT(d.v)
          \/ d.l2 = "genkey" /\ d.v \in {HARDWARE, SOFTWARE}
          \/ KeyingOK(d)

(* SOFTWARE does not clear an earlier HARDWARE.                             *)
LocalSet(h, d) ==
    CASE d.l2 = "hostname" -> [h EXCEPT !.name = d.v]
      [] d.l2 = "fifo" -> IF d.l3 = "u2sname" THEN [h EXCEPT !.u2s = d.v]
                                              ELSE [h EXCEPT !.s2u = d.v]
      [] d.l2 = "ipver" -> [h EXCEPT !.ip = d.v]
      [] d.l2 = "address" -> SetAddr(h, d)
      [] d.l2 = "port" -> [h EXCEPT !.port = d.v]
      [] d.l2 = "genkey" -> [h EXCEPT !.hw = h.hw \/ d.v = HARDWARE]
      [] OTHER -> [h EXCEPT !.k = SetKeying(@, d)]

LocalSubnet(h, d) ==
    LET new == SetSubnet(h, d.id1, d, TRUE)
    IN [new EXCEPT !.upd =
           @ \/ SubnetOK(new.subs[Find(new.subs, d.id1)], d, TRUE)]

LocalDef(r, c, d) ==
    IF r = "secondary" /\ d.l2 = "subnet"
    THEN Refusal(r, [c EXCEPT !.local = LocalSubnet(@, d)], d)
    ELSE IF LocalOK(r, c.local, d)
    THEN [c EXCEPT !.local = [LocalSet(@, d) EXCEPT !.upd = TRUE]]
    ELSE Refusal(r, c, d)

-----------------------------------------------------------------------------
(* handle_group_defs.  The update mark is set on the head of the list.      *)

GroupOK(d) == \/ d.l2 = "name"
              \/ d.l2 = "category" /\ d.v \in Categories
              \/ KeyingOK(d)

GroupSet(g, d) == CASE d.l2 = "name" -> [g EXCEPT !.name = d.v]
                    [] d.l2 = "category" -> [g EXCEPT !.level = d.v]
                    [] OTHER -> [g EXCEPT !.k = SetKeying(@, d)]

(* An unknown number makes a new group, at the end of the list.            *)
GroupDef(c, d) ==
    LET gs == IF Having(c.group, d.id1) = {}
              THEN Append(c.group, NewGroup(d.id1)) ELSE c.group
        i == Find(gs, d.id1)
    IN IF GroupOK(d)
       THEN [c EXCEPT !.group = [[gs EXCEPT ![i] = GroupSet(@, d)]
                                    EXCEPT ![1].upd = TRUE]]
       ELSE Refusal("primary", [c EXCEPT !.group = gs], d)

-----------------------------------------------------------------------------
(* handle_remote_defs.                                                      *)

RemoteOK(r, h, d) ==
    \/ d.l2 = "hostname"
    \/ d.l2 = "ipver" /\ VersionOK(h, d)
    \/ d.l2 = "address"
    \/ r = "primary" /\ KeyingOK(d)
    \/ r = "secondary" /\ d.l2 = "port" /\ ~NOT_PORT(d.v)

RemoteSet(h, d) == CASE d.l2 = "hostname" -> [h EXCEPT !.name = d.v]
                     [] d.l2 = "ipver" -> [h EXCEPT !.ip = d.v]
                     [] d.l2 = "address" -> SetAddr(h, d)
                     [] d.l2 = "port" -> [h EXCEPT !.port = d.v]
                     [] OTHER -> [h EXCEPT !.k = SetKeying(@, d)]

(* The subnet is looked up by the second number, which a secondary's       *)
(* definitions do not have: there every subnet of the remote is number -1. *)
RemoteSubnet(h, d) == SetSubnet(h, d.id2, d, FALSE)

(* The group array is searched up to config->groups, which may have grown  *)
(* past the array since it was made; a group of the category that has no   *)
(* name is compared all the same.                                          *)
GroupsOf(c, cat) == {g \in ToSet(c.group) : g.level = cat}
Searched(c, d) == {i \in 0..(c.groups - 1) :
                      i < c.glist /\ c.gmap[i] # None}
Hits(c, d) == {i \in Searched(c, d) :
                  \E g \in GroupsOf(c, d.c) : g.ID = i /\ g.name = d.v}
Unnamed(c, d) == {i \in Searched(c, d) :
                     \E g \in GroupsOf(c, d.c) : g.ID = i /\ g.name = None}
SearchEnd(c, d) == IF Hits(c, d) = {} THEN c.groups
                   ELSE CHOOSE i \in Hits(c, d) : \A j \in Hits(c, d) : i <= j


RemoteGroup(c, i, d) ==
    IF c.glist = None THEN [c EXCEPT !.remote[1].upd = TRUE]
    ELSE IF d.c \notin Categories THEN c
    ELSE IF \E j \in Unnamed(c, d) : j < SearchEnd(c, d)
    THEN [c EXCEPT !.fault = "noname"]
    ELSE IF Hits(c, d) # {}
    THEN [c EXCEPT !.remote[i].groups[d.c] = SearchEnd(c, d)]
    ELSE IF c.groups > c.glist THEN [c EXCEPT !.fault = "search"]
    ELSE c

RemoteDef(r, c, d) ==
    LET rs == IF (IF r = "primary" THEN Having(c.remote, d.id1) = {}
                                   ELSE c.remote = <<>>)
              THEN Append(c.remote, NewRemote(d.id1, r)) ELSE c.remote
        i == IF r = "primary" THEN Find(rs, d.id1) ELSE 1
        h == rs[i]
        c1 == [c EXCEPT !.remote = rs]
        s1 == RemoteSubnet(h, d)
    IN CASE d.l2 = "subnet" ->
              IF SubnetOK(s1.subs[Find(s1.subs, d.id2)], d, FALSE)
              THEN [c1 EXCEPT !.remote = [[rs EXCEPT ![i] = s1]
                                             EXCEPT ![1].upd = TRUE]]
              ELSE Refusal(r, [c1 EXCEPT !.remote[i] = s1], d)
         [] r = "primary" /\ d.l2 = "group" -> RemoteGroup(c1, i, d)
         [] d.l2 # "group" /\ d.l2 # "subnet" /\ RemoteOK(r, h, d) ->
              [c1 EXCEPT !.remote = [[rs EXCEPT ![i] = RemoteSet(@, d)]
                                        EXCEPT ![1].upd = TRUE]]
         [] OTHER -> Refusal(r, c1, d)

HandleDef(r, c, d) ==
    CASE d.l1 = "local" -> LocalDef(r, c, d)
      [] d.l1 = "group" /\ r = "primary" -> GroupDef(c, d)
      [] d.l1 = "remote" -> RemoteDef(r, c, d)
      [] OTHER -> c

-----------------------------------------------------------------------------
(* parse_def: the counts kept while the file is read, and the group array  *)
(* made at the first remote definition.                                     *)

(* A group count equal to the number read is left as it is.                 *)
CountGroup(c, d) == [c EXCEPT !.groups = IF d.id1 > @ THEN d.id1 + 1 ELSE @]

BuildGroups(c) ==
    IF c.glist # None THEN c
    ELSE [c EXCEPT !.glist = c.groups,
                   !.gmap = [i \in 0..(c.groups - 1) |->
                                IF Having(c.group, i) # {} THEN i ELSE None],
                   !.fault = IF \E g \in ToSet(c.group) : g.ID >= c.groups
                             THEN "build" ELSE @]

CountRemote(c, d) ==
    [c EXCEPT !.remotes = IF d.id1 + 1 > @ THEN d.id1 + 1 ELSE @]

ParseDef(r, c, d) ==
    CASE d.l1 = "group" /\ r = "primary" /\ d.id1 <= 254 -> CountGroup(c, d)
      [] d.l1 = "remote" /\ r = "primary" -> CountRemote(BuildGroups(c), d)
      [] d.l1 = "remote" /\ r = "secondary" -> [c EXCEPT !.remotes = 1]
      [] OTHER -> c

(* Numbers above 254 and unknown first or second levels are reported and   *)
(* skipped.                                                                *)
Refused(d) == \/ d.l1 \notin {"local", "group", "remote"} \/ d.l2 = ""
              \/ d.l1 = "group" /\ d.id1 > 254

-----------------------------------------------------------------------------
(* validate_local, validate_group, validate_remote.                        *)

ValidLocal(r, h) == h.name # None /\ h.addr # None
                    /\ (r = "secondary" => h.subs # <<>>)
FifoNames(h) == [h EXCEPT !.s2u = IF @ = None THEN 0 ELSE @,
                          !.u2s = IF @ = None THEN 0 ELSE @]
ValidGroup(g) == g.name # None
ValidRemote(h) == /\ h.name # None /\ h.addr # None /\ h.subs # <<>>
                  /\ \A s \in ToSet(h.subs) : s.addr # None

-----------------------------------------------------------------------------
(* save_config.                                                             *)

Opt(cond, d) == IF cond THEN <<d>> ELSE <<>>
Text(v) == IF v = None THEN NullText ELSE v
Unit(u) == IF u = "time" THEN "time" ELSE "packets"
Version(h) == IF h.ip = 6 THEN 6 ELSE 4

SaveSubnet(l1, i1, s, asFirst) ==
    LET D(l3, v) == IF asFirst THEN Def(l1, s.ID, "subnet", None, l3, "", v, 0)
                               ELSE Def(l1, i1, "subnet", s.ID, l3, "", v, 0)
    IN <<D("ipver", Version(s)), D("address", Text(s.addr))>>

SaveSubnets(l1, i1, subs, asFirst) ==
    FlattenSeq([i \in DOMAIN subs |-> SaveSubnet(l1, i1, subs[i], asFirst)])

(* Not written: FIFO names, port, key generation, algorithm, use of arrays *)
(* and the IP version.                                                      *)
SaveLocal(r, h) ==
    LET D(l2, l3, l4, v) == Def("local", None, l2, None, l3, l4, v, 0)
        k == h.k
    IN <<D("hostname", "", "", h.name), D("address", "", "", h.addr)>>
       \o (IF r = "secondary" THEN SaveSubnets("local", None, h.subs, TRUE)
           ELSE <<D("rekey", Unit(k.runit), "", k.rekey),
                  D("array", "size", "", k.size),
                  D("array", "data", Unit(k.dunit), k.dat),
                  D("array", "control", Unit(k.cunit), k.ctl),
                  D("heartbeat", "time", "", k.beat),
                  D("heartbeat", "fail", "", k.fail)>>)

\* Mutant: every period is written with the unit of the rekeying period.
SaveKeyingUnits(l1, id, k) ==
    LET D(l2, l3, l4, v) == Def(l1, id, l2, None, l3, l4, v, 0)
    IN Opt(k.alg > 0, D("encryption", "", "", k.alg))
       \o Opt(k.rekey > 0, D("rekey", Unit(k.runit), "", k.rekey))
       \o (IF k.nuse THEN <<D("array", "use", "", NO)>>
           ELSE Opt(k.size > 0, D("array", "size", "", k.size))
                \o Opt(k.dat > 0, D("array", "data", Unit(k.runit), k.dat))
                \o Opt(k.ctl > 0, D("array", "control", Unit(k.runit), k.ctl)))
       \o Opt(k.beat > 0, D("heartbeat", "time", "", k.beat))
       \o Opt(k.fail > 0, D("heartbeat", "fail", "", k.fail))

SaveKeying(l1, id, k) ==
    LET D(l2, l3, l4, v) == Def(l1, id, l2, None, l3, l4, v, 0)
    IN Opt(k.alg > 0, D("encryption", "", "", k.alg))
       \o Opt(k.rekey > 0, D("rekey", Unit(k.runit), "", k.rekey))
       \o (IF k.nuse THEN <<D("array", "use", "", NO)>>
           ELSE Opt(k.size > 0, D("array", "size", "", k.size))
                \o Opt(k.dat > 0, D("array", "data", Unit(k.dunit), k.dat))
                \o Opt(k.ctl > 0, D("array", "control", Unit(k.cunit), k.ctl)))
       \o Opt(k.beat > 0, D("heartbeat", "time", "", k.beat))
       \o Opt(k.fail > 0, D("heartbeat", "fail", "", k.fail))

SaveGroup(g) ==
    <<Def("group", g.ID, "name", None, "", "", g.name, 0)>>
    \o (IF g.level \in Categories
        THEN <<Def("group", g.ID, "category", None, "", "", g.level, 0)>>
        ELSE <<Def("group", g.ID, "name", None, "", "", g.name, 0)>>)
    \o SaveKeying("group", g.ID, g.k)

\* Mutant: the loop over the categories of a remote stops after the first.
SaveMemberFirst(c, h, s) ==
    LET j == h.groups[s]
        g == c.group[Find(c.group, j)]
    IN Opt(s = 1 /\ j # None /\ g.level \in Categories,
           Def("remote", h.ID, "group", None, "", "", g.name, g.level))

(* The loop over the categories of a remote stops at p3MAX_GROUPS bytes:    *)
(* two of the four categories.                                              *)
SaveMember(c, h, s) ==
    LET j == h.groups[s]
        g == c.group[Find(c.group, j)]
    IN Opt(j # None /\ g.level \in Categories,
           Def("remote", h.ID, "group", None, "", "", g.name, g.level))

SaveRemote(r, c, h) ==
    LET id == IF r = "primary" THEN h.ID ELSE None
        D(l2, v) == Def("remote", id, l2, None, "", "", v, 0)
    IN <<D("hostname", h.name), D("ipver", Version(h)), D("address", h.addr)>>
       \o (IF r = "secondary"
           THEN <<D("port", h.port)>>
                \o SaveSubnets("remote", None, h.subs, TRUE)
           ELSE SaveMember(c, h, 1) \o SaveMember(c, h, 2)
                \o SaveSubnets("remote", h.ID, h.subs, FALSE)
                \o SaveKeying("remote", h.ID, h.k))

(* The entries before the first invalid one are in the file all the same.  *)
Good(s, Valid(_)) ==
    LET bad == {i \in DOMAIN s : ~Valid(s[i])}
    IN IF bad = {} THEN Len(s)
       ELSE (CHOOSE i \in bad : \A j \in bad : i <= j) - 1

SaveConfig(r, c) ==
    LET gs == Good(c.group, ValidGroup)
        rs == Good(c.remote, ValidRemote)
        gl == FlattenSeq([i \in 1..gs |-> SaveGroup(c.group[i])])
        rl == FlattenSeq([i \in 1..rs |-> SaveRemote(r, c, c.remote[i])])
    IN IF ~ValidLocal(r, c.local) THEN [ok |-> FALSE, lines |-> <<>>]
       ELSE IF gs < Len(c.group)
       THEN [ok |-> FALSE, lines |-> SaveLocal(r, c.local) \o gl]
       ELSE [ok |-> rs = Len(c.remote),
             lines |-> SaveLocal(r, c.local) \o gl \o rl]

-----------------------------------------------------------------------------
(* get_list (p3admin.c).  An item is counted whether or not its            *)
(* definition is there; a level that is not set again keeps its last value. *)

Item(d, there) == [d |-> d, there |-> there]

StaleL2(k, start) == IF k.dat > 0 THEN "array"
                     ELSE IF k.beat > 0 \/ k.fail > 0 THEN "heartbeat"
                     ELSE IF k.size > 0 THEN "array"
                     ELSE IF k.alg > 0 THEN "encryption" ELSE start

ListLocal(r, h) ==
    LET I(l2, l3, l4, v) == Item(Def("local", None, l2, None, l3, l4, v, 0), TRUE)
        k == h.k
        f == IF r = "secondary" THEN "address"
             ELSE IF k.alg > 0 THEN "encryption" ELSE "genkey"
    IN <<I("hostname", "", "", h.name),
         Item(Def("local", None, "ipver", None, "", "", h.ip, 0), h.ip # 0),
         I("address", "", "", h.addr)>>
       \o (IF r = "secondary" THEN <<>>
           ELSE <<I("port", "", "", h.port),
                  I("genkey", "", "", IF h.hw THEN HARDWARE ELSE SOFTWARE)>>
                \o Opt(k.alg > 0, I("encryption", "", "", k.alg)))
       \o <<I(f, "s2uname", "", h.s2u), I(f, "u2sname", "", h.u2s)>>
       \o (IF r = "secondary"
           THEN FlattenSeq([i \in DOMAIN h.subs |->
                  LET s == h.subs[i]
                  IN <<Item(Def("local", s.ID, "subnet", None, "ipver", "", s.ip, 0),
                            s.ip # 0),
                       Item(Def("local", s.ID, "subnet", None, "address", "",
                                s.addr, 0), TRUE)>>])
           ELSE <<I("array", "size", "", k.size),
                  I("heartbeat", "time", "", k.beat),
                  I("heartbeat", "fail", "", k.fail),
                  I("rekey", k.runit, "", k.rekey),
                  I("array", "data", k.dunit, k.dat),
                  I("array", "control", k.cunit, k.ctl)>>)

(* The rekeying period, unsigned, is never below zero: it is never listed. *)
ListKeying(l1, id, k, start) ==
    LET I(l2, l3, l4, v) == Item(Def(l1, id, l2, None, l3, l4, v, 0), TRUE)
    IN Opt(k.alg > 0, I("encryption", "", "", k.alg))
       \o Opt(k.size > 0, I("array", "size", "", k.size))
       \o Opt(k.beat > 0, I("heartbeat", "time", "", k.beat))
       \o Opt(k.fail > 0, I("heartbeat", "fail", "", k.fail))
       \o Opt(k.dat > 0, I("array", "data", k.dunit, k.dat))
       \o Opt(k.ctl > 0, I(StaleL2(k, start), "control", k.cunit, k.ctl))

ListGroup(g) ==
    LET I(l2, v) == Item(Def("group", g.ID, l2, None, "", "", v, 0), TRUE)
    IN <<I("name", g.name), I("category", g.level)>>
       \o ListKeying("group", g.ID, g.k, "category")

Members(h) == {s \in Categories : h.groups[s] # None}

ListMember(c, h, s) ==
    LET g == c.group[Find(c.group, h.groups[s])]
    IN Opt(s \in Members(h),
           Item(Def("remote", h.ID, "category", None, "", "", g.name, g.level),
                TRUE))

ListSubnets(r, h) ==
    LET l2 == StaleL2(h.k, IF Members(h) = {} THEN "address" ELSE "category")
        D(s, l4, v) == IF r = "primary"
                       THEN Def("remote", s.ID, l2, None, "subnet", l4, v, 0)
                       ELSE Def("remote", h.ID, l2, s.ID, "subnet", l4, v, 0)
    IN FlattenSeq([i \in DOMAIN h.subs |->
           <<Item(D(h.subs[i], "ipver", h.subs[i].ip), h.subs[i].ip # 0),
             Item(D(h.subs[i], "address", h.subs[i].addr), TRUE)>>])

ListRemote(r, c, h) ==
    LET D(l2, v) == Def("remote", h.ID, l2, None, "", "", v, 0)
        start == IF Members(h) = {} THEN "address" ELSE "category"
    IN <<Item(D("hostname", h.name), TRUE), Item(D("ipver", h.ip), h.ip # 0),
         Item(D("address", h.addr), TRUE)>>
       \o (IF r = "secondary" THEN <<>>
           ELSE FlattenSeq([s \in Categories |-> ListMember(c, h, s)])
                \o ListKeying("remote", h.ID, h.k, start))
       \o ListSubnets(r, h)

(* The items of one kind of definition; for an update, of the marked ones. *)
GetList(r, c, kind, update) ==
    CASE kind = "local" ->
           IF update /\ ~c.local.upd THEN <<>> ELSE ListLocal(r, c.local)
      [] kind = "group" ->
           FlattenSeq([i \in DOMAIN c.group |->
             IF update /\ ~c.group[i].upd THEN <<>> ELSE ListGroup(c.group[i])])
      [] OTHER ->
           FlattenSeq([i \in DOMAIN c.remote |->
             IF update /\ ~c.remote[i].upd THEN <<>>
             ELSE ListRemote(r, c, c.remote[i])])

AddComm(items) ==
    LET there == SelectSeq(items, LAMBDA i : i.there)
    IN [i \in DOMAIN there |-> there[i].d]

(* strlen of a string that is not there.                                    *)
Crashes(items) == \E i \in DOMAIN items : items[i].there /\ items[i].d.v = None

-----------------------------------------------------------------------------
(* The library.                                                             *)

NoSave == [ok |-> FALSE, lines |-> <<>>]
NoList == [count |-> 0, list |-> <<>>]
NoCfg == InitConfig("primary")

Init == /\ role \in {"primary", "secondary"}
        /\ phase = "load"
        /\ file \in {Base[role]} \cup
                    UNION {[1..n -> Lines[role]] : n \in 1..MaxDefs}
        /\ line = 1
        /\ cfg = InitConfig(role)
        /\ saved = NoSave
        /\ commlist = <<>>
        /\ listed = NoList
        /\ defs = IF file = Base[role] THEN 0 ELSE Len(file)
        /\ before = NoCfg

(* One line of get_config's loop.                                           *)
ReadLine ==
    /\ phase = "load" /\ line <= Len(file)
    /\ LET d == file[line]
           c == ParseDef(role, cfg, d)
       IN /\ cfg' = IF Refused(d) \/ c.fault # "" THEN c
                    ELSE HandleDef(role, c, d)
          /\ phase' = IF cfg'.fault # "" THEN "down" ELSE phase
    /\ line' = line + 1
    /\ UNCHANGED <<role, file, saved, commlist, listed, defs, before>>

(* The end of the file: what is missing is reported, and the FIFO names    *)
(* get their defaults.                                                      *)
EndOfFile ==
    /\ phase = "load" /\ line > Len(file)
    /\ cfg' = [cfg EXCEPT !.local = FifoNames(@)]
    /\ phase' = "ready"
    /\ UNCHANGED <<role, file, line, saved, commlist, listed, defs, before>>

(* A definition changed by the user interface: no counting, no array.      *)
Define(d) ==
    /\ phase = "ready" /\ defs < MaxDefs
    /\ cfg' = HandleDef(role, cfg, d)
    /\ phase' = IF cfg'.fault # "" THEN "down" ELSE phase
    /\ defs' = defs + 1
    /\ UNCHANGED <<role, file, line, saved, commlist, listed, before>>

(* GET: the user interface fetches a list to its end before the next one.  *)
Get(kind) ==
    /\ phase = "ready" /\ commlist = <<>>
    /\ LET items == GetList(role, cfg, kind, FALSE)
       IN IF Crashes(items)
          THEN /\ cfg' = [cfg EXCEPT !.fault = "list"]
               /\ phase' = "down"
               /\ UNCHANGED <<commlist, listed>>
          ELSE /\ commlist' = AddComm(items)
               /\ listed' = [count |-> Len(items), list |-> AddComm(items)]
               /\ UNCHANGED <<cfg, phase>>
    /\ UNCHANGED <<role, file, line, saved, defs, before>>

(* All entries are fetched with GETNEXT, one after the other.               *)
GetNext ==
    /\ phase = "ready" /\ commlist # <<>>
    /\ commlist' = Tail(commlist)
    /\ UNCHANGED <<role, phase, file, line, cfg, saved, listed, defs, before>>

(* The UPDATE command (one, a bound): save, then list what is marked and send it, whatever *)
(* became of the save.  The exchange with the daemon is in AdminFifo.       *)
Update ==
    /\ phase = "ready" /\ saved = NoSave /\ commlist = <<>>
    /\ LET c == [cfg EXCEPT !.local = FifoNames(@)]
           items == GetList(role, c, "local", TRUE)
                    \o (IF role = "primary" THEN GetList(role, c, "group", TRUE)
                        ELSE <<>>)
                    \o GetList(role, c, "remote", TRUE)
       IN /\ saved' = SaveConfig(role, c)
          /\ before' = c
          /\ IF Crashes(items)
             THEN /\ cfg' = [c EXCEPT !.fault = "list"]
                  /\ phase' = "down"
                  /\ UNCHANGED listed
             ELSE /\ cfg' = c
                  /\ listed' = [count |-> Len(items), list |-> AddComm(items)]
                  /\ UNCHANGED phase
    /\ UNCHANGED <<role, file, line, commlist, defs>>

(* The administrator puts <file>.new in place (the renaming is a TODO of   *)
(* save_config) and starts the interface again.                             *)
Restart ==
    /\ phase \in {"ready", "down"} /\ saved.lines # <<>>
    /\ phase' = "load"
    /\ file' = saved.lines
    /\ line' = 1
    /\ cfg' = InitConfig(role)
    /\ commlist' = <<>>
    /\ listed' = NoList
    /\ defs' = MaxDefs
    /\ UNCHANGED <<role, saved, before>>

Next == \/ ReadLine \/ EndOfFile \/ GetNext \/ Update \/ Restart
        \/ \E d \in Lines[role] : Define(d)
        \/ \E kind \in {"local", "group", "remote"} :
              (kind = "group" => role = "primary") /\ Get(kind)

Spec == Init /\ [][Next]_vars

-----------------------------------------------------------------------------
(* Properties.                                                              *)

SamePeriod(v, u, w, x) == v = w /\ (v > 0 => Unit(u) = Unit(x))

SameKeys(a, b) ==
    /\ a.alg = b.alg /\ a.nuse = b.nuse /\ a.beat = b.beat /\ a.fail = b.fail
    /\ SamePeriod(a.rekey, a.runit, b.rekey, b.runit)
    /\ ~a.nuse => /\ a.size = b.size
                  /\ SamePeriod(a.dat, a.dunit, b.dat, b.dunit)
                  /\ SamePeriod(a.ctl, a.cunit, b.ctl, b.cunit)

SubnetView(subs) == {<<s.ID, Version(s), Text(s.addr)>> : s \in ToSet(subs)}

SameLocal(a, b) ==
    /\ a.name = b.name /\ a.addr = b.addr
    /\ IF role = "secondary" THEN SubnetView(a.subs) = SubnetView(b.subs)
       ELSE /\ a.k.size = b.k.size /\ a.k.beat = b.k.beat /\ a.k.fail = b.k.fail
            /\ SamePeriod(a.k.rekey, a.k.runit, b.k.rekey, b.k.runit)
            /\ SamePeriod(a.k.dat, a.k.dunit, b.k.dat, b.k.dunit)
            /\ SamePeriod(a.k.ctl, a.k.cunit, b.k.ctl, b.k.cunit)

SameGroup(a, b) == /\ a.ID = b.ID /\ a.name = b.name /\ a.level = b.level
                   /\ SameKeys(a.k, b.k)

SameRemote(a, b) == /\ a.ID = b.ID /\ a.name = b.name /\ a.addr = b.addr
                    /\ Version(a) = Version(b) /\ a.port = b.port
                    /\ SubnetView(a.subs) = SubnetView(b.subs)
                    /\ SameKeys(a.k, b.k)

Reloaded == phase = "ready" /\ saved.ok /\ file = saved.lines /\ defs = MaxDefs

(* Saving and loading again (save_config, then get_config) gives back every *)
(* parameter the file holds: of the local host, of each group and of each   *)
(* remote, in their order; the subnets of a host as a set.  A group number  *)
(* above 254, which only the file reader refuses, is not read back.         *)
RoundTrip ==
    Reloaded =>
        /\ SameLocal(before.local, cfg.local)
        /\ LET gs == SelectSeq(before.group, LAMBDA g : g.ID <= 254)
           IN /\ Len(cfg.group) = Len(gs)
              /\ \A i \in DOMAIN gs : SameGroup(gs[i], cfg.group[i])
        /\ Len(cfg.remote) = Len(before.remote)
        /\ \A i \in DOMAIN cfg.remote :
              SameRemote(before.remote[i], cfg.remote[i])

(* A remote's place in an organisation or location group survives saving    *)
(* and loading when the group still has that category and no other group    *)
(* has its category and name (save_config writes the group's present        *)
(* category and name, handle_remote_defs takes the first match).            *)
Twins(gs) == \E i, j \in DOMAIN gs : i # j /\ gs[i].name = gs[j].name
                                      /\ gs[i].level = gs[j].level
InPlace(c, h, s) == h.groups[s] # None =>
                       c.group[Find(c.group, h.groups[s])].level = s
MembersKept ==
    Reloaded /\ role = "primary" /\ ~Twins(before.group) =>
        \A i \in DOMAIN cfg.remote :
            LET h == before.remote[i]
            IN InPlace(before, h, 1) /\ InPlace(before, h, 2) =>
                  /\ cfg.remote[i].groups[1] = h.groups[1]
                  /\ cfg.remote[i].groups[2] = h.groups[2]

(* Memory is misused for one of five reasons only.  The array of groups,    *)
(* made at the first remote line, is overrun by a group whose number is the *)
(* count parse_def keeps; it is too short for a group line after a remote   *)
(* line; a group has a category and no name; a host that is listed has no   *)
(* name or address; a line of a file nobody saved, or a command, leaves out *)
(* the third or fourth level its parameter needs: save_config writes every  *)
(* level it reads back.                                                     *)
FaultExplained ==
    /\ phase = "load" => \A g \in ToSet(cfg.group) : g.ID <= cfg.groups
    /\ cfg.fault = "build" => \E g \in ToSet(cfg.group) : g.ID = cfg.groups
    /\ cfg.fault = "search" =>
          \E i, j \in DOMAIN file : i < j /\ file[i].l1 = "remote"
                                         /\ file[j].l1 = "group"
    /\ cfg.fault = "noname" =>
          \E g \in ToSet(cfg.group) : g.name = None /\ g.level \in Categories
    /\ cfg.fault = "list" =>
          \/ cfg.local.name = None \/ cfg.local.addr = None
          \/ \E s \in ToSet(cfg.local.subs) : s.addr = None
          \/ \E g \in ToSet(cfg.group) : g.name = None
          \/ \E h \in ToSet(cfg.remote) :
                \/ h.name = None \/ h.addr = None
                \/ \E s \in ToSet(h.subs) : s.addr = None
    /\ cfg.fault = "level" =>
          /\ file # saved.lines
          /\ line > Len(file) \/ "" \in {file[line - 1].l3, file[line - 1].l4}
=============================================================================
