------------------------------- MODULE UIAnon -------------------------------
(***************************************************************************)
(* The user interface's anonymous sessions (ui_src/p3command.c             *)
(* handle_session, p3anonymous.c, p3net.c), in the process that also sends *)
(* the requests of AdminFifo.  ON, ONLY and a new subnet fork a listener   *)
(* that works on its own copy of the settings; a secondary connects to it  *)
(* and sends its definitions as messages with a two byte length.           *)
(*                                                                         *)
(* p3listener keeps the peer's address in a buffer on its stack and every  *)
(* definition points there: each new connection overwrites the address of  *)
(* the one before, so that they always compare equal in p3validate.        *)
(***************************************************************************)
EXTENDS AdminFifo

CONSTANTS
    MaxKids,  \* bound: listeners forked
    MaxMsgs,  \* bound: messages of one anonymous session
    Subnets,  \* the subnets ANONNET may name, of either version
    MaxDefs   \* bound: definitions the user enters

ASSUME AnonAssumption ==
    {MaxKids, MaxMsgs, MaxDefs} \subseteq Nat /\ 0 \notin Subnets

VARIABLES
    cmd,   \* p3command of the user interface: flags, subnet, anonpid
    lis,   \* lis[k]: the listener k, with its copy of the settings
    link,  \* the connection of the secondary that is connected
    arem,  \* the anonymous definitions, head first, and those accepted
    lost   \* history: a listener was forked, or its parent died, while one ran
           \* that had not been told to end

anonVars == <<cmd, lis, link, arem, lost>>
vars == <<fifoVars, anonVars>>

NoCmd == [set |-> FALSE, net |-> FALSE, srdy |-> FALSE, ver |-> 0, sub |-> 0, pid |-> 0]

\* A peer is an address of one version in one of its subnets.
Peers == [ver : {4, 6}, sub : Subnets]
NoPeer == [ver |-> 0, sub |-> 0]
NoKid == [pc |-> "none", told |-> FALSE, net |-> FALSE, ver |-> 0, sub |-> 0,
          peer |-> NoPeer, up |-> FALSE, idx |-> 0, got |-> <<>>, last |-> <<>>]
NoLink == [to |-> 0, in |-> <<>>, wire |-> <<>>, left |-> 0, cut |-> FALSE]

Init ==
    /\ FifoInit
    /\ cmd = NoCmd
    /\ lis = [k \in 1..MaxKids |-> NoKid]
    /\ link = NoLink
    /\ arem = [anon |-> <<>>, accepted |-> <<>>, remotes |-> 0]
    /\ lost = FALSE

-----------------------------------------------------------------------------
(* Commands.  The user interface reads one at a time.                      *)

\* What init_command and init_anonymous set up; the definitions read from
\* the file are not put on a list.
Start ==
    /\ UIStart
    /\ cmd' = NoCmd
    /\ arem' = [anon |-> <<>>, accepted |-> <<>>, remotes |-> 0]
    /\ UNCHANGED <<lis, link, lost>>

Idle == ui.pc = "idle"

\* The listener's anon_shutdown and exit: its session ends with it.
Exited(k) == [lis EXCEPT ![k] = NoKid]
Unlinked(k) == IF link.to = k THEN NoLink ELSE link

\* The listener that anonpid names is sent SIGTERM, and anonpid is cleared:
\* nobody waits for it.  It ends when it gets there (Die), and until then
\* keeps its port, its settings and its session.
KillListener(newui, newcmd) ==
    /\ Flow(newui, kids, d, u2s, s2u)
    /\ cmd' = [newcmd EXCEPT !.pid = 0]
    /\ lis' = IF cmd.pid \in kids THEN [lis EXCEPT ![cmd.pid].told = TRUE] ELSE lis
    /\ UNCHANGED link

\* The listeners that have not been told to end.
Present == {k \in kids : ~lis[k].told}

\* "quit": admin_shutdown and command_shutdown.
Quit ==
    /\ Idle
    /\ KillListener(DownUI(ui), NoCmd)
    /\ UNCHANGED <<role, ev, arem, lost>>

\* Killed: the listener goes on.
Crash ==
    /\ UICrash
    /\ cmd' = NoCmd
    /\ lost' = (lost \/ Present # {})
    /\ UNCHANGED <<lis, link, arem>>

\* A write to a FIFO, or a read, that may also end the user interface.
Request ==
    /\ UINext
    /\ cmd' = IF ui'.pc = "down" THEN NoCmd ELSE cmd
    /\ lost' = (lost \/ (ui'.pc = "down" /\ Present # {}))
    /\ UNCHANGED <<lis, link, arem>>

Unused == {k \in 1..MaxKids : k \notin kids /\ lis[k] = NoKid}

\* anon_handler with the settings c: the fork, or its failure.
Fork(c, failed) ==
    \/ \E k \in Unused :
         /\ Flow(ui, kids \cup {k}, d, u2s, s2u)
         /\ lis' = [lis EXCEPT ![k] = [NoKid EXCEPT !.pc = "listen", !.net = c.net,
                                          !.ver = c.ver, !.sub = c.sub]]
         /\ cmd' = [c EXCEPT !.pid = k]
    \/ /\ Flow(ui, kids, d, u2s, s2u)
       /\ cmd' = [failed EXCEPT !.pid = 0]
       /\ UNCHANGED lis

\* anon_handler does not test whether a listener is running.
Forked == lost' = (lost \/ Present # {})
NotForked(c) == cmd' = c /\ UNCHANGED <<u2s, s2u, ui, d, kids, lis, lost>>

\* Without the shared memory of the definitions nothing is turned off.
AnonSetOff ==
    /\ role = "primary" /\ Idle
    /\ \/ KillListener(ui, [cmd EXCEPT !.set = FALSE, !.net = FALSE, !.srdy = FALSE])
       \/ NotForked(cmd) /\ UNCHANGED link
    /\ UNCHANGED <<role, ev, arem, lost>>

AnonSetOn ==
    /\ role = "primary" /\ Idle
    /\ LET c == [cmd EXCEPT !.set = TRUE, !.net = FALSE, !.srdy = FALSE]
       IN  Fork(c, [c EXCEPT !.set = FALSE])
    /\ Forked
    /\ UNCHANGED <<role, ev, link, arem>>

AnonSetOnly ==
    /\ role = "primary" /\ Idle
    /\ LET c == [cmd EXCEPT !.set = TRUE, !.net = TRUE]
       IN  \/ ~c.srdy /\ NotForked(c)
           \/ c.srdy /\ Forked
              /\ Fork(c, [c EXCEPT !.set = FALSE, !.net = FALSE, !.srdy = FALSE])
    /\ UNCHANGED <<role, ev, link, arem>>

\* The version of the subnet, once set, stays.
AnonIpver(v) ==
    /\ role = "primary" /\ Idle /\ cmd.ver = 0
    /\ NotForked([cmd EXCEPT !.ver = v])
    /\ UNCHANGED <<role, ev, link, arem>>

AnonNet(s) ==
    /\ role = "primary" /\ Idle
    /\ LET c == [cmd EXCEPT !.srdy = TRUE, !.sub = s, !.ver = IF @ = 0 THEN 4 ELSE @]
       IN  \/ ~c.set /\ NotForked(c)
           \/ c.set /\ Forked
              /\ Fork(c, [c EXCEPT !.set = FALSE, !.net = FALSE, !.srdy = FALSE])
    /\ UNCHANGED <<role, ev, link, arem>>

Keep == UNCHANGED <<fifoVars, cmd, lis, link, lost>>

\* ANON: the definition with this number, new ones first.
AnonDef(id) ==
    /\ role = "primary" /\ Idle
    /\ \A i \in 1..Len(arem.anon) : arem.anon[i] # id
    /\ Len(arem.anon) + arem.remotes < MaxDefs
    /\ arem' = [arem EXCEPT !.anon = <<id>> \o @]
    /\ Keep

\* ANONCMD ACCEPT: the first definition with this number becomes a remote
\* host with the next number.
AnonAccept(id) ==
    /\ role = "primary" /\ Idle
    /\ \E i \in 1..Len(arem.anon) :
         /\ arem.anon[i] = id
         /\ arem' = [anon |-> SubSeq(arem.anon, 1, i - 1) \o Rest(arem.anon, i),
                     accepted |-> Append(arem.accepted, arem.remotes),
                     remotes |-> arem.remotes + 1]
    /\ Keep

-----------------------------------------------------------------------------
(* The listener                                                            *)

Bound(k) == lis[k].pc \notin {"none", "listen"}

Exit(k) ==
    /\ Flow(ui, kids \ {k}, d, u2s, s2u)
    /\ lis' = Exited(k)
    /\ link' = Unlinked(k)
    /\ UNCHANGED <<role, ev, cmd, arem, lost>>

\* p3listen: with the port taken, the listener keeps the closed socket and
\* its first select ends it.
Listen(k) ==
    /\ lis[k].pc = "listen"
    /\ \/ /\ \A j \in kids : ~Bound(j)
          /\ lis' = [lis EXCEPT ![k].pc = "loop"]
          /\ UNCHANGED <<fifoVars, cmd, link, arem, lost>>
       \/ /\ \E j \in kids : Bound(j)
          /\ Exit(k)

\* Mutant: the subnet is not tested.
AdmitsAll(l, peer) == TRUE

\* p3validate, first half.  An address of the other version does not parse:
\* what is compared is not initialized, and may fit.
Admits(l, peer) == ~l.net \/ l.ver # peer.ver \/ l.sub = peer.sub

\* p3listener: the connection is refused, or its session replaces the one
\* that is down or becomes the first.  A refused socket is not closed.
Connect(k, peer) ==
    /\ lis[k].pc = "loop" /\ link.to = 0
    /\ Admits(lis[k], peer)
    /\ ~lis[k].up
    /\ lis' = [lis EXCEPT ![k].peer = peer, ![k].up = TRUE, ![k].last = <<>>]
    /\ link' = [NoLink EXCEPT !.to = k, !.left = MaxMsgs]
    /\ UNCHANGED <<fifoVars, cmd, arem, lost>>

\* Listener and link after the listener's session has been stopped.
Stopped(l) == [l EXCEPT !.pc = "loop", !.up = FALSE, !.idx = 0, !.got = <<>>]

\* p3validate asks for the status of the new connection where it means the
\* session there is: one that has failed already replaces a live session,
\* whose socket nobody reads any more.
ConnectFailed(k, peer) ==
    /\ lis[k].pc = "loop" /\ lis[k].up
    /\ Admits(lis[k], peer)
    /\ lis' = [lis EXCEPT ![k] = [Stopped(@) EXCEPT !.peer = peer]]
    /\ link' = Unlinked(k)
    /\ UNCHANGED <<fifoVars, cmd, arem, lost>>

Working(k, pc) == lis[k].pc = pc /\ lis[k].up /\ link.to = k
Closed == link.left = 0 /\ link.wire = <<>>
Received(k, l, rest) ==
    /\ lis' = [lis EXCEPT ![k] = l]
    /\ link' = IF l.up THEN [link EXCEPT !.in = rest] ELSE NoLink
    /\ UNCHANGED <<fifoVars, cmd, arem, lost>>

\* Every read asks for two bytes, the length of a message's length and data.
Chunk == SubSeq(link.in, 1, IF Len(link.in) < 2 THEN Len(link.in) ELSE 2)

Receive(k) ==
    /\ Working(k, "loop") /\ (link.in # <<>> \/ Closed)
    /\ Received(k, [lis[k] EXCEPT !.pc = "length", !.idx = 0, !.got = <<>>, !.last = <<>>],
                link.in)

\* The two bytes of the length.  Read separately they give another length, or
\* none; one and then two never make two, and the code reads on past the
\* end of msg_size.
ReadLength(k) ==
    /\ Working(k, "length") /\ link.in # <<>>
    /\ LET idx == lis[k].idx + Len(Chunk)
           l == [lis[k] EXCEPT !.idx = IF idx > 3 THEN 3 ELSE idx]
       IN  \/ idx # 2 /\ Received(k, l, Rest(link.in, Len(Chunk)))
           \/ idx = 2 /\ Received(k, [l EXCEPT !.pc = "data"], Rest(link.in, Len(Chunk)))
           \/ idx = 2 /\ lis[k].idx = 1 /\ Received(k, Stopped(l), <<>>)

\* Mutant: the data is taken to be there when the length is.
ReadDataAtOnce(k) ==
    /\ Working(k, "data")
    /\ Received(k, [lis[k] EXCEPT !.pc = "loop", !.last = Chunk], Rest(link.in, Len(Chunk)))

\* The data: a read asks for its whole length again after a part of it, and
\* runs past its end when the next message follows.
ReadData(k) ==
    /\ Working(k, "data") /\ link.in # <<>>
    /\ LET got == lis[k].got \o Chunk
       IN  Received(k, IF Len(got) = 2
                       THEN [lis[k] EXCEPT !.pc = "loop", !.got = <<>>, !.last = got]
                       ELSE [lis[k] EXCEPT !.got = got],
                    Rest(link.in, Len(Chunk)))

\* The end of the file, 10 s without data or, where the flags of the session,
\* which nobody sets, make it nonblocking, an incomplete length.  The session
\* is stopped, but net_receive returns the status of the stopped session, and
\* what there is of the data is parsed.
EndSession(k) ==
    /\ link.in = <<>>
    /\ \/ Working(k, "length") /\ (Closed \/ lis[k].idx > 0)
       \/ Working(k, "data")
    /\ Received(k, [Stopped(lis[k]) EXCEPT !.last = lis[k].got], <<>>)

\* anon_shutdown: the SIGTERM sent to it, another signal, or an error in a
\* definition.
Die(k) == k \in kids /\ Exit(k)

-----------------------------------------------------------------------------
(* The secondary's anon_connect, and the network                           *)

Message(m) == [i \in 1..4 |-> <<m, i>>]

\* net_transmit returns 1 when the socket is full; the rest is not sent, and
\* anon_connect goes on with the next message.
Transmit ==
    /\ link.to # 0 /\ link.left > 0
    /\ \E n \in {2, 4} :
         link' = [link EXCEPT !.left = @ - 1, !.cut = @ \/ n < 4,
                              !.wire = @ \o SubSeq(Message(link.left), 1, n)]
    /\ UNCHANGED <<fifoVars, cmd, lis, arem, lost>>

\* Some of the bytes arrive; cut, when they end inside a length or data.
Arrive ==
    /\ \E n \in 1..Len(link.wire) :
         link' = [link EXCEPT !.in = @ \o SubSeq(link.wire, 1, n),
                              !.wire = Rest(@, n),
                              !.cut = @ \/ link.wire[n][2] \in {1, 3}]
    /\ UNCHANGED <<fifoVars, cmd, lis, arem, lost>>

System == DNext /\ UNCHANGED anonVars

Next ==
    \/ Start \/ Quit \/ Crash \/ Request \/ System
    \/ AnonSetOff \/ AnonSetOn \/ AnonSetOnly
    \/ \E v \in {4, 6} : AnonIpver(v)
    \/ \E s \in Subnets : AnonNet(s)
    \/ \E id \in 1..MaxDefs : AnonDef(id) \/ AnonAccept(id)
    \/ \E k \in 1..MaxKids :
         \/ Listen(k) \/ Receive(k) \/ ReadLength(k) \/ ReadData(k) \/ EndSession(k) \/ Die(k)
         \/ \E peer \in Peers : Connect(k, peer) \/ ConnectFailed(k, peer)
    \/ Transmit \/ Arrive

Spec == Init /\ [][Next]_vars

-----------------------------------------------------------------------------
(* Properties                                                              *)

(* As long as no listener was forked while one was running, and none        *)
(* outlived its user interface, the settings apply to every listener that   *)
(* has not been told to end: there is one at most and anonpid names it,     *)
(* there is none after OFF or quit, and after ONLY with a subnet its session *)
(* is with a peer of that subnet or of the other version of IP, though it   *)
(* tests its own copy of the settings (p3command.c handle_session,          *)
(* p3anonymous.c anon_handler and p3validate).  A listener that was sent    *)
(* SIGTERM and has not ended yet still admits by its copy.                  *)
SettingsApply ==
    ~lost => \A k \in Present :
        /\ k = cmd.pid /\ cmd.set
        /\ cmd.net /\ cmd.srdy /\ lis[k].up /\ lis[k].peer.ver = cmd.ver =>
              lis[k].peer.sub = cmd.sub

(* What the listener parses is the data of one message, whole, unless the   *)
(* session has ended or the network has cut a length or data in two         *)
(* (p3net.c net_receive).                                                   *)
Framed ==
    \A k \in kids :
      lis[k].last # <<>> /\ lis[k].up /\ ~link.cut =>
        \E m \in 1..MaxMsgs : lis[k].last = <<<<m, 3>>, <<m, 4>>>>
=============================================================================
