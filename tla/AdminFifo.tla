------------------------------ MODULE AdminFifo ------------------------------
(***************************************************************************)
(* The requests a user interface sends to the system application over the  *)
(* two administration FIFOs (ui_src/p3fifo.c, src/p3admin.c and the loop   *)
(* of system_handler), with processes that start, stop, crash and are      *)
(* killed by a write nobody reads.                                         *)
(*                                                                         *)
(* A message is written in three writes: the FIFO header ("h"), the        *)
(* communication structure ("c") and its data ("d").  A reader takes what  *)
(* is there: its reads commute with the writes that follow them, so that   *)
(* get_request and get_response are one step each.  A read that does not   *)
(* start at a header takes some of the cells and gives any result.  Only   *)
(* the level 1 FIFOs are used: the user interface has the level 1 wired in.*)
(***************************************************************************)
EXTENDS Naturals, Sequences, FiniteSets

CONSTANTS
    Roles,    \* the builds: "primary", "secondary" and "android"
    MaxReq,   \* bound: requests of one user interface
    MaxLife,  \* bound: user interfaces started
    MaxUp,    \* bound: starts of the system application
    FdMax     \* bound: descriptors the system application has for answers

ASSUME FifoAssumption ==
    /\ Roles \subseteq {"primary", "secondary", "android"}
    /\ {MaxReq, MaxLife, MaxUp, FdMax} \subseteq Nat

VARIABLES
    role,  \* which build runs
    u2s,   \* the FIFO from the user interface to the system application
    s2u,   \* the FIFO back
    ui,    \* the user interface: its step, p3admin.ID, its status
    d,     \* the system application
    kids,  \* the listeners the user interface has forked: they inherit its FIFOs
    ev     \* history: "disturbed" by a timeout, by a read of part of a message or
           \* by a process that was stopped; "sigpipe" when one was killed by its
           \* own write; "leftover" when a user interface found a FIFO in use, or
           \* the system application about to close them

fifoVars == <<role, u2s, s2u, ui, d, kids, ev>>

Cell(k, id, life) == [k |-> k, id |-> id, life |-> life]

\* Who has an end of a FIFO open.
UIOpen(u, ks) == u.pc # "down" \/ ks # {}
DReads(p) == p.pc \notin {"down", "reopen"}
DWrites(p) == p.out \/ p.leak > 0

\* The system drops what is in a FIFO when its last end is closed.
Kept(q, open) == IF open THEN q ELSE <<>>

\* The ends after a step that leaves the user interface, the listeners and
\* the system application in these states.
Ends(u, ks, p) ==
    /\ ui' = [u EXCEPT !.seen = u.pc # "down" /\ (u.seen \/ DWrites(p))]
    /\ kids' = ks
    /\ d' = [p EXCEPT !.seen = DReads(p) /\ (p.seen \/ UIOpen(u, ks))]

Flow(u, ks, p, up, down) ==
    /\ Ends(u, ks, p)
    /\ u2s' = Kept(up, UIOpen(u, ks) \/ DReads(p))
    /\ s2u' = Kept(down, UIOpen(u, ks) \/ DWrites(p))

DownUI(u) == [u EXCEPT !.pc = "down", !.stat = "none"]
DownD(ups) == [pc |-> "down", out |-> FALSE, gid |-> TRUE, leak |-> 0,
               req |-> <<0, 0>>, seen |-> FALSE, ups |-> ups]

FifoInit ==
    /\ role \in Roles
    /\ u2s = <<>> /\ s2u = <<>>
    /\ ui = [pc |-> "down", id |-> 1, life |-> 0, stat |-> "none", seen |-> FALSE]
    /\ d = DownD(0)
    /\ kids = {}
    /\ ev = {}

-----------------------------------------------------------------------------
(* The user interface                                                      *)

\* init_admin and setup_admin: the numbering restarts, openFIFO opens s2u and
\* then u2s, which fails when the system application is not reading it.
UIStart ==
    /\ ui.pc = "down" /\ ui.life < MaxLife
    /\ DReads(d)
    /\ Flow([pc |-> "idle", id |-> 1, life |-> ui.life + 1, stat |-> "none",
             seen |-> FALSE], kids, d, u2s, s2u)
    /\ ev' = IF u2s = <<>> /\ s2u = <<>> /\ d.pc \in {"loop", "sleep"}
             THEN ev ELSE ev \cup {"leftover"}
    /\ UNCHANGED role

\* A write to u2s; nothing handles the SIGPIPE of a write that nobody reads.
UIWrites(k, next) ==
    \/ /\ DReads(d)
       /\ Flow([ui EXCEPT !.pc = next, !.stat = "none"], kids, d,
               Append(u2s, Cell(k, ui.id, ui.life)), s2u)
       /\ UNCHANGED <<role, ev>>
    \/ /\ ~DReads(d)
       /\ Flow(DownUI(ui), kids, d, u2s, s2u)
       /\ ev' = ev \cup {"sigpipe"}
       /\ UNCHANGED role

SendHeader == ui.pc = "idle" /\ ui.id <= MaxReq /\ UIWrites("h", "comm")
SendComm == ui.pc = "comm" /\ UIWrites("c", "data")
SendData == ui.pc = "data" /\ UIWrites("d", "wait")

\* The request ends; handle_command goes on with the next number.
Done(stat, down) ==
    Flow([ui EXCEPT !.pc = "idle", !.id = @ + 1, !.stat = stat], kids, d, u2s, down)

\* select reports data or, once the system application has written and gone,
\* the end of the file; the answer is read 10 ms later.
Ready == s2u # <<>> \/ (ui.seen /\ ~DWrites(d))

Wait ==
    /\ ui.pc = "wait" /\ Ready
    /\ ui' = [ui EXCEPT !.pc = "read"]
    /\ UNCHANGED <<role, u2s, s2u, d, kids, ev>>

Timeout ==
    /\ ui.pc = "wait" /\ ~Ready
    /\ Done("failed", s2u)
    /\ ev' = ev \cup {"disturbed"}
    /\ UNCHANGED role

IsMessage(q) ==
    /\ q[1].k = "h"
    /\ \A i \in 1..(IF Len(q) < 3 THEN Len(q) ELSE 3) :
         /\ q[i].k = <<"h", "c", "d">>[i]
         /\ q[i].id = q[1].id /\ q[i].life = q[1].life

Rest(q, n) == SubSeq(q, n + 1, Len(q))

\* Mutant: the identification of the answer is not compared.
GetResponseAnyID ==
    /\ ui.pc = "read" /\ s2u # <<>>
    /\ Done(IF Len(s2u) < 3 THEN "failed"
            ELSE IF Head(s2u).life = ui.life /\ Head(s2u).id = ui.id THEN "ok" ELSE "stale",
            Rest(s2u, IF Len(s2u) < 3 THEN Len(s2u) ELSE 3))
    /\ UNCHANGED <<role, ev>>

\* "ok", "stale" (the answer to another user interface's request of that
\* number), "other" (a number that is not the request's: its data stays in
\* the FIFO) and "empty" (nothing, or too small a length) all return 0.
GetResponse ==
    /\ ui.pc = "read"
    /\ \/ s2u = <<>> /\ Done("empty", s2u)
       \/ /\ s2u # <<>> /\ IsMessage(s2u)
          /\ LET whole == Len(s2u) >= 3
                 mine == s2u[1].id = ui.id
             IN  CASE Len(s2u) = 1 -> Done("failed", <<>>)
                   [] Len(s2u) > 1 /\ ~mine -> Done("other", Rest(s2u, 2))
                   [] Len(s2u) = 2 /\ mine -> Done("failed", <<>>)
                   [] whole /\ mine ->
                        Done(IF s2u[1].life = ui.life THEN "ok" ELSE "stale", Rest(s2u, 3))
       \/ /\ s2u # <<>> /\ ~IsMessage(s2u)
          /\ \E n \in 1..Len(s2u), stat \in {"failed", "empty", "other"} :
               Done(stat, Rest(s2u, n))
    /\ ev' = IF s2u # <<>> /\ Len(s2u) < 3 THEN ev \cup {"disturbed"} ELSE ev
    /\ UNCHANGED role

\* Killed, at any point.
UICrash ==
    /\ ui.pc # "down"
    /\ Flow(DownUI(ui), kids, d, u2s, s2u)
    /\ ev' = ev \cup {"disturbed"}
    /\ UNCHANGED role

-----------------------------------------------------------------------------
(* The system application                                                  *)

\* init_admin; openFIFO does without a reader of s2u.
InitAdmin(next) ==
    /\ d.pc = "down" /\ d.ups < MaxUp
    /\ Flow(ui, kids, [DownD(d.ups + 1) EXCEPT !.pc = next, !.out = UIOpen(ui, kids)],
            u2s, s2u)
    /\ UNCHANGED <<role, ev>>

\* Only the primary's main goes on to system_handler: the secondaries sleep
\* with the FIFOs open and never read a request.
PriMain == role = "primary" /\ InitAdmin("loop")
SecMain == role = "secondary" /\ InitAdmin("sleep")
AndMain == role = "android" /\ InitAdmin("sleep")

DStop ==
    /\ d.pc # "down"
    /\ Flow(ui, kids, DownD(d.ups), u2s, s2u)
    /\ ev' = ev \cup {"disturbed"}
    /\ UNCHANGED role

\* system_handler closes both FIFOs when admin_handler fails.
Failed(p) == [p EXCEPT !.pc = "close"]

\* Mutant: the length of what was read is not tested.
GetRequestShort ==
    /\ d.pc = "loop" /\ u2s # <<>>
    /\ Flow(ui, kids, [d EXCEPT !.pc = "answer", !.req = <<u2s[1].id, u2s[1].life>>],
            <<>>, s2u)
    /\ UNCHANGED <<role, ev>>

\* select does not wait for the rest of a request: one that is not complete
\* yet is dropped, and what follows is read as if it were a header.  A FIFO
\* whose writers have gone is ready, and empty, for ever.
GetRequest ==
    /\ d.pc = "loop"
    /\ \/ /\ u2s = <<>> /\ d.seen /\ ~UIOpen(ui, kids)
          /\ Flow(ui, kids, Failed(d), u2s, s2u)
          /\ UNCHANGED ev
       \/ /\ u2s # <<>> /\ IsMessage(u2s)
          /\ \/ /\ Len(u2s) < 3
                /\ Flow(ui, kids, Failed(d), <<>>, s2u)
                /\ ev' = ev \cup {"disturbed"}
             \/ /\ Len(u2s) >= 3
                /\ Flow(ui, kids, [d EXCEPT !.pc = "open", !.req = <<u2s[1].id, u2s[1].life>>],
                        Rest(u2s, 3), s2u)
                /\ UNCHANGED ev
       \/ /\ u2s # <<>> /\ ~IsMessage(u2s)
          /\ \E n \in 1..Len(u2s), p \in {Failed(d), [d EXCEPT !.pc = "open", !.req = <<0, 0>>]} :
               Flow(ui, kids, p, Rest(u2s, n), s2u)
          /\ UNCHANGED ev
    /\ UNCHANGED role

\* admin_handler opens s2u when the system application had no reader at the
\* start, and keeps the descriptor in msgdata only: it is never closed.
OpenOut ==
    /\ d.pc = "open"
    /\ LET canopen == UIOpen(ui, kids) /\ d.leak < FdMax
           p == IF d.out \/ ~canopen THEN d ELSE [d EXCEPT !.leak = @ + 1]
       IN  Flow(ui, kids,
                IF (d.out \/ canopen) /\ d.gid THEN [p EXCEPT !.pc = "answer"] ELSE Failed(p),
                u2s, s2u)
    /\ UNCHANGED <<role, ev>>

\* A write of send_response; nothing handles its SIGPIPE either.
DWrite(k, next) ==
    \/ /\ UIOpen(ui, kids)
       /\ Flow(ui, kids, [d EXCEPT !.pc = next], u2s,
               Append(s2u, Cell(k, d.req[1], d.req[2])))
       /\ UNCHANGED <<role, ev>>
    \/ /\ ~UIOpen(ui, kids)
       /\ Flow(ui, kids, DownD(d.ups), u2s, s2u)
       /\ ev' = ev \cup {"sigpipe"}
       /\ UNCHANGED role

AnswerHeader == d.pc = "answer" /\ DWrite("h", "comm")
AnswerComm == d.pc = "comm" /\ DWrite("c", "data")
AnswerData == d.pc = "data" /\ DWrite("d", "loop")

CloseFIFO ==
    /\ d.pc = "close"
    /\ Flow(ui, kids, [d EXCEPT !.pc = "reopen", !.out = FALSE], u2s, s2u)
    /\ UNCHANGED <<role, ev>>

\* openFIFO after a failure.  The group is copied from a structure that was
\* not filled in when it was known already: any group, so any comparison.
Reopen ==
    /\ d.pc = "reopen"
    /\ \E gid \in BOOLEAN :
         Flow(ui, kids, [d EXCEPT !.pc = "loop", !.gid = gid,
                                  !.out = UIOpen(ui, kids) /\ d.leak < FdMax], u2s, s2u)
    /\ UNCHANGED <<role, ev>>

DNext == \/ PriMain \/ SecMain \/ AndMain \/ DStop \/ GetRequest \/ OpenOut
         \/ AnswerHeader \/ AnswerComm \/ AnswerData \/ CloseFIFO \/ Reopen
UINext == \/ SendHeader \/ SendComm \/ SendData \/ Wait \/ Timeout \/ GetResponse

-----------------------------------------------------------------------------
(* Properties                                                              *)

(* Until something disturbs the exchange, every cell in either FIFO belongs *)
(* to the request the user interface is working on, and a request and an    *)
(* answer are never in flight together (p3fifo.c send_request, p3admin.c    *)
(* admin_handler).                                                          *)
InStep ==
    ev = {} =>
      /\ \A q \in {u2s, s2u} : \A i \in 1..Len(q) : q[i].id = ui.id /\ q[i].life = ui.life
      /\ u2s = <<>> \/ s2u = <<>>
      /\ s2u # <<>> => ui.pc \in {"wait", "read"}

(* A status of 0 means that the system application answered this request    *)
(* (send_request: "0 = OK"), unless an answer was late or cut short, or one *)
(* of the two had been killed or left something in a FIFO.                  *)
Answered ==
    /\ ui.stat = "empty" => ev # {} \/ ui.life > 1
    /\ ui.stat = "other" => ev # {}
    /\ ui.stat = "stale" => "leftover" \in ev
=============================================================================
