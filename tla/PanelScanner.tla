---------------------------- MODULE PanelScanner ----------------------------
(***************************************************************************)
(* The panel's control of the scanner (firmware/jc8012p4a1/main/scanner.c):*)
(* scanner_task, which owns the UDP socket, with the tasks that queue      *)
(* commands for it: the UI's handlers (ui.c), POST /api/control/key        *)
(* (web.c) and the reboot (main.c).                                        *)
(*                                                                         *)
(* An exchange (transact) is one step that sends and one that reads the    *)
(* answer; everyone else runs in between.  The network may lose either     *)
(* datagram or deliver the answer after the timeout, when it may answer    *)
(* the next request of the same name.  The scanners, and time, are         *)
(* external: a poll is due when its timer says so.  Menus are left out, and *)
(* with them what F does there.                                            *)
(***************************************************************************)
EXTENDS Integers, Sequences, FiniteSets

CONSTANTS
    Hosts, NoHost,  \* addresses that answer the protocol; no address
    Sds,            \* those whose model is an SDS
    Saved,          \* what the flash may hold for an address
    Keys,           \* favourites quick keys in use
    Codes,          \* keys pressed on their own; "F" is the FUNC key
    QueueLen,       \* xQueueCreate(8, ...)
    FailLimit,      \* polls that may fail before the scanner is offline
    MissLimit,      \* GWF frames that may be missed
    PopupTries,     \* readings SC_FUNC waits for a popup to go
    MaxEvents       \* bound: calls of the UI, the web server and the reboot,
                    \* losses, delays, drops of Wi-Fi or power, popups

ASSUME PanelScannerAssumption ==
    /\ NoHost \notin Hosts /\ Sds \subseteq Hosts
    /\ Saved \subseteq Hosts \cup {NoHost}
    /\ QueueLen \in Nat \ {0} /\ FailLimit \in Nat \ {0} /\ MissLimit \in Nat \ {0}
    /\ PopupTries \in Nat \ {0} /\ MaxEvents \in Nat

VARIABLES
    q, pc, cmd,             \* s_q; where the task is; the command it carries out
    due,                    \* the polls whose time has come
    needMdl, needFqk, miss, \* MDL is not yet answered; need_fqk; wf_miss
    tries, fon,             \* SC_FUNC's readings and fon
    to,                     \* transact: the address asked, or none
    wire,                   \* datagrams on their way to the socket
    st,                     \* s_st and s_fail_count
    ui,                     \* what ui.c keeps of it
    boot,                   \* reboot_task
    netUp, world,           \* s_net_up; the scanners
    events,                 \* the bound's counter
    did, hurt, doubt, src   \* history, see below

\* did: the running command's requests the scanner carried out, in order.
\* hurt: an exchange of this command was not answered by its own reply.
\* doubt: scanners whose mode the panel cannot know: the answer to JPM was
\*        missing or another's, or the address was changed in waterfall mode, or
\*        the panel restarted without waiting for the stop.
\* src: the scanner the quick keys in s_st were read from, if it was asked.
historyVars == <<did, hurt, doubt, src>>
localVars == <<needMdl, needFqk, miss, tries, fon>>
vars == <<q, pc, cmd, due, localVars, to, wire, st, ui, boot, netUp, world,
          events, historyVars>>

-----------------------------------------------------------------------------
(* Commands, requests and datagrams.                                       *)

Ops == {"KEY", "FUNC", "STEP", "VOL", "FQK_GET", "FQK_SET", "WF_ON", "WF_OFF",
        "DISCOVER", "SHUTDOWN"}
NoCmd == [op |-> "NONE", code |-> "x", fqk |-> {}]
Cmd(op) == [NoCmd EXCEPT !.op = op]
Commands == [op : Ops, code : Codes \cup {"x"}, fqk : SUBSET Keys]

FuncPCs == {"fgsi", "fshift", "fkey"}
WfPCs == {"jwf", "pon", "jback", "goff", "poff", "jscn"}
Timers == {"gwf", "sts", "gsi"}
Polls == <<"mdl", "fget", "gwf", "sts", "gsi">>
Asking == {"key", "nxt", "rot", "vol", "fset"} \cup FuncPCs \cup WfPCs
          \cup {Polls[i] : i \in 1..5}
PCs == Asking \cup {"top", "disc", "done"}
Presses == {"key", "fshift", "fkey", "rot"}
Effects == Presses \cup {"bare", "nxt", "vol", "fset"} \cup WfPCs

\* The command name a reply is matched by: transact's exp.
Name(p) ==
    CASE p \in Presses -> "KEY" [] p \in {"gsi", "fgsi"} -> "GSI"
      [] p \in {"gwf", "goff"} -> "GWF" [] p \in {"fget", "fset"} -> "FQK"
      [] p \in {"jwf", "jback", "jscn"} -> "JPM" [] p \in {"pon", "poff"} -> "PWF"
      [] OTHER -> p

Views == [fqk : SUBSET Keys, func : BOOLEAN, popup : BOOLEAN]
NoView == [fqk |-> {}, func |-> FALSE, popup |-> FALSE]

Scanners == [up : BOOLEAN, mode : {"scan", "wf"}, fqk : SUBSET Keys,
             func : BOOLEAN, popup : BOOLEAN]
Fresh == [up |-> TRUE, mode |-> "scan", fqk |-> {}, func |-> FALSE,
          popup |-> FALSE]

Datagrams == [from : Hosts, name : {Name(p) : p \in Asking}, kind : {"data", "ok", "err"},
              view : Views, when : {"prompt", "late", "old"}]

Snapshots == [ip : Hosts \cup {NoHost}, found : Hosts \cup {NoHost}, online : BOOLEAN,
              fails : 0..FailLimit, wf : BOOLEAN, index : BOOLEAN, fqk : SUBSET Keys,
              valid : BOOLEAN, unseen : BOOLEAN]
\* scanner_init's s_st, with the saved address.
Started(h) == [ip |-> h, found |-> NoHost, online |-> FALSE, fails |-> 0, wf |-> FALSE,
               index |-> FALSE, fqk |-> {}, valid |-> FALSE, unseen |-> FALSE]
StartedUi == [fqk |-> {}, valid |-> FALSE, wf |-> FALSE, dropped |-> FALSE]

TypeOK ==
    /\ q \in Seq(Commands) /\ Len(q) <= QueueLen
    /\ pc \in PCs /\ cmd \in Commands \cup {NoCmd}
    /\ due \subseteq Timers
    /\ needMdl \in BOOLEAN /\ needFqk \in BOOLEAN /\ miss \in 0..MissLimit
    /\ tries \in 0..PopupTries /\ fon \in BOOLEAN
    /\ to \in Hosts \cup {NoHost}
    /\ wire \subseteq Datagrams /\ st \in Snapshots
    /\ ui \in [fqk : SUBSET Keys, valid : BOOLEAN, wf : BOOLEAN, dropped : BOOLEAN]
    /\ boot \in {"none", "asked", "sent", "answered", "undone", "clean", "cut"}
    /\ netUp \in BOOLEAN /\ world \in [Hosts -> Scanners]
    /\ events \in 0..MaxEvents
    /\ did \in Seq(Effects) /\ hurt \in BOOLEAN
    /\ doubt \subseteq Hosts /\ src \in Hosts \cup {NoHost}

\* After scanner_init with the saved address, if any.
Init ==
    /\ q = <<>> /\ pc = "top" /\ cmd = NoCmd /\ due = Timers
    /\ needMdl = TRUE /\ needFqk = TRUE /\ miss = 0 /\ tries = 0 /\ fon = FALSE
    /\ to = NoHost /\ wire = {}
    /\ \E h \in Saved : st = Started(h)
    /\ ui = StartedUi
    /\ boot = "none" /\ netUp = FALSE
    /\ world = [h \in Hosts |-> Fresh]
    /\ events = 0
    /\ did = <<>> /\ hurt = FALSE /\ doubt = {} /\ src = NoHost

Running == boot \notin {"clean", "cut"}

-----------------------------------------------------------------------------
(* The scanner (external): what it does with a request, what it answers.   *)

\* A key pressed while a popup is shown only closes it.
Pressed(w, code) ==
    IF w.popup THEN [w EXCEPT !.popup = FALSE]
    ELSE [w EXCEPT !.func = (code = "F") /\ ~@]

Obeys(w, p) ==
    CASE p \in {"rot", "fkey"} -> Pressed(w, "x")
      [] p = "fshift" -> Pressed(w, "F")
      [] p = "key" -> Pressed(w, cmd.code)
      [] p = "fset" -> [w EXCEPT !.fqk = cmd.fqk]
      [] p = "jwf" -> [w EXCEPT !.mode = "wf"]
      [] p \in {"jback", "jscn"} -> [w EXCEPT !.mode = "scan"]
      [] OTHER -> w

\* NXT and PRV are refused when the index is no longer the current channel.
AnswerKinds(w, p) ==
    CASE p \in {"mdl", "fget", "sts", "gsi", "fgsi"} -> {"data"}
      [] p = "gwf" -> IF w.mode = "wf" THEN {"data"} ELSE {"err"}
      [] p = "nxt" -> {"ok", "err"}
      [] OTHER -> {"ok"}

ViewOf(w, p) ==
    CASE p = "fget" -> [NoView EXCEPT !.fqk = w.fqk]
      [] p \in {"gsi", "fgsi"} ->
            [NoView EXCEPT !.func = w.func, !.popup = w.popup]
      [] OTHER -> NoView

\* A document is one datagram here: transact waits for its last fragment.
Answer(h, p, kind, when) ==
    [from |-> h, name |-> Name(p), kind |-> kind, when |-> when,
     view |-> IF kind = "data" THEN ViewOf(world[h], p) ELSE NoView]

Reachable(h) == netUp /\ world[h].up

-----------------------------------------------------------------------------
(* transact.                                                               *)

CommandRequest == cmd # NoCmd /\ pc \in Effects
\* The second key of SC_FUNC, taken without FUNC or by a popup, is another.
Effect(w, p) == IF p = "fkey" /\ (w.popup \/ ~w.func) THEN "bare" ELSE p

\* What drain() finds has arrived goes; anything else may still come.
Send(fate) ==
    /\ Running /\ pc \in Asking /\ to = NoHost /\ st.ip # NoHost
    /\ to' = st.ip
    /\ \E kept \in SUBSET wire, kind \in AnswerKinds(world[st.ip], pc) :
        LET left == {[d EXCEPT !.when = "old"] : d \in kept}
        IN IF Reachable(st.ip)
           THEN /\ wire' = left \cup {Answer(st.ip, pc, kind, fate)}
                /\ world' = [world EXCEPT ![st.ip] = Obeys(@, pc)]
                /\ did' = IF CommandRequest /\ kind = "ok"
                          THEN Append(did, Effect(world[st.ip], pc)) ELSE did
           ELSE wire' = left /\ UNCHANGED <<world, did>>
    /\ UNCHANGED <<q, pc, cmd, due, localVars, st, ui, boot, netUp, hurt, doubt, src>>

SendAnswered == Send("prompt") /\ UNCHANGED events
\* The answer comes after the timeout, or, dropped by the next exchange, never.
\* A request is lost when the Wi-Fi drops and returns about it.
SendFails ==
    /\ events < MaxEvents /\ events' = events + 1
    /\ st.ip # NoHost /\ Reachable(st.ip) /\ Send("late")

\* Another address's datagrams are skipped; ERR ends any exchange.
Readable(d) == d.from = to /\ d.when # "late" /\ (d.name = Name(pc) \/ d.kind = "err")

\* What transact can return to the code at p now, and what it leaves on the wire.
TimedOut == [kind |-> "none", view |-> NoView, own |-> FALSE, rest |-> wire]
Read(d) == [kind |-> d.kind, view |-> d.view, own |-> d.when = "prompt", rest |-> wire \ {d}]
Results(p) ==
    IF pc # p \/ ~Running THEN {}
    ELSE IF to = NoHost THEN IF st.ip = NoHost THEN {TimedOut} ELSE {}
    ELSE {Read(d) : d \in {e \in wire : Readable(e)}}
         \cup (IF \E e \in wire : e.when = "prompt" THEN {} ELSE {TimedOut})

\* transact returns r.  After a timeout every short timer is due.
Returns(r) ==
    /\ wire' = r.rest /\ to' = NoHost
    /\ hurt' = (hurt \/ (cmd # NoCmd /\ ~r.own))
    /\ UNCHANGED <<q, cmd, ui, boot, netUp, world, events, did>>

Expire(r) == IF r.kind = "none" THEN Timers ELSE {}
AfterKey(r) == (due \cup {"sts"} \cup Expire(r)) \ {"gsi"}

\* note_result
Noted(s, ok) ==
    IF ok THEN [s EXCEPT !.online = TRUE, !.fails = 0]
    ELSE LET n == IF s.fails < FailLimit THEN s.fails + 1 ELSE FailLimit
         IN [s EXCEPT !.fails = n, !.online = @ /\ n < FailLimit]

\* parse_sts and parse_gwf refuse an ERR; parse_gsi takes it for a document with
\* nothing in it.
StsRead(r) == r.kind = "data"
FrameRead(r) == r.kind = "data"
GsiRead(s, r) == [s EXCEPT !.index = r.kind = "data"]

-----------------------------------------------------------------------------
(* scanner_task: the commands.                                             *)

\* Mutant of Entry: a shutdown leaves waterfall mode alone.
FaultyEntry(c) ==
    CASE c.op = "KEY" -> "key" [] c.op = "FUNC" -> "fgsi" [] c.op = "VOL" -> "vol"
      [] c.op = "STEP" -> IF st.index THEN "nxt" ELSE "rot"
      [] c.op = "FQK_SET" -> "fset" [] c.op = "DISCOVER" -> "disc"
      [] c.op = "WF_ON" /\ ~st.wf -> "jwf"
      [] c.op = "WF_OFF" /\ st.wf -> "goff"
      [] OTHER -> "done"

Entry(c) ==
    CASE c.op = "KEY" -> "key" [] c.op = "FUNC" -> "fgsi" [] c.op = "VOL" -> "vol"
      [] c.op = "STEP" -> IF st.index THEN "nxt" ELSE "rot"
      [] c.op = "FQK_SET" -> "fset" [] c.op = "DISCOVER" -> "disc"
      [] c.op = "WF_ON" /\ ~st.wf -> "jwf"
      [] c.op \in {"WF_OFF", "SHUTDOWN"} /\ st.wf -> "goff"
      [] OTHER -> "done"

Take ==
    /\ Running /\ pc = "top" /\ q # <<>>
    /\ cmd' = Head(q) /\ q' = Tail(q) /\ pc' = Entry(Head(q))
    /\ needFqk' = (needFqk \/ Head(q).op = "FQK_GET")
    /\ boot' = IF boot = "answered" /\ Entry(Head(q)) = "jwf" THEN "undone" ELSE boot
    /\ UNCHANGED <<due, needMdl, miss, tries, fon, to, wire, st, ui, netUp, world, events,
                   historyVars>>

\* The end of the loop: the semaphore of SC_SHUTDOWN is given.
Finish ==
    /\ Running /\ pc = "done" /\ pc' = "top" /\ cmd' = NoCmd
    /\ tries' = 0 /\ fon' = FALSE /\ did' = <<>> /\ hurt' = FALSE
    /\ boot' = IF cmd.op = "SHUTDOWN" /\ boot = "sent" THEN "answered" ELSE boot
    /\ UNCHANGED <<q, due, needMdl, needFqk, miss, to, wire, st, ui, netUp, world, events,
                   doubt, src>>

\* Mutant of KeyReturns: a key that is not acknowledged is sent again.
FaultyKeyReturns == \E r \in Results("key") :
    /\ Returns(r) /\ due' = AfterKey(r)
    /\ IF r.kind = "ok" THEN st' = Noted(st, TRUE) /\ pc' = "done"
                        ELSE st' = st /\ pc' = "key"
    /\ UNCHANGED <<localVars, doubt, src>>

KeyReturns == \E r \in Results("key") :
    /\ Returns(r) /\ pc' = "done" /\ due' = AfterKey(r)
    /\ st' = IF r.kind = "ok" THEN Noted(st, TRUE) ELSE st
    /\ UNCHANGED <<localVars, doubt, src>>

\* Mutant of FuncReads: one reading, popup or not.
FaultyFuncReads == \E r \in Results("fgsi") :
    /\ Returns(r)
    /\ st' = IF r.kind = "none" THEN st ELSE GsiRead(st, r)
    /\ fon' = IF r.kind = "none" THEN fon ELSE r.view.func
    /\ tries' = 1 /\ pc' = IF fon' THEN "fkey" ELSE "fshift"
    /\ due' = due \cup Expire(r)
    /\ UNCHANGED <<needMdl, needFqk, miss, doubt, src>>

\* Mutant of FuncReads: waits as long as the popup stays.
PatientFuncReads == \E r \in Results("fgsi") :
    /\ Returns(r)
    /\ st' = IF r.kind = "none" THEN st ELSE GsiRead(st, r)
    /\ fon' = IF r.kind = "none" THEN fon ELSE r.view.func
    /\ UNCHANGED tries
    /\ pc' = IF r.kind # "none" /\ r.view.popup THEN "fgsi"
             ELSE IF fon' THEN "fkey" ELSE "fshift"
    /\ due' = due \cup Expire(r)
    /\ UNCHANGED <<needMdl, needFqk, miss, doubt, src>>

\* Waits a popup out, PopupTries readings at most; a timeout ends the wait
\* with fon as it is.
FuncReads == \E r \in Results("fgsi") :
    /\ Returns(r)
    /\ st' = IF r.kind = "none" THEN st ELSE GsiRead(st, r)
    /\ fon' = IF r.kind = "none" THEN fon ELSE r.view.func
    /\ tries' = tries + 1
    /\ pc' = IF r.kind # "none" /\ r.view.popup /\ tries + 1 < PopupTries THEN "fgsi"
             ELSE IF fon' THEN "fkey" ELSE "fshift"
    /\ due' = due \cup Expire(r)
    /\ UNCHANGED <<needMdl, needFqk, miss, doubt, src>>

FuncShifts == \E r \in Results("fshift") :
    /\ Returns(r)
    /\ IF r.kind = "ok" THEN pc' = "fkey" /\ due' = due
                        ELSE pc' = "done" /\ due' = AfterKey(r)
    /\ UNCHANGED <<st, localVars, doubt, src>>

FuncPresses == \E r \in Results("fkey") :
    /\ Returns(r) /\ pc' = "done" /\ due' = AfterKey(r)
    /\ st' = IF r.kind = "ok" THEN Noted(st, TRUE) ELSE st
    /\ UNCHANGED <<localVars, doubt, src>>

\* Mutant of StepReturns: the rotary as well.
FaultyStepReturns == \E r \in Results("nxt") :
    /\ Returns(r) /\ pc' = "rot" /\ st' = st /\ due' = due \cup Expire(r)
    /\ UNCHANGED <<localVars, doubt, src>>

\* NXT or PRV with the index last read; the rotary when that is not confirmed.
StepReturns == \E r \in Results("nxt") :
    /\ Returns(r)
    /\ IF r.kind = "ok" THEN pc' = "done" /\ st' = Noted(st, TRUE) /\ due' = AfterKey(r)
                        ELSE pc' = "rot" /\ st' = st /\ due' = due \cup Expire(r)
    /\ UNCHANGED <<localVars, doubt, src>>

RotaryReturns == \E r \in Results("rot") :
    /\ Returns(r) /\ pc' = "done" /\ due' = AfterKey(r)
    /\ st' = IF r.kind = "ok" THEN Noted(st, TRUE) ELSE st
    /\ UNCHANGED <<localVars, doubt, src>>

\* SC_VOL; SC_SQL is the same for the other slider.
VolReturns == \E r \in Results("vol") :
    /\ Returns(r) /\ pc' = "done" /\ due' = (due \cup Expire(r)) \ {"gsi"}
    /\ UNCHANGED <<st, localVars, doubt, src>>

\* Mutant of FqkRead: fqk_seq stays.
FaultyFqkRead(keys) == [st EXCEPT !.fqk = keys, !.valid = TRUE]
\* fqk_seq moves: the UI has not seen these.
FqkRead(keys) == [st EXCEPT !.fqk = keys, !.valid = TRUE, !.unseen = TRUE]
Source(r) == IF r.own THEN to ELSE NoHost

\* Mutant of FqkSetReturns: the write is not read back.
FaultyFqkSet == \E r \in Results("fset") :
    /\ Returns(r) /\ pc' = "done" /\ due' = due \cup Expire(r)
    /\ IF r.kind = "ok" THEN st' = FqkRead(cmd.fqk) /\ src' = Source(r)
                        ELSE UNCHANGED <<st, src>>
    /\ UNCHANGED <<localVars, doubt>>

FqkSetReturns == \E r \in Results("fset") :
    /\ Returns(r) /\ pc' = "done" /\ due' = due \cup Expire(r)
    /\ IF r.kind = "ok" THEN st' = FqkRead(cmd.fqk) /\ src' = Source(r)
                        ELSE UNCHANGED <<st, src>>
    /\ needFqk' = TRUE
    /\ UNCHANGED <<needMdl, miss, tries, fon, doubt>>

-----------------------------------------------------------------------------
(* wf_start_sequence and wf_stop_sequence.  Any answer to JPM or PWF will  *)
(* do; the stop goes on whatever is answered.                              *)

Ends == pc' = IF cmd = NoCmd THEN "top" ELSE "done"

\* The mode of the scanner asked is known again when its own answer to
\* JPM,SCN_MODE is read.
Doubts(r, confirms) ==
    doubt' = IF to = NoHost THEN doubt
             ELSE IF ~r.own THEN doubt \cup {to}
             ELSE IF confirms THEN doubt \ {to} ELSE doubt

WfModeReturns == \E r \in Results("jwf") :
    /\ Returns(r) /\ Doubts(r, FALSE) /\ due' = due \cup Expire(r)
    /\ pc' = IF r.kind = "none" THEN "done" ELSE "pon"
    /\ UNCHANGED <<st, localVars, src>>

\* Mutant of WfPowerReturns: no JPM,SCN_MODE after a failure.
FaultyWfPower == \E r \in Results("pon") :
    /\ Returns(r) /\ pc' = "done"
    /\ IF r.kind = "none" THEN UNCHANGED <<st, miss>> /\ due' = due \cup Expire(r)
       ELSE st' = [st EXCEPT !.wf = TRUE] /\ miss' = 0 /\ due' = due \cup {"gwf"}
    /\ UNCHANGED <<needMdl, needFqk, tries, fon, doubt, src>>

WfPowerReturns == \E r \in Results("pon") :
    /\ Returns(r)
    /\ IF r.kind = "none"
       THEN UNCHANGED <<st, miss>> /\ due' = due \cup Expire(r) /\ pc' = "jback"
       ELSE /\ st' = [st EXCEPT !.wf = TRUE] /\ miss' = 0 /\ due' = due \cup {"gwf"}
            /\ pc' = "done"
    /\ UNCHANGED <<needMdl, needFqk, tries, fon, doubt, src>>

WfBackReturns == \E r \in Results("jback") :
    /\ Returns(r) /\ Doubts(r, TRUE) /\ pc' = "done" /\ due' = due \cup Expire(r)
    /\ UNCHANGED <<st, localVars, src>>

WfOffReturns == \E r \in Results("goff") \cup Results("poff") :
    /\ Returns(r) /\ pc' = IF pc = "goff" THEN "poff" ELSE "jscn"
    /\ due' = due \cup Expire(r)
    /\ UNCHANGED <<st, localVars, doubt, src>>

ScanModeReturns == \E r \in Results("jscn") :
    /\ Returns(r) /\ Doubts(r, TRUE) /\ Ends
    \* GWF's timer, of no use now, runs out.
    /\ st' = [st EXCEPT !.wf = FALSE] /\ due' = due \cup {"gwf"} \cup Expire(r)
    /\ UNCHANGED <<localVars, src>>

-----------------------------------------------------------------------------
(* The address and discovery.                                              *)

\* scanner_set_ip, less the flash.
Addressed(s, h) == [s EXCEPT !.ip = h, !.online = FALSE, !.fails = 0]
LeavesMode == IF st.ip # NoHost /\ (st.wf \/ pc \in WfPCs) THEN {st.ip} ELSE {}

\* An answer to MDL: an SDS ends the search, another is remembered.
DiscoverHears == \E h \in Hosts :
    /\ Running /\ pc = "disc" /\ Reachable(h) /\ st.found \notin Sds
    /\ st' = [st EXCEPT !.found = h]
    /\ UNCHANGED <<q, pc, cmd, due, localVars, to, wire, ui, boot, netUp, world,
                   events, historyVars>>

\* The search ends at an SDS or at the deadline; what answered last is chosen.
DiscoverEnds ==
    /\ Running /\ pc = "disc" /\ pc' = "done"
    /\ due' = due \cup {"sts", "gsi"} /\ needFqk' = TRUE
    /\ IF st.found = NoHost THEN UNCHANGED <<st, doubt>>
       ELSE st' = [Addressed(st, st.found) EXCEPT !.found = NoHost]
            /\ doubt' = doubt \cup LeavesMode
    /\ UNCHANGED <<q, cmd, needMdl, miss, tries, fon, to, wire, ui, boot, netUp, world,
                   events, did, hurt, src>>

-----------------------------------------------------------------------------
(* scanner_task: polling, when no command waits.                           *)

Wants(poll, online) ==
    CASE poll = "mdl" -> online /\ needMdl
      [] poll = "fget" -> online /\ needFqk
      [] poll = "gwf" -> st.wf /\ "gwf" \in due
      [] OTHER -> poll \in due
\* The first poll wanted of those from number n on.
NextPoll(n, online) ==
    LET wanted == {i \in n..5 : Wants(Polls[i], online)}
    IN IF wanted = {} THEN "top"
       ELSE Polls[CHOOSE i \in wanted : \A j \in wanted : i <= j]

\* Time passes and a timer runs out, GWF's only in waterfall mode: exchanges
\* that are answered take none of it.
Tick ==
    /\ Running /\ pc = "top" /\ q = <<>> /\ ~\E t \in Timers : Wants(t, st.online)
    /\ \E t \in Timers \ due : (t = "gwf" => st.wf) /\ due' = due \cup {t}
    /\ UNCHANGED <<q, pc, cmd, localVars, to, wire, st, ui, boot, netUp, world,
                   events, historyVars>>

PollPauses ==
    /\ Running /\ pc = "top" /\ q = <<>> /\ (~netUp \/ st.ip = NoHost)
    /\ st' = [st EXCEPT !.online = FALSE] /\ due' = due \ {"sts", "gsi"}
    /\ UNCHANGED <<q, pc, cmd, localVars, to, wire, ui, boot, netUp, world,
                   events, historyVars>>

PollStarts ==
    /\ Running /\ pc = "top" /\ q = <<>> /\ netUp /\ st.ip # NoHost
    /\ pc' = NextPoll(1, st.online) /\ pc' # "top"
    /\ UNCHANGED <<q, cmd, due, localVars, to, wire, st, ui, boot, netUp, world,
                   events, historyVars>>

\* The model's name is asked for until it is told, and then in ten minutes.
ModelReturns == \E r \in Results("mdl") :
    /\ Returns(r) /\ due' = due \cup Expire(r) /\ needMdl' = (r.kind # "data")
    /\ pc' = NextPoll(2, TRUE) /\ UNCHANGED <<st, needFqk, miss, tries, fon, doubt, src>>

FqkReturns == \E r \in Results("fget") :
    /\ Returns(r) /\ pc' = NextPoll(3, TRUE) /\ due' = due \cup Expire(r)
    /\ IF r.kind = "data"
       THEN st' = FqkRead(r.view.fqk) /\ src' = Source(r) /\ needFqk' = FALSE
       ELSE UNCHANGED <<st, src, needFqk>>
    /\ UNCHANGED <<needMdl, miss, tries, fon, doubt>>

\* Mutant of FrameReturns: no limit to the frames missed.
FaultyFrameReturns == \E r \in Results("gwf") :
    /\ Returns(r) /\ pc' = "top" /\ miss' = 0
    /\ st' = IF FrameRead(r) THEN Noted(st, TRUE) ELSE st
    /\ due' = (due \ {"gwf"}) \cup Expire(r)
    /\ UNCHANGED <<needMdl, needFqk, tries, fon, doubt, src>>

\* A missed frame does not count against the scanner's being online; after
\* MissLimit of them waterfall mode is left.
FrameReturns == \E r \in Results("gwf") :
    /\ Returns(r)
    /\ IF FrameRead(r)
       THEN st' = Noted(st, TRUE) /\ miss' = 0 /\ pc' = "top"
       ELSE /\ st' = st /\ miss' = IF miss < MissLimit THEN miss + 1 ELSE miss
            /\ pc' = IF miss' >= MissLimit THEN "goff" ELSE "top"
    /\ due' = (due \ {"gwf"}) \cup Expire(r)
    /\ UNCHANGED <<needMdl, needFqk, tries, fon, doubt, src>>

\* Offline, a poll is due less often than it times out.
Rearm(r, poll) == (due \ {poll}) \cup IF st.online THEN Expire(r) ELSE {}

StsReturns == \E r \in Results("sts") :
    /\ Returns(r) /\ pc' = "top"
    /\ st' = Noted(st, StsRead(r)) /\ due' = Rearm(r, "sts")
    /\ UNCHANGED <<localVars, doubt, src>>

GsiReturns == \E r \in Results("gsi") :
    /\ Returns(r) /\ pc' = "top"
    /\ st' = IF r.kind = "data" THEN Noted(GsiRead(st, r), TRUE) ELSE Noted(st, FALSE)
    /\ due' = Rearm(r, "gsi")
    /\ UNCHANGED <<localVars, doubt, src>>

-----------------------------------------------------------------------------
(* The callers.                                                            *)

Room == Len(q) < QueueLen
Event == Running /\ events < MaxEvents /\ events' = events + 1
\* Mutant of Enqueue: the queue grows.
FaultyEnqueue(c) == q' = Append(q, c)
Enqueue(c) == q' = IF Room THEN Append(q, c) ELSE q
Elsewhere == <<pc, cmd, due, localVars, to, wire, netUp, world, did, src>>

\* key_cb: a key, FUNC and a key, the next or the previous channel.
KeyPressed == \E c \in {[Cmd("KEY") EXCEPT !.code = k] : k \in Codes}
                       \cup {Cmd("FUNC"), Cmd("STEP")} :
    /\ Event /\ Enqueue(c) /\ UNCHANGED <<Elsewhere, st, ui, boot, hurt, doubt>>

\* key_post: only when there is room does it answer 200.
KeyPosted == \E k \in Codes :
    /\ Event /\ Room /\ Enqueue([Cmd("KEY") EXCEPT !.code = k])
    /\ UNCHANGED <<Elsewhere, st, ui, boot, hurt, doubt>>

\* vol_cb and sql_cb; the level makes no difference here.
SliderReleased ==
    /\ Event /\ Enqueue(Cmd("VOL"))
    /\ UNCHANGED <<Elsewhere, st, ui, boot, hurt, doubt>>

\* show_page, of the quick keys; fqk_refresh_cb.
KeysShown ==
    /\ Event /\ Enqueue(Cmd("FQK_GET"))
    /\ UNCHANGED <<Elsewhere, st, ui, boot, hurt, doubt>>
KeysRefreshed == KeysShown

\* fqk_cb: the page's copy is changed, and all of it sent, if there is room.
KeyToggled == \E k \in Keys :
    /\ Event /\ ui.valid
    /\ LET keys == (ui.fqk \ {k}) \cup ({k} \ ui.fqk)
       IN  /\ Enqueue([Cmd("FQK_SET") EXCEPT !.fqk = keys])
           /\ ui' = [ui EXCEPT !.fqk = keys, !.dropped = @ \/ ~Room]
    /\ UNCHANGED <<Elsewhere, st, boot, hurt, doubt>>

\* wf_btn_cb: on or off by the last snapshot.
WaterfallPressed ==
    /\ Event /\ Enqueue(Cmd(IF ui.wf THEN "WF_OFF" ELSE "WF_ON"))
    /\ UNCHANGED <<Elsewhere, st, ui, boot, hurt, doubt>>

\* ip_discover_cb, and refresh_cb when there is no address.
DiscoverPressed ==
    /\ Event /\ netUp /\ Enqueue(Cmd("DISCOVER"))
    /\ UNCHANGED <<Elsewhere, st, ui, boot, hurt, doubt>>

\* ip_save_cb: at once, in the UI's task.
AddressSaved == \E h \in Hosts :
    /\ Event /\ st' = Addressed(st, h) /\ doubt' = doubt \cup LeavesMode
    /\ hurt' = (cmd # NoCmd)
    /\ UNCHANGED <<Elsewhere, q, ui, boot>>

\* update_fqk
UpdateFqk(u, s) == IF s.valid THEN [u EXCEPT !.fqk = s.fqk] ELSE u

\* refresh_cb: the snapshot; the quick keys when fqk_seq has moved.
Refresh ==
    /\ Running
    /\ ui' = [(IF st.unseen THEN UpdateFqk(ui, st) ELSE ui)
               EXCEPT !.valid = st.valid, !.wf = st.wf]
    /\ st' = [st EXCEPT !.unseen = FALSE] /\ (ui' # ui \/ st.unseen)
    /\ UNCHANGED <<Elsewhere, q, boot, events, hurt, doubt>>

\* app_reboot, scanner_shutdown, esp_restart.
RebootAsked ==
    /\ Event /\ boot = "none" /\ boot' = "asked"
    /\ UNCHANGED <<Elsewhere, q, st, ui, hurt, doubt>>
ShutdownQueued ==
    /\ boot = "asked" /\ Room /\ Enqueue(Cmd("SHUTDOWN")) /\ boot' = "sent"
    /\ UNCHANGED <<Elsewhere, st, ui, events, hurt, doubt>>
\* After the answer, 6 s without it, or 500 ms of a full queue.
Restart ==
    /\ boot \in {"sent", "answered", "undone"} \/ (boot = "asked" /\ ~Room)
    /\ boot' = IF boot = "answered" THEN "clean" ELSE "cut"
    /\ q' = <<>> /\ pc' = "top" /\ cmd' = NoCmd /\ due' = Timers
    /\ needMdl' = TRUE /\ needFqk' = TRUE /\ miss' = 0 /\ tries' = 0 /\ fon' = FALSE
    /\ to' = NoHost /\ wire' = {} /\ st' = Started(st.ip)
    /\ ui' = StartedUi /\ netUp' = FALSE
    /\ did' = <<>> /\ hurt' = FALSE /\ src' = NoHost
    /\ doubt' = IF boot = "answered" THEN doubt ELSE doubt \cup LeavesMode
    /\ UNCHANGED <<world, events>>
Restarted == ~Running /\ UNCHANGED vars

-----------------------------------------------------------------------------
(* The environment: Wi-Fi (on_link) and the scanners.                      *)

Quiet == <<q, pc, cmd, due, localVars, to, wire, st, ui, boot, did, doubt, src>>

LinkUp == Running /\ ~netUp /\ netUp' = TRUE /\ UNCHANGED <<Quiet, world, events, hurt>>
LinkDown == Event /\ netUp /\ netUp' = FALSE /\ UNCHANGED <<Quiet, world, hurt>>

PowerOff == \E h \in Hosts \cap {st.ip} :
    /\ Event /\ world[h].up /\ world' = [world EXCEPT ![h].up = FALSE]
    /\ hurt' = (cmd # NoCmd)
    /\ UNCHANGED <<Quiet, netUp>>
PowerOn == \E h \in Hosts :
    /\ Running /\ ~world[h].up
    /\ world' = [world EXCEPT ![h] = [@ EXCEPT !.up = TRUE, !.mode = "scan",
                                               !.func = FALSE, !.popup = FALSE]]
    /\ UNCHANGED <<Quiet, netUp, events, hurt>>

PopupOpens == \E h \in Hosts \cap {st.ip} :
    /\ Event /\ ~world[h].popup /\ world' = [world EXCEPT ![h].popup = TRUE]
    /\ hurt' = (cmd # NoCmd)
    /\ UNCHANGED <<Quiet, netUp>>
PopupCloses == \E h \in Hosts :
    /\ Running /\ world[h].popup /\ world' = [world EXCEPT ![h].popup = FALSE]
    /\ UNCHANGED <<Quiet, netUp, events, hurt>>

-----------------------------------------------------------------------------
Command == \/ Take \/ Finish \/ KeyReturns \/ FuncReads \/ FuncShifts \/ FuncPresses
           \/ StepReturns \/ RotaryReturns \/ VolReturns \/ FqkSetReturns
           \/ WfModeReturns \/ WfPowerReturns \/ WfBackReturns \/ WfOffReturns
           \/ ScanModeReturns \/ DiscoverHears \/ DiscoverEnds
Poll == \/ Tick \/ PollPauses \/ PollStarts \/ ModelReturns \/ FqkReturns
        \/ FrameReturns \/ StsReturns \/ GsiReturns
Task == SendAnswered \/ SendFails \/ Command \/ Poll
Callers == \/ KeyPressed \/ KeyPosted \/ SliderReleased \/ KeysShown \/ KeysRefreshed
           \/ KeyToggled \/ WaterfallPressed \/ DiscoverPressed \/ AddressSaved \/ Refresh
           \/ RebootAsked \/ ShutdownQueued \/ Restart
Environment == LinkUp \/ LinkDown \/ PowerOff \/ PowerOn \/ PopupOpens \/ PopupCloses
Next == Task \/ Callers \/ Environment \/ Restarted

Spec == Init /\ [][Next]_vars

\* The task runs while there is something to do, a search ends at its deadline,
\* and the UI's timer fires.
FairSpec == Spec /\ WF_vars(Task) /\ WF_vars(DiscoverEnds) /\ WF_vars(Refresh)

-----------------------------------------------------------------------------
(* Properties.                                                             *)

InCommand(op) == pc = "done" /\ cmd.op = op

\* One press of Next or Previous moves the scanner once (SC_STEP tries NXT and
\* then the rotary), unless an answer was lost or another's.
StepOnce == InCommand("STEP") /\ ~hurt => Len(did) <= 1

\* scanner.h: "FUNC+key: presses F only if FUNC is not already active".  The
\* key of SC_FUNC is taken with FUNC on, and not by a popup, unless an answer
\* was lost, something else changed the scanner meanwhile, or a popup outlasted
\* all the readings.  The scanner of this module shows no menus, in which F
\* selects and SC_FUNC, which does not look for one, presses a bare key.
FuncKeyTaken == InCommand("FUNC") /\ ~hurt /\ tries < PopupTries
                => "bare" \notin {did[i] : i \in 1..Len(did)}

\* A scanner is in waterfall mode only while the panel knows it (wf_active, or
\* a start or stop is under way), unless its mode is in doubt.
ScanModeRestored == \A h \in Hosts :
    world[h].mode = "wf" => h \in doubt \/ pc \in WfPCs \/ (st.wf /\ h = st.ip)

\* scanner_shutdown: "Leaves waterfall mode synchronously if active (used
\* before reboot)".  A reboot that was given its answer leaves the scanner in
\* scan mode, unless its mode is in doubt or a start was queued behind.
RebootInScan == boot = "clean" /\ st.ip # NoHost
                => world[st.ip].mode = "scan" \/ st.ip \in doubt

\* The quick keys in s_st are those of the scanner that was asked for them, save
\* while a write is under way or a reading is still owed (need_fqk).
QuickKeysKnown == (src # NoHost /\ ~needFqk /\ ~(pc = "fset" /\ to # NoHost))
                  => st.fqk = world[src].fqk

Pipe == INSTANCE CommandPipe WITH
    None <- NoCmd, waiting <- q, running <- cmd,
    effects <- did
\* Commands run one at a time, in order, and none asks for an effect twice: no
\* retry after a timeout presses a key again.
ImplementsPipe == Pipe!Spec

Alive == Running /\ st.ip # NoHost /\ Reachable(st.ip)

\* A scanner that stays out of reach is shown offline sooner or later, in
\* waterfall mode too, where missed frames do not count.
OfflineNoticed == []<>(~Running \/ Alive \/ ~st.online)

\* Every command is taken and carried out in the end, whatever is lost and
\* however long a popup stays.
QueueServed == []<>(~Running \/ (q = <<>> /\ cmd = NoCmd))

\* The page ends with the scanner's quick keys, unless a toggle did not fit in
\* the queue or the last reading was another scanner's or another request's.
QuickKeysShown ==
    <>[](Alive /\ ~ui.dropped /\ src = st.ip => ui.fqk = world[st.ip].fqk)
=============================================================================
