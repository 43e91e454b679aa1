------------------------- MODULE PanelScannerProofs -------------------------
(***************************************************************************)
(* Theorems about PanelScanner, for every set of scanners and keys, every  *)
(* limit and any number of events: its invariants, and that the panel      *)
(* keeps the promise of CommandPipe.                                       *)
(***************************************************************************)
EXTENDS PanelScanner, TLAPS

\* The places a command has in scanner_task; waterfall mode may also be left
\* when no command runs.
Places(op) ==
    CASE op = "NONE" -> {"top", "goff", "poff", "jscn"} \cup {Polls[i] : i \in 1..5}
      [] op = "KEY" -> {"key", "done"} [] op = "FUNC" -> FuncPCs \cup {"done"}
      [] op = "STEP" -> {"nxt", "rot", "done"} [] op = "VOL" -> {"vol", "done"}
      [] op = "FQK_GET" -> {"done"} [] op = "FQK_SET" -> {"fset", "done"}
      [] op = "WF_ON" -> {"jwf", "pon", "jback", "done"}
      [] op \in {"WF_OFF", "SHUTDOWN"} -> {"goff", "poff", "jscn", "done"}
      [] OTHER -> {"disc", "done"}
PlaceInv ==
    /\ pc \in Places(cmd.op)
    /\ to # NoHost => pc \in Asking
    /\ pc = "gwf" => st.wf
    /\ pc = "fgsi" => tries < PopupTries
    /\ cmd = NoCmd => did = <<>> /\ tries = 0

\* A reboot that was given its answer finds waterfall mode left.
BootInv ==
    /\ cmd.op = "SHUTDOWN" /\ pc = "done" => ~st.wf
    /\ boot = "answered" => ~st.wf /\ pc \notin WfPCs
    /\ ~Running => pc = "top" /\ ~st.wf

\* A reply that came in time is that of the running exchange.
Prompt == {d \in wire : d.when = "prompt"}
WireInv == to # NoHost => \A d \in Prompt : d.from = to

\* A scanner in waterfall mode is the one the panel knows to be, or in doubt; and
\* JPM,SCN_MODE was carried out when its own reply comes.
ModeInv ==
    /\ \A h \in Hosts : world[h].mode = "wf" =>
          \/ h \in doubt
          \/ h = st.ip /\ to \in {NoHost, st.ip} /\ (st.wf \/ pc \in WfPCs)
    /\ to # NoHost /\ pc \in {"jback", "jscn"} /\ Prompt # {} => world[to].mode = "scan"

\* The quick keys, and the reply to a request for them.
QuickInv ==
    /\ QuickKeysKnown
    /\ to # NoHost /\ pc = "fget" =>
          \A d \in Prompt : d.kind = "data" => d.view.fqk = world[to].fqk

\* What a command may have done before it comes to a place, and at it.
Earlier(p) ==
    CASE p = "rot" -> {"nxt"} [] p = "fkey" -> {"fshift"}
      [] p = "pon" -> {"jwf"} [] p = "jback" -> {"jwf", "pon"}
      [] p = "poff" -> {"goff"} [] p = "jscn" -> {"goff", "poff"}
      [] p = "done" -> Effects [] OTHER -> {}
Now(p) == IF to = NoHost THEN {} ELSE IF p = "fkey" THEN {"fkey", "bare"} ELSE {p}
OnceInv == \A i \in 1..Len(did) : did[i] \in Earlier(pc) \cup Now(pc)

\* SC_STEP, when every exchange was answered by its own reply: the rotary is
\* turned only after a refused NXT or PRV.
StepInv == cmd.op = "STEP" /\ ~hurt =>
    /\ Len(did) <= 1
    /\ pc = "rot" /\ to = NoHost => did = <<>>
    /\ pc = "nxt" /\ to # NoHost => \A d \in Prompt : d.kind = "ok" \/ did = <<>>

\* SC_FUNC: the scanner shows no popup and has FUNC on by the time of the key.
Ready(h, on) == h \in Hosts /\ world[h].up /\ ~world[h].popup /\ world[h].func = on
FuncInv == cmd.op = "FUNC" /\ ~hurt =>
    /\ to \in {NoHost, st.ip}
    /\ pc = "fgsi" => did = <<>>
    /\ pc = "fgsi" /\ to # NoHost => \A d \in Prompt :
          /\ world[to].up /\ d.view.func = world[to].func
          /\ world[to].popup => d.view.popup
    /\ tries < PopupTries =>
          /\ pc \in {"fshift", "fkey"} /\ to = NoHost => Ready(st.ip, pc = "fkey")
          /\ pc = "fshift" /\ to # NoHost /\ Prompt # {} => Ready(to, TRUE)
          /\ \A i \in 1..Len(did) : did[i] # "bare"


IInv == /\ TypeOK /\ PlaceInv /\ BootInv /\ WireInv /\ ModeInv /\ QuickInv /\ OnceInv
        /\ StepInv /\ FuncInv

\* TypeOK in parts.
TypeQueue == q \in Seq(Commands) /\ Len(q) <= QueueLen /\ cmd \in Commands \cup {NoCmd}
TypePlace ==
    /\ pc \in PCs /\ due \subseteq Timers
    /\ needMdl \in BOOLEAN /\ needFqk \in BOOLEAN /\ miss \in 0..MissLimit
    /\ tries \in 0..PopupTries /\ fon \in BOOLEAN
TypeBoot ==
    /\ boot \in {"none", "asked", "sent", "answered", "undone", "clean", "cut"}
    /\ netUp \in BOOLEAN /\ events \in 0..MaxEvents
TypeUi == ui \in [fqk : SUBSET Keys, valid : BOOLEAN, wf : BOOLEAN, dropped : BOOLEAN]
TypeWire ==
    /\ to \in Hosts \cup {NoHost} /\ wire \subseteq Datagrams
    /\ world \in [Hosts -> Scanners] /\ did \in Seq(Effects)
TypeHistory == hurt \in BOOLEAN /\ doubt \subseteq Hosts /\ src \in Hosts \cup {NoHost}
TypeData == TypeWire /\ st \in Snapshots /\ TypeHistory

USE PanelScannerAssumption
USE DEF historyVars, localVars, Elsewhere, Quiet, Event, Running

-----------------------------------------------------------------------------
\* TypeOK is its parts.
LEMMA TypeParts == TypeOK <=> TypeQueue /\ TypePlace /\ TypeBoot /\ TypeUi /\ TypeData
BY Zenon DEF TypeOK, TypeQueue, TypePlace, TypeBoot, TypeData, TypeWire, TypeUi,
              TypeHistory

\* The places, one by one.
LEMMA AskingIs ==
    Asking = {"key", "nxt", "rot", "vol", "fset", "fgsi", "fshift", "fkey", "jwf", "pon",
              "jback", "goff", "poff", "jscn", "mdl", "fget", "gwf", "sts", "gsi"}
<1>1. {Polls[i] : i \in 1..5} = {"mdl", "fget", "gwf", "sts", "gsi"}
  BY DEF Polls
<1>. QED BY <1>1 DEF Asking, FuncPCs, WfPCs

\* The next poll is one that is wanted, or none is.
LEMMA NextPollIs == ASSUME NEW n \in 1..3, NEW online
    PROVE  /\ NextPoll(n, online) \in {"top", "mdl", "fget", "gwf", "sts", "gsi"}
           /\ NextPoll(n, online) = "gwf" => st.wf
           /\ n = 2 \/ n = 3 => NextPoll(n, online) # "mdl"
           /\ n = 3 => NextPoll(n, online) # "fget"
<1>. DEFINE wanted == {i \in n..5 : Wants(Polls[i], online)}
<1>1. CASE wanted = {}
  BY <1>1 DEF NextPoll
<1>2. CASE wanted # {}
  <2>. HIDE DEF wanted
  <2>1. \E i \in wanted : \A j \in wanted : i <= j
    <3>1. wanted \subseteq {1, 2, 3, 4, 5}
      BY DEF wanted
    <3>2. CASE 1 \in wanted
      BY <3>1, <3>2
    <3>3. CASE 1 \notin wanted /\ 2 \in wanted
      BY <3>1, <3>3
    <3>4. CASE {1, 2} \cap wanted = {} /\ 3 \in wanted
      BY <3>1, <3>4
    <3>5. CASE {1, 2, 3} \cap wanted = {} /\ 4 \in wanted
      BY <3>1, <3>5
    <3>6. CASE {1, 2, 3, 4} \cap wanted = {}
      <4>1. PICK k : k \in wanted
        BY <1>2
      <4>2. k = 5
        BY <3>1, <3>6, <4>1
      <4>. QED BY <3>1, <3>6, <4>1, <4>2
    <3>. QED BY <3>2, <3>3, <3>4, <3>5, <3>6
  <2>2. PICK i \in wanted : NextPoll(n, online) = Polls[i]
    BY <1>2, <2>1 DEF NextPoll, wanted
  <2>3. i \in {1, 2, 3, 4, 5} /\ n <= i /\ Wants(Polls[i], online)
    BY <2>2 DEF wanted
  <2>. QED BY <2>2, <2>3 DEF Polls, Wants
<1>. QED BY <1>1, <1>2

\* What transact may return: nothing, or a datagram of the address asked.
LEMMA ResultFacts == ASSUME TypeData, NEW p, NEW r \in Results(p)
    PROVE  /\ pc = p /\ Running /\ r.rest \subseteq wire
           /\ r.kind \in {"none", "data", "ok", "err"} /\ r.view \in Views
           /\ r.own \in BOOLEAN
           /\ to = NoHost => st.ip = NoHost /\ ~r.own
           /\ r.own => \E d \in Prompt : r.kind = d.kind /\ r.view = d.view
           /\ r.kind = "none" => ~r.own
<1>1. pc = p /\ Running
  BY DEF Results
<1>2. CASE r = TimedOut
  <2>1. to = NoHost => st.ip = NoHost
    BY <1>1, <1>2 DEF Results, Readable
  <2>. QED BY <1>1, <1>2, <2>1 DEF TimedOut, Views, NoView
<1>3. CASE to # NoHost /\ \E d \in wire : r = Read(d)
  <2>1. PICK d \in wire : r = Read(d)
    BY <1>3
  <2>2. /\ d.kind \in {"data", "ok", "err"} /\ d.view \in Views
        /\ d.when \in {"prompt", "late", "old"}
    BY <2>1 DEF TypeData, TypeWire, Datagrams
  <2>3. /\ r.kind = d.kind /\ r.view = d.view /\ r.rest = wire \ {d}
        /\ r.own = (d.when = "prompt")
    BY <2>1 DEF Read
  <2>4. d.when = "prompt" => d \in Prompt
    BY DEF Prompt
  <2>. QED BY <1>1, <1>3, <2>2, <2>3, <2>4
<1>. QED BY <1>2, <1>3, <1>1 DEF Results

\* What transact sends, and what it finds of it when it looks: nothing of the
\* running exchange, or the scanner's answer.
LEMMA SendFacts == ASSUME TypeData, NEW fate \in {"prompt", "late"}, Send(fate)
    PROVE  /\ st.ip \in Hosts /\ to = NoHost /\ to' = st.ip /\ pc \in Asking /\ Running
           /\ \E kind \in AnswerKinds(world[st.ip], pc) :
                 \/ /\ Reachable(st.ip)
                    /\ \A d \in Prompt' : d = Answer(st.ip, pc, kind, "prompt")
                    /\ world' = [world EXCEPT ![st.ip] = Obeys(@, pc)]
                    /\ did' = IF CommandRequest /\ kind = "ok"
                              THEN Append(did, Effect(world[st.ip], pc)) ELSE did
                 \/ Prompt' = {} /\ UNCHANGED <<world, did>>
           /\ wire' \subseteq Datagrams
<1>. USE DEF Send
<1>1. st.ip \in Hosts /\ to = NoHost /\ to' = st.ip /\ pc \in Asking /\ Running
  BY DEF TypeData, TypeWire, Snapshots
<1>2. PICK kept \in SUBSET wire, kind \in AnswerKinds(world[st.ip], pc) :
        LET left == {[d EXCEPT !.when = "old"] : d \in kept}
        IN IF Reachable(st.ip)
           THEN /\ wire' = left \cup {Answer(st.ip, pc, kind, fate)}
                /\ world' = [world EXCEPT ![st.ip] = Obeys(@, pc)]
                /\ did' = IF CommandRequest /\ kind = "ok"
                          THEN Append(did, Effect(world[st.ip], pc)) ELSE did
           ELSE wire' = left /\ UNCHANGED <<world, did>>
  OBVIOUS
<1>. DEFINE left == {[d EXCEPT !.when = "old"] : d \in kept}
<1>3. left \subseteq Datagrams /\ \A d \in left : d.when = "old"
  BY DEF TypeData, TypeWire, Datagrams
<1>4. Answer(st.ip, pc, kind, fate) \in Datagrams
  BY <1>1 DEF Answer, AnswerKinds, ViewOf, Views, NoView, Datagrams, TypeData, TypeWire,
             Scanners
<1>5. Answer(st.ip, pc, kind, fate).when = fate
  BY DEF Answer
<1>. HIDE DEF left
<1>6. CASE Reachable(st.ip)
  <2>1. wire' = left \cup {Answer(st.ip, pc, kind, fate)}
    BY <1>2, <1>6 DEF left
  <2>2. \A d \in Prompt' : d = Answer(st.ip, pc, kind, fate) /\ fate = "prompt"
    BY <2>1, <1>3, <1>5 DEF Prompt
  <2>. QED BY <1>1, <1>2, <1>3, <1>4, <1>6, <2>1, <2>2
<1>7. CASE ~Reachable(st.ip)
  <2>1. wire' = left /\ UNCHANGED <<world, did>>
    BY <1>2, <1>7 DEF left
  <2>2. Prompt' = {}
    BY <2>1, <1>3 DEF Prompt
  <2>. QED BY <1>1, <1>3, <2>1, <2>2
<1>. QED BY <1>6, <1>7
-----------------------------------------------------------------------------
\* What is queued is a command, and no more than fits.
LEMMA Enqueued ==
    ASSUME TypeQueue, NEW c \in Commands, Enqueue(c), UNCHANGED cmd
    PROVE  TypeQueue'
BY DEF TypeQueue, Enqueue, Room

\* A queued command made of its name is one.
LEMMA CmdIs == ASSUME NEW op \in Ops
    PROVE  /\ Cmd(op) \in Commands
           /\ \A k \in Codes : [Cmd(op) EXCEPT !.code = k] \in Commands
           /\ \A f \in SUBSET Keys : [Cmd(op) EXCEPT !.fqk = f] \in Commands
BY DEF Cmd, NoCmd, Commands, Ops

\* The steps that change the queue or the command that runs.
LEMMA QueueKinds == ASSUME [Next]_vars PROVE
    \/ UNCHANGED <<q, cmd>>
    \/ Take
    \/ Finish
    \/ KeyPressed
    \/ KeyPosted
    \/ SliderReleased
    \/ KeysShown
    \/ KeysRefreshed
    \/ KeyToggled
    \/ WaterfallPressed
    \/ DiscoverPressed
    \/ ShutdownQueued
    \/ Restart
BY Zenon DEF Next, Task, Command, Poll, Callers, Environment, vars, Send, Restarted,
    SendAnswered, SendFails, KeyReturns, Returns, FuncReads, FuncShifts, FuncPresses,
    StepReturns, RotaryReturns, VolReturns, FqkSetReturns, WfModeReturns, WfPowerReturns,
    WfBackReturns, WfOffReturns, ScanModeReturns, DiscoverHears, DiscoverEnds, Tick,
    PollPauses, PollStarts, ModelReturns, FqkReturns, FrameReturns, StsReturns,
    GsiReturns, AddressSaved, Refresh, RebootAsked, LinkUp, LinkDown, PowerOff, PowerOn,
    PopupOpens, PopupCloses, Restarted

\* Every step keeps the queue's type.
LEMMA QueueStep == ASSUME TypeQueue, TypeUi, [Next]_vars PROVE TypeQueue'
<1>. USE DEF TypeQueue
<1>1. CASE Take
  BY <1>1 DEF Take, Ops
<1>2. CASE Finish
  BY <1>2 DEF Finish, Ops
<1>3. CASE KeyPressed
  BY <1>3, Enqueued, CmdIs DEF KeyPressed, Enqueue, Room, Ops
<1>4. CASE KeyPosted
  BY <1>4, Enqueued, CmdIs DEF KeyPosted, Enqueue, Room, Ops
<1>5. CASE SliderReleased
  BY <1>5, Enqueued, CmdIs DEF SliderReleased, Enqueue, Room, Ops
<1>6. CASE KeysShown
  BY <1>6, Enqueued, CmdIs DEF KeysShown, Enqueue, Room, Ops
<1>7. CASE KeysRefreshed
  BY <1>7, Enqueued, CmdIs DEF KeysRefreshed, KeysShown, Enqueue, Room, Ops
<1>8. CASE KeyToggled
  <2>1. PICK k \in Keys : Enqueue([Cmd("FQK_SET") EXCEPT !.fqk = (ui.fqk \ {k}) \cup ({k} \ ui.fqk)])
                          /\ UNCHANGED cmd
    BY <1>8 DEF KeyToggled
  <2>2. (ui.fqk \ {k}) \cup ({k} \ ui.fqk) \in SUBSET Keys
    BY DEF TypeUi
  <2>. QED BY <2>1, <2>2, CmdIs, Enqueued DEF Ops
<1>9. CASE WaterfallPressed
  BY <1>9, Enqueued, CmdIs DEF WaterfallPressed, Enqueue, Room, Ops
<1>10. CASE DiscoverPressed
  BY <1>10, Enqueued, CmdIs DEF DiscoverPressed, Enqueue, Room, Ops
<1>11. CASE ShutdownQueued
  BY <1>11, Enqueued, CmdIs DEF ShutdownQueued, Enqueue, Room, Ops
<1>12. CASE Restart
  BY <1>12 DEF Restart, Ops
<1>13. CASE UNCHANGED <<q, cmd>>
  BY <1>13
<1>. QED BY Zenon, QueueKinds, <1>1, <1>2, <1>3, <1>4, <1>5, <1>6, <1>7, <1>8, <1>9,
    <1>10, <1>11, <1>12, <1>13

\* The steps that move the task.
LEMMA PlaceKinds == ASSUME [Next]_vars PROVE
    \/ UNCHANGED <<pc, due, localVars>>
    \/ Take
    \/ Finish
    \/ KeyReturns
    \/ FuncReads
    \/ FuncShifts
    \/ FuncPresses
    \/ StepReturns
    \/ RotaryReturns
    \/ VolReturns
    \/ FqkSetReturns
    \/ WfModeReturns
    \/ WfPowerReturns
    \/ WfBackReturns
    \/ WfOffReturns
    \/ ScanModeReturns
    \/ DiscoverEnds
    \/ Tick
    \/ PollPauses
    \/ PollStarts
    \/ ModelReturns
    \/ FqkReturns
    \/ FrameReturns
    \/ StsReturns
    \/ GsiReturns
    \/ Restart
BY Zenon DEF Next, Task, Command, Poll, Callers, Environment, vars, Send, Restarted,
    SendAnswered, SendFails, DiscoverHears, KeyPressed, Enqueue, Room, KeyPosted,
    SliderReleased, KeysShown, KeysRefreshed, KeyToggled, WaterfallPressed,
    DiscoverPressed, AddressSaved, Refresh, RebootAsked, ShutdownQueued, LinkUp, LinkDown,
    PowerOff, PowerOn, PopupOpens, PopupCloses, Restarted

\* Every step keeps the types of the task's variables.
LEMMA TaskStep ==
    ASSUME TypeQueue, TypePlace, TypeData, PlaceInv, [Next]_vars
    PROVE  TypePlace'
<1>. USE DEF TypePlace, PCs, Timers, PlaceInv
<1>1. CASE Take
  BY <1>1, AskingIs DEF Take, Entry
<1>2. CASE Finish
  <2>1. tries' \in 0..PopupTries
    BY <1>2 DEF Finish
  <2>2. fon' \in BOOLEAN
    BY <1>2 DEF Finish
  <2>. QED BY <1>2, <2>1, <2>2 DEF Finish
<1>3. CASE KeyReturns
  BY <1>3, ResultFacts, AskingIs DEF KeyReturns, Returns, AfterKey, Expire
<1>4. CASE FuncReads
  <2>1. PICK r \in Results("fgsi") :
          /\ fon' = IF r.kind = "none" THEN fon ELSE r.view.func
          /\ tries' = tries + 1 /\ pc' \in {"fgsi", "fshift", "fkey"}
          /\ due' = due \cup Expire(r) /\ UNCHANGED <<needMdl, needFqk, miss>>
    BY <1>4 DEF FuncReads
  <2>2. pc = "fgsi" /\ r.view \in Views
    BY ResultFacts
  <2>3. tries' \in 0..PopupTries
    BY <2>1, <2>2
  <2>4. fon' \in BOOLEAN
    BY <2>1, <2>2 DEF Views
  <2>. QED BY <2>1, <2>3, <2>4, AskingIs DEF Expire
<1>5. CASE FuncShifts
  <2>1. pc' \in {"fkey", "done"} /\ UNCHANGED localVars
    BY <1>5 DEF FuncShifts
  <2>2. due' \subseteq due \cup Timers
    BY <1>5 DEF FuncShifts, AfterKey, Expire
  <2>. QED BY <2>1, <2>2, AskingIs
<1>6. CASE FuncPresses
  <2>1. pc' \in {"done"} /\ UNCHANGED localVars
    BY <1>6 DEF FuncPresses
  <2>2. due' \subseteq due \cup Timers
    BY <1>6 DEF FuncPresses, AfterKey, Expire
  <2>. QED BY <2>1, <2>2, AskingIs
<1>7. CASE StepReturns
  <2>1. pc' \in {"rot", "done"} /\ UNCHANGED localVars
    BY <1>7 DEF StepReturns
  <2>2. due' \subseteq due \cup Timers
    BY <1>7 DEF StepReturns, AfterKey, Expire
  <2>. QED BY <2>1, <2>2, AskingIs
<1>8. CASE RotaryReturns
  <2>1. pc' \in {"done"} /\ UNCHANGED localVars
    BY <1>8 DEF RotaryReturns
  <2>2. due' \subseteq due \cup Timers
    BY <1>8 DEF RotaryReturns, AfterKey, Expire
  <2>. QED BY <2>1, <2>2, AskingIs
<1>9. CASE VolReturns
  BY <1>9, ResultFacts, AskingIs DEF VolReturns, Returns, AfterKey, Expire
<1>10. CASE FqkSetReturns
  BY <1>10, ResultFacts, AskingIs DEF FqkSetReturns, Returns, AfterKey, Expire
<1>11. CASE WfModeReturns
  BY <1>11, ResultFacts, AskingIs DEF WfModeReturns, Returns, AfterKey, Expire
<1>12. CASE WfPowerReturns
  BY <1>12, ResultFacts, AskingIs DEF WfPowerReturns, Returns, AfterKey, Expire
<1>13. CASE WfBackReturns
  BY <1>13, ResultFacts, AskingIs DEF WfBackReturns, Returns, AfterKey, Expire
<1>14. CASE WfOffReturns
  BY <1>14, ResultFacts, AskingIs DEF WfOffReturns, Returns, AfterKey, Expire
<1>15. CASE ScanModeReturns
  BY <1>15, ResultFacts, AskingIs DEF ScanModeReturns, Returns, AfterKey, Expire, Ends
<1>16. CASE DiscoverEnds
  BY <1>16, AskingIs DEF DiscoverEnds
<1>17. CASE Tick
  BY <1>17 DEF Tick
<1>18. CASE PollPauses
  BY <1>18 DEF PollPauses
<1>19. CASE PollStarts
  BY <1>19, AskingIs, NextPollIs DEF PollStarts
<1>20. CASE ModelReturns
  <2>1. PICK r \in Results("mdl") :
          /\ due' = due \cup Expire(r) /\ needMdl' = (r.kind # "data")
          /\ pc' = NextPoll(2, TRUE) /\ UNCHANGED <<needFqk, miss, tries, fon>>
    BY <1>20 DEF ModelReturns
  <2>2. needMdl' \in BOOLEAN
    BY <2>1
  <2>3. pc' \in PCs
    <3>1. 2 \in 1..3
      OBVIOUS
    <3>2. NextPoll(2, TRUE) \in {"top", "mdl", "fget", "gwf", "sts", "gsi"}
      BY Zenon, <3>1, NextPollIs
    <3>. QED BY <2>1, <3>2, AskingIs
  <2>. QED BY <2>1, <2>2, <2>3 DEF Expire
<1>21. CASE FqkReturns
  <2>1. PICK r \in Results("fget") :
          /\ due' = due \cup Expire(r) /\ needFqk' \in {FALSE, needFqk}
          /\ pc' = NextPoll(3, TRUE) /\ UNCHANGED <<needMdl, miss, tries, fon>>
    BY <1>21 DEF FqkReturns
  <2>2. needFqk' \in BOOLEAN
    BY <2>1
  <2>3. pc' \in PCs
    <3>1. 3 \in 1..3
      OBVIOUS
    <3>2. NextPoll(3, TRUE) \in {"top", "mdl", "fget", "gwf", "sts", "gsi"}
      BY Zenon, <3>1, NextPollIs
    <3>. QED BY <2>1, <3>2, AskingIs
  <2>. QED BY <2>1, <2>2, <2>3 DEF Expire
<1>22. CASE FrameReturns
  <2>1. PICK r \in Results("gwf") :
          /\ miss' \in {0, miss} \/ (miss < MissLimit /\ miss' = miss + 1)
          /\ pc' \in {"top", "goff"}
          /\ due' = (due \ {"gwf"}) \cup Expire(r) /\ UNCHANGED <<needMdl, needFqk, tries, fon>>
    BY <1>22 DEF FrameReturns
  <2>2. miss' \in 0..MissLimit
    BY <2>1
  <2>. QED BY <2>1, <2>2, AskingIs DEF Expire
<1>23. CASE StsReturns
  BY <1>23, ResultFacts, AskingIs DEF StsReturns, Returns, Rearm, Expire
<1>24. CASE GsiReturns
  BY <1>24, ResultFacts, AskingIs DEF GsiReturns, Returns, Rearm, Expire
<1>25. CASE Restart
  <2>1. tries' \in 0..PopupTries /\ miss' \in 0..MissLimit
    BY <1>25 DEF Restart
  <2>2. fon' \in BOOLEAN /\ needMdl' \in BOOLEAN /\ needFqk' \in BOOLEAN
    BY <1>25 DEF Restart
  <2>. QED BY <1>25, <2>1, <2>2 DEF Restart
<1>26. CASE UNCHANGED <<pc, due, localVars>>
  BY <1>26
<1>. QED BY Zenon, PlaceKinds, <1>1, <1>2, <1>3, <1>4, <1>5, <1>6, <1>7, <1>8, <1>9,
    <1>10, <1>11, <1>12, <1>13, <1>14, <1>15, <1>16, <1>17, <1>18, <1>19, <1>20, <1>21,
    <1>22, <1>23, <1>24, <1>25, <1>26

\* The steps of the reboot and those that are counted.
LEMMA BootKinds == ASSUME [Next]_vars PROVE
    \/ UNCHANGED <<boot, netUp, events>>
    \/ SendFails
    \/ Take
    \/ Finish
    \/ KeyPressed
    \/ KeyPosted
    \/ SliderReleased
    \/ KeysShown
    \/ KeysRefreshed
    \/ KeyToggled
    \/ WaterfallPressed
    \/ DiscoverPressed
    \/ AddressSaved
    \/ RebootAsked
    \/ ShutdownQueued
    \/ Restart
    \/ LinkUp
    \/ LinkDown
    \/ PowerOff
    \/ PopupOpens
BY Zenon DEF Next, Task, Command, Poll, Callers, Environment, vars, Send, Restarted,
    SendAnswered, KeyReturns, Returns, FuncReads, FuncShifts, FuncPresses, StepReturns,
    RotaryReturns, VolReturns, FqkSetReturns, WfModeReturns, WfPowerReturns,
    WfBackReturns, WfOffReturns, ScanModeReturns, DiscoverHears, DiscoverEnds, Tick,
    PollPauses, PollStarts, ModelReturns, FqkReturns, FrameReturns, StsReturns,
    GsiReturns, Refresh, PowerOn, PopupCloses, Restarted

\* Every step keeps the types of the reboot and of the bound's counter.
LEMMA BootTypeStep == ASSUME TypeBoot, [Next]_vars PROVE TypeBoot'
<1>. USE DEF TypeBoot
<1>1. CASE SendFails
  <2>1. UNCHANGED <<boot, netUp>> /\ events < MaxEvents /\ events' = events + 1
    BY <1>1 DEF SendFails, Send
  <2>. QED BY <2>1
<1>2. CASE Take
  BY <1>2 DEF Take
<1>3. CASE Finish
  BY <1>3 DEF Finish
<1>4. CASE KeyPressed
  BY <1>4 DEF KeyPressed, Enqueue, Room
<1>5. CASE KeyPosted
  BY <1>5 DEF KeyPosted, Enqueue, Room
<1>6. CASE SliderReleased
  BY <1>6 DEF SliderReleased, Enqueue, Room
<1>7. CASE KeysShown
  BY <1>7 DEF KeysShown, Enqueue, Room
<1>8. CASE KeysRefreshed
  BY <1>8 DEF KeysRefreshed, KeysShown, Enqueue, Room
<1>9. CASE KeyToggled
  BY <1>9 DEF KeyToggled, Enqueue, Room
<1>10. CASE WaterfallPressed
  BY <1>10 DEF WaterfallPressed, Enqueue, Room
<1>11. CASE DiscoverPressed
  BY <1>11 DEF DiscoverPressed, Enqueue, Room
<1>12. CASE AddressSaved
  BY <1>12 DEF AddressSaved
<1>13. CASE RebootAsked
  BY <1>13 DEF RebootAsked
<1>14. CASE ShutdownQueued
  BY <1>14 DEF ShutdownQueued, Enqueue, Room
<1>15. CASE Restart
  BY <1>15 DEF Restart
<1>16. CASE LinkUp
  BY <1>16 DEF LinkUp
<1>17. CASE LinkDown
  <2>1. UNCHANGED boot /\ netUp' \in BOOLEAN
    BY <1>17 DEF LinkDown
  <2>2. events < MaxEvents /\ events' = events + 1
    BY <1>17 DEF LinkDown
  <2>. QED BY <2>1, <2>2
<1>18. CASE PowerOff
  BY <1>18 DEF PowerOff
<1>19. CASE PopupOpens
  BY <1>19 DEF PopupOpens
<1>20. CASE UNCHANGED <<boot, netUp, events>>
  BY <1>20
<1>. QED BY Zenon, BootKinds, <1>1, <1>2, <1>3, <1>4, <1>5, <1>6, <1>7, <1>8, <1>9, <1>10,
    <1>11, <1>12, <1>13, <1>14, <1>15, <1>16, <1>17, <1>18, <1>19, <1>20

\* The steps that change the page's copy.
LEMMA UiKinds == ASSUME [Next]_vars PROVE
    \/ UNCHANGED ui
    \/ KeyToggled
    \/ Refresh
    \/ Restart
BY Zenon DEF Next, Task, Command, Poll, Callers, Environment, vars, Send, Restarted,
    SendAnswered, SendFails, Take, Finish, KeyReturns, Returns, FuncReads, FuncShifts,
    FuncPresses, StepReturns, RotaryReturns, VolReturns, FqkSetReturns, WfModeReturns,
    WfPowerReturns, WfBackReturns, WfOffReturns, ScanModeReturns, DiscoverHears,
    DiscoverEnds, Tick, PollPauses, PollStarts, ModelReturns, FqkReturns, FrameReturns,
    StsReturns, GsiReturns, KeyPressed, Enqueue, Room, KeyPosted, SliderReleased,
    KeysShown, KeysRefreshed, WaterfallPressed, DiscoverPressed, AddressSaved,
    RebootAsked, ShutdownQueued, LinkUp, LinkDown, PowerOff, PowerOn, PopupOpens,
    PopupCloses, Restarted

\* Every step keeps the type of the page's copy.
LEMMA UiStep == ASSUME TypeUi, TypeData, [Next]_vars PROVE TypeUi'
<1>. USE DEF TypeUi
<1>1. CASE KeyToggled
  <2>1. PICK k \in Keys :
          ui' = [ui EXCEPT !.fqk = (ui.fqk \ {k}) \cup ({k} \ ui.fqk), !.dropped = ui.dropped \/ ~Room]
    BY <1>1 DEF KeyToggled
  <2>2. (ui.fqk \ {k}) \cup ({k} \ ui.fqk) \in SUBSET Keys /\ (ui.dropped \/ ~Room) \in BOOLEAN
    OBVIOUS
  <2>. QED BY <2>1, <2>2
<1>2. CASE Refresh
  <2>1. /\ st.fqk \in SUBSET Keys /\ st.valid \in BOOLEAN /\ st.wf \in BOOLEAN
    BY DEF TypeData, Snapshots
  <2>2. UpdateFqk(ui, st) \in [fqk : SUBSET Keys, valid : BOOLEAN, wf : BOOLEAN, dropped : BOOLEAN]
    BY <2>1 DEF UpdateFqk
  <2>. QED BY <1>2, <2>1, <2>2 DEF Refresh
<1>3. CASE Restart
  BY <1>3 DEF Restart, StartedUi
<1>4. CASE UNCHANGED ui
  BY <1>4
<1>. QED BY Zenon, UiKinds, <1>1, <1>2, <1>3, <1>4

-----------------------------------------------------------------------------
\* The steps, grouped by what they do to what the invariants speak of.
SameSt == st'.ip = st.ip /\ st'.wf = st.wf /\ st'.fqk = st.fqk
Calm == /\ UNCHANGED <<pc, cmd, tries, to, wire, world, hurt, doubt, src, did, needFqk>>
        /\ st' \in Snapshots /\ SameSt
        /\ boot' = boot \/ (Running /\ boot' \in {"asked", "sent"})
PlainReturn == \/ KeyReturns \/ FuncReads \/ FuncShifts \/ FuncPresses \/ StepReturns
               \/ RotaryReturns \/ VolReturns \/ FqkSetReturns \/ ModelReturns
               \/ FqkReturns \/ FrameReturns \/ StsReturns \/ GsiReturns
WfReturn == \/ WfModeReturns \/ WfPowerReturns \/ WfBackReturns \/ WfOffReturns
            \/ ScanModeReturns
Outside == PowerOff \/ PowerOn \/ PopupOpens \/ PopupCloses
Sends == \E fate \in {"prompt", "late"} : Send(fate)

\* A snapshot remains one, with the same address, mode and keys, when an index is
\* noted in it ...
LEMMA IndexKept == ASSUME NEW s \in Snapshots, NEW r
    PROVE  /\ GsiRead(s, r) \in Snapshots /\ GsiRead(s, r).ip = s.ip
           /\ GsiRead(s, r).wf = s.wf /\ GsiRead(s, r).fqk = s.fqk
<1>1. (r.kind = "data") \in BOOLEAN
  OBVIOUS
<1>. QED BY <1>1 DEF GsiRead, Snapshots

\* ... when a result is noted in it.
LEMMA SnapshotKept == ASSUME NEW s \in Snapshots, NEW ok \in BOOLEAN
    PROVE  /\ Noted(s, ok) \in Snapshots /\ Noted(s, ok).ip = s.ip
           /\ Noted(s, ok).wf = s.wf /\ Noted(s, ok).fqk = s.fqk
<1>1. s.fails \in 0..FailLimit /\ s.online \in BOOLEAN
  BY DEF Snapshots
<1>2. PICK n \in 0..FailLimit, on \in BOOLEAN : Noted(s, ok) = [s EXCEPT !.fails = n, !.online = on]
  <2>1. CASE ok
    <3>1. Noted(s, ok) = [s EXCEPT !.fails = 0, !.online = TRUE]
      BY <2>1 DEF Noted
    <3>2. 0 \in 0..FailLimit
      OBVIOUS
    <3>. QED BY Zenon, <3>1, <3>2
  <2>2. CASE ~ok
    <3>. DEFINE n == IF s.fails < FailLimit THEN s.fails + 1 ELSE FailLimit
                on == s.online /\ n < FailLimit
    <3>1. n \in 0..FailLimit /\ on \in BOOLEAN
      BY <1>1
    <3>2. Noted(s, ok) = [s EXCEPT !.fails = n, !.online = on]
      BY <2>2 DEF Noted
    <3>. HIDE DEF n, on
    <3>. QED BY <3>1, <3>2
  <2>. QED BY <2>1, <2>2
<1>3. /\ Noted(s, ok) \in Snapshots /\ Noted(s, ok).ip = s.ip
      /\ Noted(s, ok).wf = s.wf /\ Noted(s, ok).fqk = s.fqk
  BY <1>2 DEF Snapshots
<1>. QED BY <1>3

\* The snapshot after scanner_init.
LEMMA StartedIs == ASSUME NEW h \in Hosts \cup {NoHost} PROVE Started(h) \in Snapshots
<1>1. 0 \in 0..FailLimit
  OBVIOUS
<1>. QED BY <1>1 DEF Started, Snapshots

\* The snapshot at a new address.
LEMMA AddressKept == ASSUME NEW s \in Snapshots, NEW h \in Hosts \cup {NoHost}
    PROVE  /\ Addressed(s, h) \in Snapshots /\ Addressed(s, h).ip = h
           /\ Addressed(s, h).wf = s.wf /\ Addressed(s, h).fqk = s.fqk
<1>1. 0 \in 0..FailLimit
  OBVIOUS
<1>. QED BY <1>1 DEF Addressed, Snapshots

\* What a step without an effect on the scanner's address and mode leaves.
LEMMA PlainSnapshots == ASSUME TypeQueue, TypeData, PlainReturn
    PROVE  st' \in Snapshots /\ st'.ip = st.ip /\ st'.wf = st.wf
<1>. USE DEF TypeData
<1>1. CASE KeyReturns
  <2>1. st' \in {st, Noted(st, TRUE)}
    BY <1>1 DEF KeyReturns
  <2>. QED BY <2>1, SnapshotKept
<1>2. CASE FuncReads
  <2>1. \E r : st' \in {st, GsiRead(st, r)}
    BY <1>2 DEF FuncReads
  <2>. QED BY <2>1, IndexKept
<1>3. CASE FuncShifts
  BY <1>3 DEF FuncShifts
<1>4. CASE FuncPresses
  <2>1. st' \in {st, Noted(st, TRUE)}
    BY <1>4 DEF FuncPresses
  <2>. QED BY <2>1, SnapshotKept
<1>5. CASE StepReturns
  <2>1. st' \in {st, Noted(st, TRUE)}
    BY <1>5 DEF StepReturns
  <2>. QED BY <2>1, SnapshotKept
<1>6. CASE RotaryReturns
  <2>1. st' \in {st, Noted(st, TRUE)}
    BY <1>6 DEF RotaryReturns
  <2>. QED BY <2>1, SnapshotKept
<1>7. CASE VolReturns
  BY <1>7 DEF VolReturns
<1>8. CASE FqkSetReturns
  <2>1. st' \in {st, FqkRead(cmd.fqk)} /\ cmd.fqk \in SUBSET Keys
    BY <1>8 DEF FqkSetReturns, TypeQueue, Commands, NoCmd
  <2>. QED BY <2>1 DEF FqkRead, Snapshots
<1>9. CASE ModelReturns
  BY <1>9 DEF ModelReturns
<1>10. CASE FqkReturns
  <2>1. PICK r \in Results("fget") : st' \in {st, FqkRead(r.view.fqk)}
    BY <1>10 DEF FqkReturns
  <2>2. r.view.fqk \in SUBSET Keys
    BY ResultFacts DEF Views
  <2>. QED BY <2>1, <2>2 DEF FqkRead, Snapshots
<1>11. CASE FrameReturns
  <2>1. st' \in {st, Noted(st, TRUE)}
    BY <1>11 DEF FrameReturns
  <2>. QED BY <2>1, SnapshotKept
<1>12. CASE StsReturns
  <2>1. st' = Noted(st, TRUE) \/ st' = Noted(st, FALSE)
    BY <1>12 DEF StsReturns, StsRead
  <2>. QED BY <2>1, SnapshotKept
<1>13. CASE GsiReturns
  <2>1. PICK r : st' = Noted(GsiRead(st, r), TRUE) \/ st' = Noted(st, FALSE)
    BY <1>13 DEF GsiReturns
  <2>2. GsiRead(st, r) \in Snapshots /\ GsiRead(st, r).ip = st.ip /\ GsiRead(st, r).wf = st.wf
    BY IndexKept
  <2>. QED BY <2>1, <2>2, SnapshotKept
<1>. QED BY Zenon, <1>1, <1>2, <1>3, <1>4, <1>5, <1>6, <1>7, <1>8, <1>9, <1>10, <1>11,
    <1>12, <1>13 DEF PlainReturn

\* What waterfall mode's exchanges make of the snapshot.
LEMMA WfSnapshots == ASSUME TypeData, WfReturn
    PROVE  st' \in Snapshots /\ st'.ip = st.ip /\ st'.fqk = st.fqk
<1>1. st' \in {st, [st EXCEPT !.wf = TRUE], [st EXCEPT !.wf = FALSE]}
  <2>1. CASE WfModeReturns
    BY <2>1 DEF WfModeReturns
  <2>2. CASE WfPowerReturns
    BY <2>2 DEF WfPowerReturns
  <2>3. CASE WfBackReturns
    BY <2>3 DEF WfBackReturns
  <2>4. CASE WfOffReturns
    BY <2>4 DEF WfOffReturns
  <2>5. CASE ScanModeReturns
    BY <2>5 DEF ScanModeReturns
  <2>. QED BY Zenon, <2>1, <2>2, <2>3, <2>4, <2>5 DEF WfReturn
<1>. QED BY <1>1 DEF TypeData, Snapshots

\* Every step is of one of these kinds.
LEMMA Kinds == ASSUME TypeData, [Next]_vars
    PROVE  \/ Calm \/ Sends \/ Take \/ Finish \/ PlainReturn \/ WfReturn \/ AddressSaved
           \/ DiscoverEnds \/ PollStarts \/ Restart \/ Outside
<1>1. UNCHANGED <<pc, localVars, cmd, to, wire, st, world, historyVars>>
        /\ (boot' = boot \/ (Running /\ boot' \in {"asked", "sent"})) => Calm
  BY DEF Calm, SameSt, TypeData
<1>2. ASSUME Tick \/ LinkUp \/ LinkDown \/ Restarted
      PROVE  Calm
  BY Zenon, <1>1, <1>2
     DEF Tick, LinkUp, LinkDown, Restarted, vars
<1>8. ASSUME RebootAsked \/ ShutdownQueued PROVE Calm
  BY <1>1, <1>8 DEF RebootAsked, ShutdownQueued
<1>3. ASSUME \/ KeyPressed \/ KeyPosted \/ SliderReleased \/ KeysShown \/ KeysRefreshed
             \/ KeyToggled \/ WaterfallPressed \/ DiscoverPressed
      PROVE  Calm
  BY Zenon, <1>1, <1>3
     DEF KeyPressed, KeyPosted, SliderReleased, KeysShown, KeysRefreshed, KeyToggled,
         WaterfallPressed, DiscoverPressed
<1>4. ASSUME DiscoverHears PROVE Calm
  BY <1>4 DEF DiscoverHears, Calm, SameSt, TypeData, Snapshots
<1>5. ASSUME PollPauses PROVE Calm
  BY <1>5 DEF PollPauses, Calm, SameSt, TypeData, Snapshots
<1>6. ASSUME Refresh PROVE Calm
  BY <1>6 DEF Refresh, Calm, SameSt, TypeData, Snapshots
<1>7. SendAnswered \/ SendFails => Sends
  BY DEF SendAnswered, SendFails, Sends
<1>. QED BY Zenon, <1>1, <1>2, <1>3, <1>4, <1>5, <1>6, <1>7, <1>8
    DEF Next, Task, Command, Poll, Callers, Environment, PlainReturn, WfReturn, Outside, vars

\* What a sending does to the scanner.
LEMMA SendKinds == ASSUME NEW fate \in {"prompt", "late"}, Send(fate)
    PROVE  \/ UNCHANGED <<world, did>>
           \/ /\ world' = [world EXCEPT ![st.ip] = Obeys(@, pc)]
              /\ \/ did' = did
                 \/ CommandRequest /\ did' = Append(did, Effect(world[st.ip], pc))
BY DEF Send

\* Where the quick keys were read from, after a return.
LEMMA PlainSource == ASSUME TypeData, PlainReturn PROVE src' \in {src, to, NoHost}
<1>. USE DEF Source
<1>1. ASSUME FqkReturns PROVE src' \in {src, to, NoHost}
  BY <1>1 DEF FqkReturns
<1>2. ASSUME FqkSetReturns PROVE src' \in {src, to, NoHost}
  BY <1>2 DEF FqkSetReturns
<1>3. ASSUME PlainReturn PROVE FqkReturns \/ FqkSetReturns \/ src' = src
  BY Zenon, <1>3
     DEF PlainReturn, KeyReturns, FuncReads, FuncShifts, FuncPresses, StepReturns,
         RotaryReturns, VolReturns, ModelReturns, FrameReturns, StsReturns, GsiReturns
<1>. QED BY <1>1, <1>2, <1>3

\* Only a reading or a writing of the quick keys changes them.
LEMMA KeysKept == ASSUME TypeData, PlainReturn
    PROVE  \/ FqkReturns \/ FqkSetReturns
           \/ UNCHANGED <<src, needFqk>> /\ st'.fqk = st.fqk /\ pc # "fset"
<1>1. \/ FqkReturns \/ FqkSetReturns \/ UNCHANGED <<src, needFqk>>
  BY Zenon DEF PlainReturn, KeyReturns, FuncReads, FuncShifts, FuncPresses, StepReturns,
     RotaryReturns, VolReturns, ModelReturns, FrameReturns, StsReturns, GsiReturns
<1>2. \/ FqkReturns \/ FqkSetReturns \/ pc # "fset"
  BY DEF PlainReturn, KeyReturns, FuncReads, FuncShifts, FuncPresses, StepReturns,
     RotaryReturns, VolReturns, ModelReturns, FrameReturns, StsReturns, GsiReturns, Results
<1>3. \/ FqkReturns \/ FqkSetReturns \/ st'.fqk = st.fqk
  <2>1. st \in Snapshots
    BY DEF TypeData
  <2>2. CASE KeyReturns \/ FuncPresses \/ StepReturns \/ RotaryReturns \/ FrameReturns
    <3>1. st' \in {st, Noted(st, TRUE)}
      BY <2>2 DEF KeyReturns, FuncPresses, StepReturns, RotaryReturns, FrameReturns
    <3>. QED BY <2>1, <3>1, SnapshotKept
  <2>3. CASE FuncReads
    <3>1. \E r : st' \in {st, GsiRead(st, r)}
      BY <2>3 DEF FuncReads
    <3>. QED BY <2>1, <3>1, IndexKept
  <2>4. CASE FuncShifts \/ VolReturns \/ ModelReturns
    BY <2>4 DEF FuncShifts, VolReturns, ModelReturns
  <2>5. CASE StsReturns
    <3>1. st' = Noted(st, TRUE) \/ st' = Noted(st, FALSE)
      BY <2>5 DEF StsReturns, StsRead
    <3>. QED BY <2>1, <3>1, SnapshotKept
  <2>6. CASE GsiReturns
    <3>1. PICK r : st' = Noted(GsiRead(st, r), TRUE) \/ st' = Noted(st, FALSE)
      BY <2>6 DEF GsiReturns
    <3>2. GsiRead(st, r) \in Snapshots /\ GsiRead(st, r).fqk = st.fqk
      BY <2>1, IndexKept
    <3>. QED BY <2>1, <3>1, <3>2, SnapshotKept
  <2>. QED BY Zenon, <2>2, <2>3, <2>4, <2>5, <2>6 DEF PlainReturn
<1>. QED BY <1>1, <1>2, <1>3

\* What a return of a request outside waterfall mode's sequences leaves as it is.
LEMMA PlainFacts == ASSUME TypeData, PlainReturn
    PROVE  /\ \E r \in Results(pc) : Returns(r)
           /\ pc \notin WfPCs /\ pc \in Asking /\ doubt' = doubt
<1>. USE AskingIs DEF WfPCs
<1>1. CASE KeyReturns
  <2>1. PICK r \in Results("key") : Returns(r) /\ doubt' = doubt
    BY Zenon, <1>1 DEF KeyReturns
  <2>. QED BY <2>1 DEF Results
<1>2. CASE FuncReads
  <2>1. PICK r \in Results("fgsi") : Returns(r) /\ doubt' = doubt
    BY Zenon, <1>2 DEF FuncReads
  <2>. QED BY <2>1 DEF Results
<1>3. CASE FuncShifts
  <2>1. PICK r \in Results("fshift") : Returns(r) /\ doubt' = doubt
    BY Zenon, <1>3 DEF FuncShifts
  <2>. QED BY <2>1 DEF Results
<1>4. CASE FuncPresses
  <2>1. PICK r \in Results("fkey") : Returns(r) /\ doubt' = doubt
    BY Zenon, <1>4 DEF FuncPresses
  <2>. QED BY <2>1 DEF Results
<1>5. CASE StepReturns
  <2>1. PICK r \in Results("nxt") : Returns(r) /\ doubt' = doubt
    BY Zenon, <1>5 DEF StepReturns
  <2>. QED BY <2>1 DEF Results
<1>6. CASE RotaryReturns
  <2>1. PICK r \in Results("rot") : Returns(r) /\ doubt' = doubt
    BY Zenon, <1>6 DEF RotaryReturns
  <2>. QED BY <2>1 DEF Results
<1>7. CASE VolReturns
  <2>1. PICK r \in Results("vol") : Returns(r) /\ doubt' = doubt
    BY Zenon, <1>7 DEF VolReturns
  <2>. QED BY <2>1 DEF Results
<1>8. CASE FqkSetReturns
  <2>1. PICK r \in Results("fset") : Returns(r) /\ doubt' = doubt
    BY Zenon, <1>8 DEF FqkSetReturns
  <2>. QED BY <2>1 DEF Results
<1>9. CASE ModelReturns
  <2>1. PICK r \in Results("mdl") : Returns(r) /\ doubt' = doubt
    BY Zenon, <1>9 DEF ModelReturns
  <2>. QED BY <2>1 DEF Results
<1>10. CASE FqkReturns
  <2>1. PICK r \in Results("fget") : Returns(r) /\ doubt' = doubt
    BY Zenon, <1>10 DEF FqkReturns
  <2>. QED BY <2>1 DEF Results
<1>11. CASE FrameReturns
  <2>1. PICK r \in Results("gwf") : Returns(r) /\ doubt' = doubt
    BY Zenon, <1>11 DEF FrameReturns
  <2>. QED BY <2>1 DEF Results
<1>12. CASE StsReturns
  <2>1. PICK r \in Results("sts") : Returns(r) /\ doubt' = doubt
    BY Zenon, <1>12 DEF StsReturns
  <2>. QED BY <2>1 DEF Results
<1>13. CASE GsiReturns
  <2>1. PICK r \in Results("gsi") : Returns(r) /\ doubt' = doubt
    BY Zenon, <1>13 DEF GsiReturns
  <2>. QED BY <2>1 DEF Results
<1>. QED BY Zenon, <1>1, <1>2, <1>3, <1>4, <1>5, <1>6, <1>7, <1>8, <1>9, <1>10, <1>11,
    <1>12, <1>13 DEF PlainReturn

\* What a return of one of those sequences leaves, and what it doubts.
LEMMA WfFacts == ASSUME TypeData, WfReturn
    PROVE  \E r \in Results(pc) : /\ Returns(r) /\ pc \in WfPCs
                                  /\ \/ doubt' = doubt
                                     \/ Doubts(r, TRUE) \/ Doubts(r, FALSE)
<1>. USE DEF WfPCs
<1>1. CASE WfModeReturns
  <2>1. PICK r \in Results("jwf") : Returns(r) /\ Doubts(r, FALSE)
    BY Zenon, <1>1 DEF WfModeReturns
  <2>. QED BY <2>1 DEF Results
<1>2. CASE WfPowerReturns
  <2>1. PICK r \in Results("pon") : Returns(r) /\ doubt' = doubt
    BY Zenon, <1>2 DEF WfPowerReturns
  <2>. QED BY <2>1 DEF Results
<1>3. CASE WfBackReturns
  <2>1. PICK r \in Results("jback") : Returns(r) /\ Doubts(r, TRUE)
    BY Zenon, <1>3 DEF WfBackReturns
  <2>. QED BY <2>1 DEF Results
<1>4. CASE ScanModeReturns
  <2>1. PICK r \in Results("jscn") : Returns(r) /\ Doubts(r, TRUE)
    BY Zenon, <1>4 DEF ScanModeReturns
  <2>. QED BY <2>1 DEF Results
<1>5. CASE WfOffReturns
  <2>1. PICK r \in Results("goff") \cup Results("poff") : Returns(r) /\ doubt' = doubt
    BY Zenon, <1>5 DEF WfOffReturns
  <2>. QED BY <2>1 DEF Results
<1>. QED BY Zenon, <1>1, <1>2, <1>3, <1>4, <1>5 DEF WfReturn

\* What the scanner does with a request.
LEMMA ObeysIs == ASSUME TypeQueue, NEW w \in Scanners, NEW p \in Asking
    PROVE  /\ Obeys(w, p) \in Scanners /\ Obeys(w, p).up = w.up
           /\ p # "fset" => Obeys(w, p).fqk = w.fqk
           /\ p \notin {"jwf", "jback", "jscn"} => Obeys(w, p).mode = w.mode
           /\ p \in {"jback", "jscn"} => Obeys(w, p).mode = "scan"
           /\ p \in {"fgsi", "nxt"} => Obeys(w, p) = w
<1>1. cmd.fqk \in SUBSET Keys
  BY DEF TypeQueue, Commands, NoCmd
<1>2. \A code : /\ Pressed(w, code) \in Scanners /\ Pressed(w, code).up = w.up
                /\ Pressed(w, code).fqk = w.fqk /\ Pressed(w, code).mode = w.mode
  <2>1. TAKE code
  <2>2. CASE w.popup
    BY <2>2 DEF Pressed, Scanners
  <2>3. CASE ~w.popup
    <3>1. ((code = "F") /\ ~w.func) \in BOOLEAN
      OBVIOUS
    <3>2. Pressed(w, code) = [w EXCEPT !.func = (code = "F") /\ ~w.func]
      BY <2>3 DEF Pressed
    <3>. QED BY <3>1, <3>2 DEF Scanners
  <2>. QED BY <2>2, <2>3
<1>3. CASE p \in {"rot", "fkey", "fshift", "key"}
  <2>1. \E code : Obeys(w, p) = Pressed(w, code)
    BY <1>3 DEF Obeys
  <2>. QED BY <1>3, <1>2, <2>1
<1>4. CASE p \in {"fset", "jwf", "jback", "jscn"}
  BY <1>1, <1>4 DEF Obeys, Scanners
<1>5. CASE p \notin {"rot", "fkey", "fshift", "key", "fset", "jwf", "jback", "jscn"}
  BY <1>5 DEF Obeys
<1>. QED BY <1>3, <1>4, <1>5

\* What power and popups change of the scanners.
LEMMA OutsideFacts == ASSUME TypeData, Outside
    PROVE  /\ UNCHANGED <<pc, cmd, tries, to, wire, st, doubt, src, did, needFqk, boot>>
           /\ hurt' \in BOOLEAN /\ world' \in [Hosts -> Scanners] /\ Running
           /\ \A h \in Hosts : /\ world'[h].fqk = world[h].fqk
                               /\ world'[h].mode = "wf" => world[h].mode = "wf"
           /\ ~hurt' => ~hurt \/ cmd = NoCmd
           /\ ~hurt' /\ cmd # NoCmd => \A h \in Hosts : world[h].up =>
                 /\ world'[h].up /\ world'[h].func = world[h].func
                 /\ world'[h].popup => world[h].popup
<1>1. UNCHANGED <<pc, cmd, tries, to, wire, st, doubt, src, did, needFqk, boot>>
  BY Zenon DEF Outside, PowerOff, PowerOn, PopupOpens, PopupCloses
<1>2. Running
  BY Zenon DEF Outside, PowerOff, PowerOn, PopupOpens, PopupCloses
<1>3. PICK h \in Hosts :
        LET w == world[h] IN
        \/ hurt' = (cmd # NoCmd) /\ world' = [world EXCEPT ![h] = [w EXCEPT !.up = FALSE]]
        \/ hurt' = (cmd # NoCmd) /\ world' = [world EXCEPT ![h] = [w EXCEPT !.popup = TRUE]]
        \/ hurt' = hurt /\ world' = [world EXCEPT ![h] = [w EXCEPT !.popup = FALSE]]
        \/ /\ hurt' = hurt /\ ~w.up
           /\ world' = [world EXCEPT ![h] = [w EXCEPT !.up = TRUE, !.mode = "scan",
                                                      !.func = FALSE, !.popup = FALSE]]
  <2>1. ASSUME PowerOff PROVE \E h \in Hosts :
          /\ hurt' = (cmd # NoCmd)
          /\ world' = [world EXCEPT ![h] = [world[h] EXCEPT !.up = FALSE]]
    BY <2>1 DEF PowerOff
  <2>2. ASSUME PopupOpens PROVE \E h \in Hosts :
          /\ hurt' = (cmd # NoCmd)
          /\ world' = [world EXCEPT ![h] = [world[h] EXCEPT !.popup = TRUE]]
    BY <2>2 DEF PopupOpens
  <2>3. ASSUME PopupCloses PROVE \E h \in Hosts :
          /\ hurt' = hurt
          /\ world' = [world EXCEPT ![h] = [world[h] EXCEPT !.popup = FALSE]]
    BY <2>3 DEF PopupCloses
  <2>4. ASSUME PowerOn PROVE \E h \in Hosts :
          /\ hurt' = hurt /\ ~world[h].up
          /\ world' = [world EXCEPT ![h] = [world[h] EXCEPT
                         !.up = TRUE, !.mode = "scan", !.func = FALSE, !.popup = FALSE]]
    BY <2>4 DEF PowerOn
  <2>. QED BY Zenon, <2>1, <2>2, <2>3, <2>4 DEF Outside
<1>4. world[h] \in Scanners /\ DOMAIN world = Hosts
  BY DEF TypeData, TypeWire
<1>5. \A g \in Hosts : world'[g] = IF g = h THEN world'[h] ELSE world[g]
  BY <1>3, <1>4
<1>6. /\ world'[h] \in Scanners /\ world'[h].fqk = world[h].fqk
      /\ world'[h].mode = "wf" => world[h].mode = "wf"
  <2>. DEFINE w == world[h]
  <2>1. world'[h] \in {[w EXCEPT !.up = FALSE], [w EXCEPT !.popup = TRUE],
                       [w EXCEPT !.popup = FALSE],
                       [w EXCEPT !.up = TRUE, !.mode = "scan", !.func = FALSE,
                                 !.popup = FALSE]}
    BY <1>3, <1>4
  <2>. QED BY <1>4, <2>1 DEF Scanners
<1>7. hurt' = (cmd # NoCmd) \/ hurt' = hurt
  BY <1>3
<1>8. ASSUME ~hurt', cmd # NoCmd, world[h].up
      PROVE  /\ world'[h].up /\ world'[h].func = world[h].func
             /\ world'[h].popup => world[h].popup
  <2>1. world' = [world EXCEPT ![h] = [world[h] EXCEPT !.popup = FALSE]]
    BY <1>3, <1>8
  <2>. QED BY <1>4, <1>8, <2>1 DEF Scanners
<1>9. world' \in [Hosts -> Scanners]
  <2>1. world' = [world EXCEPT ![h] = world'[h]]
    BY <1>3, <1>4
  <2>. QED BY <2>1, <1>6 DEF TypeData, TypeWire
<1>10. hurt' \in BOOLEAN
  BY <1>7 DEF TypeData, TypeHistory
<1>11. ~hurt' => ~hurt \/ cmd = NoCmd
  BY <1>7
<1>12. ASSUME ~hurt', cmd # NoCmd, NEW g \in Hosts, world[g].up
       PROVE  /\ world'[g].up /\ world'[g].func = world[g].func
              /\ world'[g].popup => world[g].popup
  <2>1. CASE g = h
    BY <1>8, <1>12, <2>1
  <2>2. CASE g # h
    BY <1>5, <1>12, <2>2
  <2>. QED BY <2>1, <2>2
<1>. QED BY <1>1, <1>2, <1>5, <1>6, <1>9, <1>10, <1>11, <1>12

\* Every step keeps the types of the data.
LEMMA DataStep == ASSUME TypeQueue, TypePlace, TypeData, [Next]_vars PROVE TypeData'
<1>. USE DEF TypeData, TypeWire, TypeHistory
<1>1. CASE Calm
  BY <1>1 DEF Calm
<1>2. CASE Sends
  <2>1. PICK fate \in {"prompt", "late"} : Send(fate)
    BY <1>2 DEF Sends
  <2>2. st.ip \in Hosts /\ to' = st.ip /\ pc \in Asking /\ wire' \subseteq Datagrams
    BY <2>1, SendFacts
  <2>3. UNCHANGED <<st, hurt, doubt, src>>
    BY <2>1 DEF Send
  <2>4. world' \in [Hosts -> Scanners] /\ did' \in Seq(Effects)
    <3>1. \/ UNCHANGED <<world, did>>
          \/ /\ world' = [world EXCEPT ![st.ip] = Obeys(@, pc)]
             /\ \/ did' = did
                \/ CommandRequest /\ did' = Append(did, Effect(world[st.ip], pc))
      BY <2>1, SendKinds
    <3>2. Obeys(world[st.ip], pc) \in Scanners
      BY <2>2, ObeysIs
    <3>3. CommandRequest => Effect(world[st.ip], pc) \in Effects
      BY DEF Effect, Effects, CommandRequest
    <3>. QED BY <2>2, <3>1, <3>2, <3>3
  <2>. QED BY <2>2, <2>3, <2>4
<1>3. CASE Take
  BY <1>3 DEF Take
<1>4. CASE Finish
  <2>1. did' = <<>> /\ hurt' = FALSE
    BY <1>4 DEF Finish
  <2>2. UNCHANGED <<to, wire, world, st, doubt, src>>
    BY <1>4 DEF Finish
  <2>3. did' \in Seq(Effects)
    BY <2>1
  <2>. QED BY <2>1, <2>2, <2>3
<1>5. CASE PlainReturn
  <2>1. PICK r \in Results(pc) : Returns(r)
    BY <1>5, PlainFacts
  <2>2. st' \in Snapshots /\ doubt' = doubt /\ src' \in {src, to, NoHost}
    <3>1. src' \in {src, to, NoHost}
      BY <1>5, PlainSource
    <3>. QED BY <1>5, <3>1, PlainFacts, PlainSnapshots
  <2>. QED BY <2>1, <2>2, ResultFacts DEF Returns
<1>6. CASE WfReturn
  <2>1. PICK r \in Results(pc) : /\ Returns(r)
                                 /\ doubt' = doubt \/ Doubts(r, TRUE) \/ Doubts(r, FALSE)
    BY <1>6, WfFacts
  <2>2. st' \in Snapshots /\ src' = src
    <3>1. src' = src
      BY Zenon, <1>6 DEF WfReturn, WfModeReturns, WfPowerReturns, WfBackReturns,
         WfOffReturns, ScanModeReturns
    <3>. QED BY <1>6, <3>1, WfSnapshots
  <2>3. doubt' \subseteq Hosts
    BY <2>1 DEF Doubts
  <2>. QED BY <2>1, <2>2, <2>3, ResultFacts DEF Returns
<1>7. CASE AddressSaved
  <2>1. PICK h \in Hosts : st' = Addressed(st, h) /\ doubt' = doubt \cup LeavesMode
    BY <1>7 DEF AddressSaved
  <2>2. st' \in Snapshots /\ doubt' \subseteq Hosts
    BY <2>1, AddressKept DEF LeavesMode, Snapshots
  <2>3. UNCHANGED <<to, wire, world, did, src>> /\ hurt' = (cmd # NoCmd)
    BY <1>7 DEF AddressSaved
  <2>. QED BY <2>2, <2>3
<1>8. CASE DiscoverEnds
  <2>1. st' \in Snapshots /\ doubt' \subseteq Hosts
    <3>1. CASE st.found = NoHost
      BY <1>8, <3>1 DEF DiscoverEnds
    <3>2. CASE st.found # NoHost
      <4>1. Addressed(st, st.found) \in Snapshots /\ st.ip \in Hosts \cup {NoHost}
        BY <3>2, AddressKept DEF Snapshots
      <4>2. /\ st' = [Addressed(st, st.found) EXCEPT !.found = NoHost]
            /\ doubt' = doubt \cup LeavesMode
        BY <1>8, <3>2 DEF DiscoverEnds
      <4>. QED BY <4>1, <4>2 DEF LeavesMode, Snapshots
    <3>. QED BY <3>1, <3>2
  <2>. QED BY <1>8, <2>1 DEF DiscoverEnds
<1>9. CASE PollStarts
  BY <1>9 DEF PollStarts
<1>10. CASE Restart
  <2>1. st' \in Snapshots /\ doubt' \subseteq Hosts
    <3>1. Started(st.ip) \in Snapshots /\ st.ip \in Hosts \cup {NoHost}
      BY StartedIs DEF Snapshots
    <3>. QED BY <1>10, <3>1 DEF Restart, LeavesMode
  <2>2. to' = NoHost /\ wire' = {} /\ UNCHANGED world
    BY <1>10 DEF Restart
  <2>3. did' = <<>> /\ hurt' = FALSE /\ src' = NoHost
    BY <1>10 DEF Restart
  <2>4. did' \in Seq(Effects)
    BY <2>3
  <2>. QED BY <2>1, <2>2, <2>3, <2>4
<1>11. CASE Outside
  BY <1>11, OutsideFacts
<1>. QED BY Zenon, <1>1, <1>2, <1>3, <1>4, <1>5, <1>6, <1>7, <1>8, <1>9, <1>10, <1>11, Kinds

\* Every step keeps the types.
LEMMA TypeStep == ASSUME TypeOK, PlaceInv, [Next]_vars PROVE TypeOK'
<1>. TypeQueue /\ TypePlace /\ TypeBoot /\ TypeUi /\ TypeData
  BY TypeParts
<1>1. TypeQueue' /\ TypeBoot' /\ TypeUi'
  BY QueueStep, BootTypeStep, UiStep
<1>2. TypePlace'
  BY TaskStep
<1>3. TypeData'
  BY DataStep
<1>. QED BY Zenon, <1>1, <1>2, <1>3
    DEF TypeOK, TypeQueue, TypePlace, TypeBoot, TypeUi, TypeData, TypeWire, TypeHistory

-----------------------------------------------------------------------------
\* The next poll, when there is one.
LEMMA PollIs == PollStarts => pc' \in {"mdl", "fget", "gwf", "sts", "gsi"}
                              /\ (pc' = "gwf" => st.wf)
<1>1. 1 \in 1..3
  OBVIOUS
<1>2. \A online : /\ NextPoll(1, online) \in {"top", "mdl", "fget", "gwf", "sts", "gsi"}
                  /\ NextPoll(1, online) = "gwf" => st.wf
  BY Zenon, <1>1, NextPollIs
<1>3. PollStarts => pc' = NextPoll(1, st.online) /\ pc' # "top"
  BY DEF PollStarts
<1>4. /\ NextPoll(1, st.online) \in {"top", "mdl", "fget", "gwf", "sts", "gsi"}
      /\ NextPoll(1, st.online) = "gwf" => st.wf
  BY Zenon, <1>2
<1>. QED BY <1>3, <1>4

\* A reply in time is that of the running exchange.
LEMMA WireStep == ASSUME TypeQueue, TypeData, WireInv, [Next]_vars PROVE WireInv'
<1>. USE DEF WireInv
<1>1. CASE UNCHANGED <<to, wire>>
  BY <1>1 DEF Prompt
<1>2. CASE Sends
  <2>1. PICK fate \in {"prompt", "late"} : Send(fate)
    BY <1>2 DEF Sends
  <2>2. PICK kind : \A d \in Prompt' : d = Answer(st.ip, pc, kind, "prompt")
    BY <2>1, SendFacts
  <2>3. to' = st.ip
    BY <2>1, SendFacts
  <2>. QED BY <2>2, <2>3 DEF Answer
<1>3. CASE to' = NoHost
  BY <1>3
<1>4. Calm \/ Take \/ Finish \/ AddressSaved \/ DiscoverEnds \/ PollStarts
      => UNCHANGED <<to, wire>>
  BY Zenon DEF Calm, Take, Finish, AddressSaved, DiscoverEnds, PollStarts, Elsewhere
<1>5. Outside => UNCHANGED <<to, wire>>
  BY OutsideFacts
<1>6. PlainReturn \/ WfReturn \/ Restart => to' = NoHost
  BY PlainFacts, WfFacts DEF Returns, Restart
<1>. QED BY Zenon, <1>1, <1>2, <1>3, <1>4, <1>5, <1>6, Kinds

\* Only JPM's effects and a power failure touch a scanner's mode.
LEMMA ModeStep ==
    ASSUME TypeQueue, TypePlace, TypeData, PlaceInv, BootInv, WireInv, ModeInv, [Next]_vars
    PROVE  ModeInv'
<1>. DEFINE Known(h) == \/ h \in doubt
                        \/ h = st.ip /\ to \in {NoHost, st.ip} /\ (st.wf \/ pc \in WfPCs)
            Left == to # NoHost /\ pc \in {"jback", "jscn"} /\ Prompt # {}
                    => world[to].mode = "scan"
<1>. (\A h \in Hosts : world[h].mode = "wf" => Known(h)) /\ Left
  BY DEF ModeInv
<1>. SUFFICES /\ \A h \in Hosts : world'[h].mode = "wf" => Known(h)'
              /\ Left'
  BY DEF ModeInv
<1>1. CASE Calm
  BY <1>1 DEF Calm, SameSt, Prompt
<1>2. CASE Sends
  <2>1. PICK fate \in {"prompt", "late"} : Send(fate)
    BY <1>2 DEF Sends
  <2>2. UNCHANGED <<pc, st, doubt>> /\ to = NoHost /\ to' = st.ip /\ st.ip \in Hosts /\ pc \in Asking
    BY <2>1, SendFacts DEF Send
  <2>3. \/ UNCHANGED world /\ Prompt' = {}
        \/ world' = [world EXCEPT ![st.ip] = Obeys(@, pc)]
    BY <2>1, SendFacts
  <2>. DEFINE w == world[st.ip]
  <2>4. /\ pc \notin {"jwf", "jback", "jscn"} => Obeys(w, pc).mode = w.mode
        /\ pc \in {"jback", "jscn"} => Obeys(w, pc).mode = "scan"
    BY <2>2, ObeysIs DEF TypeData, TypeWire
  <2>5. ASSUME NEW h \in Hosts, world'[h].mode = "wf" PROVE Known(h)'
    <3>1. CASE h # st.ip
      BY <2>2, <2>3, <2>5, <3>1 DEF TypeData, TypeWire
    <3>2. CASE h = st.ip /\ (st.wf \/ pc \in WfPCs)
      BY <2>2, <3>2
    <3>3. CASE h = st.ip /\ ~(st.wf \/ pc \in WfPCs)
      BY <2>2, <2>3, <2>4, <2>5, <3>3 DEF TypeData, TypeWire, WfPCs
    <3>. QED BY <3>1, <3>2, <3>3
  <2>6. Left'
    BY <2>2, <2>3, <2>4 DEF TypeData, TypeWire
  <2>. QED BY <2>5, <2>6
<1>3. CASE Take \/ PollStarts \/ Finish
  <2>1. UNCHANGED <<st, doubt, to, wire, world>> /\ pc \in {"top", "done"}
    BY <1>3 DEF Take, PollStarts, Finish
  <2>2. to = NoHost
    BY <2>1, AskingIs DEF PlaceInv
  <2>. QED BY <2>1, <2>2 DEF WfPCs
<1>4. CASE PlainReturn
  <2>1. PICK r \in Results(pc) : Returns(r)
    BY <1>4, PlainFacts
  <2>2. st'.ip = st.ip /\ st'.wf = st.wf
    BY <1>4, PlainSnapshots
  <2>3. pc \notin WfPCs /\ UNCHANGED <<doubt, world>> /\ to' = NoHost
    BY <1>4, <2>1, PlainFacts DEF Returns
  <2>. QED BY <2>2, <2>3
<1>5. CASE WfReturn
  <2>0. to' = NoHost /\ world' = world /\ st'.ip = st.ip
    BY <1>5, WfFacts, WfSnapshots DEF Returns
  <2>1. CASE WfModeReturns
    <3>1. PICK r \in Results("jwf") :
            /\ Doubts(r, FALSE) /\ st' = st /\ pc' = IF r.kind = "none" THEN "done" ELSE "pon"
      BY <2>1 DEF WfModeReturns
    <3>2. /\ to = NoHost => st.ip = NoHost
          /\ r.kind = "none" => ~r.own
      BY ResultFacts
    <3>. QED BY <2>0, <3>1, <3>2 DEF Doubts, WfPCs
  <2>2. CASE WfPowerReturns
    <3>1. pc' = "jback" \/ st' = [st EXCEPT !.wf = TRUE]
      BY <2>2 DEF WfPowerReturns
    <3>2. doubt' = doubt
      BY <2>2 DEF WfPowerReturns
    <3>3. st'.wf = st.wf \/ st'.wf
      BY <2>2 DEF WfPowerReturns, TypeData, Snapshots
    <3>4. pc' = "jback" \/ st'.wf
      BY <3>1 DEF TypeData, Snapshots
    <3>. QED BY <2>0, <3>2, <3>3, <3>4 DEF WfPCs
  <2>3. CASE WfBackReturns \/ ScanModeReturns
    <3>1. PICK r \in Results("jback") \cup Results("jscn") : Doubts(r, TRUE)
      BY Zenon, <2>3 DEF WfBackReturns, ScanModeReturns
    <3>2. pc \in {"jback", "jscn"} /\ r \in Results(pc)
      BY <3>1 DEF Results
    <3>3. /\ to = NoHost => st.ip = NoHost /\ ~r.own
          /\ r.own => Prompt # {}
      BY <3>2, ResultFacts
    <3>. QED BY <2>0, <3>1, <3>2, <3>3 DEF Doubts
  <2>4. CASE WfOffReturns
    <3>1. doubt' = doubt /\ pc' \in {"poff", "jscn"}
      BY <2>4 DEF WfOffReturns
    <3>. QED BY <2>0, <3>1 DEF WfPCs
  <2>. QED BY Zenon, <1>5, <2>1, <2>2, <2>3, <2>4 DEF WfReturn
<1>6. CASE AddressSaved
  <2>1. UNCHANGED <<pc, to, wire, world>> /\ doubt' = doubt \cup LeavesMode
    BY <1>6 DEF AddressSaved
  <2>2. Left'
    BY <2>1 DEF Prompt
  <2>. QED BY <2>1, <2>2 DEF LeavesMode
<1>7. CASE DiscoverEnds
  <2>1. UNCHANGED <<to, wire, world>> /\ pc = "disc" /\ pc' = "done"
    BY <1>7 DEF DiscoverEnds
  <2>2. to = NoHost
    BY <2>1, AskingIs DEF PlaceInv
  <2>3. UNCHANGED <<st, doubt>> \/ doubt' = doubt \cup LeavesMode
    BY <1>7 DEF DiscoverEnds
  <2>. QED BY <2>1, <2>2, <2>3 DEF LeavesMode, WfPCs
<1>8. CASE Restart
  <2>1. to' = NoHost /\ world' = world
    BY <1>8 DEF Restart
  <2>2. (boot = "answered" /\ doubt' = doubt) \/ doubt' = doubt \cup LeavesMode
    BY <1>8 DEF Restart
  <2>. QED BY <2>1, <2>2 DEF LeavesMode, BootInv
<1>9. CASE Outside
  <2>1. /\ UNCHANGED <<pc, to, wire, st, doubt>>
        /\ \A h \in Hosts : world'[h].mode = "wf" => world[h].mode = "wf"
    BY <1>9, OutsideFacts
  <2>2. \A h \in Hosts : world'[h].mode \in {"scan", "wf"}
    BY <1>9, OutsideFacts DEF Scanners
  <2>3. Left'
    BY <2>1, <2>2 DEF Prompt, TypeData, TypeWire
  <2>. QED BY <2>1, <2>3
<1>. QED BY Zenon, <1>1, <1>2, <1>3, <1>4, <1>5, <1>6, <1>7, <1>8, <1>9, Kinds

-----------------------------------------------------------------------------
\* Which command runs, by the place of the task.
LEMMA PlaceIs == ASSUME TypeQueue, PlaceInv
    PROVE  /\ cmd = NoCmd <=> cmd.op = "NONE"
           /\ pc = "key" => cmd.op = "KEY"
           /\ pc \in {"fgsi", "fshift", "fkey"} => cmd.op = "FUNC"
           /\ pc \in {"nxt", "rot"} => cmd.op = "STEP"
           /\ pc = "vol" => cmd.op = "VOL"
           /\ pc = "fset" => cmd.op = "FQK_SET"
           /\ pc = "disc" => cmd.op = "DISCOVER"
           /\ pc \in {"jwf", "pon", "jback"} => cmd.op = "WF_ON"
           /\ pc \in {"goff", "poff", "jscn"} => cmd.op \in {"NONE", "WF_OFF", "SHUTDOWN"}
           /\ pc \in {"top", "mdl", "fget", "gwf", "sts", "gsi"} => cmd = NoCmd
           /\ cmd # NoCmd => "done" \in Places(cmd.op)
           /\ pc = "done" => cmd # NoCmd
<1>1. cmd.op \in Ops \cup {"NONE"} /\ (cmd = NoCmd <=> cmd.op = "NONE")
  BY DEF TypeQueue, Commands, NoCmd, Ops
<1>2. {Polls[i] : i \in 1..5} = {"mdl", "fget", "gwf", "sts", "gsi"}
  BY DEF Polls
<1>3. pc \in Places(cmd.op)
  BY DEF PlaceInv
<1>. QED BY <1>1, <1>2, <1>3 DEF Places, Ops, FuncPCs

\* The places where a command may be, by its kind.
LEMMA PlacesAre ==
    /\ {"top", "goff", "poff", "jscn", "mdl", "fget", "gwf", "sts", "gsi"} = Places("NONE")
    /\ {"fgsi", "fshift", "fkey", "done"} = Places("FUNC")
    /\ {"nxt", "rot", "done"} = Places("STEP")
    /\ {"jwf", "pon", "jback", "done"} = Places("WF_ON")
    /\ {"goff", "poff", "jscn", "done"} = Places("WF_OFF")
    /\ {"goff", "poff", "jscn", "done"} = Places("SHUTDOWN")
<1>1. {Polls[i] : i \in 1..5} = {"mdl", "fget", "gwf", "sts", "gsi"}
  BY DEF Polls
<1>. QED BY <1>1 DEF Places, FuncPCs

\* Where the task goes from an exchange.
LEMMA ReturnPlaces ==
    ASSUME TypeQueue, TypePlace, TypeData, PlaceInv, PlainReturn \/ WfReturn
    PROVE  /\ pc' \in Places(cmd.op) /\ UNCHANGED <<cmd, did>> /\ to' = NoHost
           /\ pc' = "gwf" => st.wf /\ pc \notin WfPCs
           /\ pc' = "fgsi" => tries' < PopupTries
           /\ pc # "fgsi" => tries' = tries
           /\ pc' = "rot" => StepReturns
           /\ pc' \in FuncPCs => FuncReads \/ FuncShifts
           /\ pc = "fgsi" => FuncReads
           /\ \/ pc' = "done" \/ cmd = NoCmd \/ pc = "fgsi"
              \/ <<pc, pc'>> \in {<<"fshift", "fkey">>, <<"nxt", "rot">>, <<"jwf", "pon">>,
                                 <<"pon", "jback">>, <<"goff", "poff">>, <<"poff", "jscn">>}
           /\ pc' \in WfPCs => pc \in WfPCs \cup {"gwf"}
<1>. USE PlaceIs, PlacesAre DEF FuncPCs, WfPCs
<1>ret. UNCHANGED <<cmd, did>> /\ to' = NoHost
  BY PlainFacts, WfFacts DEF Returns
<1>only. FuncReads \/ tries' = tries
  BY Zenon DEF PlainReturn, WfReturn, KeyReturns, FuncShifts, FuncPresses, StepReturns,
     RotaryReturns, VolReturns, FqkSetReturns, ModelReturns, FqkReturns, FrameReturns,
     StsReturns, GsiReturns, WfModeReturns, WfPowerReturns, WfBackReturns, WfOffReturns,
     ScanModeReturns
<1>kept. pc # "fgsi" => tries' = tries
  BY <1>only DEF FuncReads, Results
<1>. USE <1>ret, <1>kept
<1>1. CASE KeyReturns
  <2>1. pc = "key" /\ pc' = "done"
    BY <1>1 DEF KeyReturns, Results
  <2>. QED BY <2>1
<1>2. CASE FuncReads
  <2>1. pc = "fgsi" /\ pc' \in {"fgsi", "fshift", "fkey"}
    BY <1>2 DEF FuncReads, Results
  <2>2. pc' = "fgsi" => tries' < PopupTries
    BY <1>2 DEF FuncReads
  <2>. QED BY <1>2, <2>1, <2>2
<1>3. CASE FuncShifts
  <2>1. pc = "fshift" /\ pc' \in {"fkey", "done"}
    BY <1>3 DEF FuncShifts, Results
  <2>. QED BY <1>3, <2>1
<1>4. CASE FuncPresses
  <2>1. pc = "fkey" /\ pc' = "done"
    BY <1>4 DEF FuncPresses, Results
  <2>. QED BY <2>1
<1>5. CASE StepReturns
  <2>1. pc = "nxt" /\ pc' \in {"rot", "done"}
    BY <1>5 DEF StepReturns, Results
  <2>. QED BY <1>5, <2>1
<1>6. CASE RotaryReturns
  <2>1. pc = "rot" /\ pc' = "done"
    BY <1>6 DEF RotaryReturns, Results
  <2>. QED BY <2>1
<1>7. CASE VolReturns
  <2>1. pc = "vol" /\ pc' = "done"
    BY <1>7 DEF VolReturns, Results
  <2>. QED BY <2>1
<1>8. CASE FqkSetReturns
  <2>1. pc = "fset" /\ pc' = "done"
    BY <1>8 DEF FqkSetReturns, Results
  <2>. QED BY <2>1
<1>9. CASE ModelReturns
  <2>1. pc = "mdl" /\ pc' = NextPoll(2, TRUE)
    BY <1>9 DEF ModelReturns, Results
  <2>2. 2 \in 1..3
    OBVIOUS
  <2>3. /\ NextPoll(2, TRUE) \in {"top", "mdl", "fget", "gwf", "sts", "gsi"}
        /\ NextPoll(2, TRUE) = "gwf" => st.wf
    BY Zenon, <2>2, NextPollIs
  <2>. QED BY <2>1, <2>3
<1>10. CASE FqkReturns
  <2>1. pc = "fget" /\ pc' = NextPoll(3, TRUE)
    BY <1>10 DEF FqkReturns, Results
  <2>2. 3 \in 1..3
    OBVIOUS
  <2>3. /\ NextPoll(3, TRUE) \in {"top", "mdl", "fget", "gwf", "sts", "gsi"}
        /\ NextPoll(3, TRUE) = "gwf" => st.wf
    BY Zenon, <2>2, NextPollIs
  <2>. QED BY <2>1, <2>3
<1>11. CASE FrameReturns
  <2>1. pc = "gwf" /\ pc' \in {"goff", "top"}
    BY <1>11 DEF FrameReturns, Results
  <2>. QED BY <2>1
<1>12. CASE StsReturns
  <2>1. pc = "sts" /\ pc' = "top"
    BY <1>12 DEF StsReturns, Results
  <2>. QED BY <2>1
<1>13. CASE GsiReturns
  <2>1. pc = "gsi" /\ pc' = "top"
    BY <1>13 DEF GsiReturns, Results
  <2>. QED BY <2>1
<1>14. CASE WfModeReturns
  <2>1. pc = "jwf" /\ pc' \in {"pon", "done"}
    BY <1>14 DEF WfModeReturns, Results
  <2>. QED BY <2>1
<1>15. CASE WfPowerReturns
  <2>1. pc = "pon" /\ pc' \in {"jback", "done"}
    BY <1>15 DEF WfPowerReturns, Results
  <2>. QED BY <2>1
<1>16. CASE WfBackReturns
  <2>1. pc = "jback" /\ pc' = "done"
    BY <1>16 DEF WfBackReturns, Results
  <2>. QED BY <2>1
<1>17. CASE WfOffReturns
  <2>1. (pc = "goff" /\ pc' = "poff") \/ (pc = "poff" /\ pc' = "jscn")
    BY <1>17 DEF WfOffReturns, Results
  <2>. QED BY <2>1
<1>18. CASE ScanModeReturns
  <2>1. pc = "jscn" /\ pc' = IF cmd = NoCmd THEN "top" ELSE "done"
    BY <1>18 DEF ScanModeReturns, Results, Ends
  <2>. QED BY <2>1
<1>. QED BY Zenon, <1>1, <1>2, <1>3, <1>4, <1>5, <1>6, <1>7, <1>8, <1>9, <1>10, <1>11,
    <1>12, <1>13, <1>14, <1>15, <1>16, <1>17, <1>18 DEF PlainReturn, WfReturn

\* Where a command begins.
LEMMA EntryIs == ASSUME NEW c \in Commands
    PROVE  /\ Entry(c) \in Places(c.op) /\ c.op # "NONE"
           /\ Entry(c) \notin {"top", "gwf", "fshift", "fkey", "fget"}
           /\ Entry(c) = "fgsi" <=> c.op = "FUNC"
           /\ Entry(c) \in WfPCs => Entry(c) = "jwf" \/ (Entry(c) = "goff" /\ st.wf)
           /\ c.op = "SHUTDOWN" /\ Entry(c) = "done" => ~st.wf
           /\ Entry(c) = "done" => c.op \notin {"STEP", "FUNC"}
           /\ Entry(c) = "rot" => c.op = "STEP"
<1>1. c.op \in Ops
  BY DEF Commands
<1>2. \/ c.op = "KEY" /\ Entry(c) = "key"
      \/ c.op = "FUNC" /\ Entry(c) = "fgsi"
      \/ c.op = "STEP" /\ Entry(c) = "nxt"
      \/ c.op = "STEP" /\ Entry(c) = "rot"
      \/ c.op = "VOL" /\ Entry(c) = "vol"
      \/ c.op = "FQK_SET" /\ Entry(c) = "fset"
      \/ c.op = "DISCOVER" /\ Entry(c) = "disc"
      \/ c.op = "WF_ON" /\ Entry(c) = "jwf"
      \/ c.op \in {"WF_OFF", "SHUTDOWN"} /\ Entry(c) = "goff" /\ st.wf
      \/ c.op \in {"WF_OFF", "SHUTDOWN"} /\ Entry(c) = "done" /\ ~st.wf
      \/ c.op \in {"FQK_GET", "WF_ON"} /\ Entry(c) = "done"
  BY <1>1 DEF Entry, Ops
<1>. QED BY <1>2 DEF Places, FuncPCs, WfPCs

\* The place of the task fits the command that runs.
LEMMA PlaceStep ==
    ASSUME TypeQueue, TypePlace, TypeData, PlaceInv, BootInv, [Next]_vars PROVE PlaceInv'
<1>1. CASE Calm
  BY <1>1 DEF Calm, SameSt, PlaceInv
<1>2. CASE Sends
  <2>1. PICK fate \in {"prompt", "late"} : Send(fate)
    BY <1>2 DEF Sends
  <2>2. UNCHANGED <<pc, cmd, st, tries>> /\ pc \in Asking
    BY <2>1 DEF Send
  <2>3. cmd = NoCmd => did' = did
    BY <2>1 DEF Send, CommandRequest
  <2>. QED BY <2>2, <2>3 DEF PlaceInv
<1>3. CASE Take
  <2>1. Head(q) \in Commands /\ cmd' = Head(q) /\ pc' = Entry(Head(q))
    BY <1>3 DEF Take, TypeQueue
  <2>2. UNCHANGED <<to, st, tries>> /\ to = NoHost
    BY <1>3, AskingIs DEF Take, PlaceInv
  <2>3. cmd' # NoCmd
    BY <2>1, EntryIs DEF NoCmd
  <2>4. tries < PopupTries
    BY <1>3, PlaceIs DEF Take, PlaceInv
  <2>. QED BY <2>1, <2>2, <2>3, <2>4, EntryIs DEF PlaceInv
<1>4. CASE Finish
  <2>1. to = NoHost /\ to' = to
    BY <1>4, AskingIs DEF Finish, PlaceInv
  <2>. QED BY <1>4, <2>1, PlacesAre DEF Finish, PlaceInv, NoCmd
<1>5. CASE PlainReturn
  BY <1>5, ReturnPlaces, PlainSnapshots, PlaceIs DEF PlaceInv
<1>6. CASE WfReturn
  BY <1>6, ReturnPlaces, WfFacts, PlaceIs DEF PlaceInv
<1>7. CASE AddressSaved
  <2>1. st'.wf = st.wf /\ UNCHANGED <<pc, cmd, tries, to, did>>
    BY <1>7, AddressKept DEF AddressSaved, TypeData
  <2>. QED BY <2>1 DEF PlaceInv
<1>8. CASE DiscoverEnds
  <2>1. pc = "disc" /\ pc' = "done" /\ UNCHANGED <<cmd, to, did, tries>>
    BY <1>8 DEF DiscoverEnds
  <2>. QED BY <2>1, AskingIs, PlaceIs DEF PlaceInv
<1>9. CASE PollStarts
  <2>1. pc = "top" /\ UNCHANGED <<cmd, to, did, st, tries>>
    BY <1>9 DEF PollStarts
  <2>2. cmd = NoCmd /\ NoCmd.op = "NONE"
    BY <2>1, PlaceIs DEF NoCmd
  <2>3. pc' \in {"mdl", "fget", "gwf", "sts", "gsi"} /\ (pc' = "gwf" => st.wf)
    BY <1>9, PollIs
  <2>. QED BY <2>1, <2>2, <2>3, PlacesAre, AskingIs DEF PlaceInv
<1>10. CASE Restart
  <2>1. pc' = "top" /\ cmd' = NoCmd /\ to' = NoHost /\ did' = <<>> /\ tries' = 0
    BY <1>10 DEF Restart
  <2>. QED BY <2>1, PlacesAre DEF PlaceInv, NoCmd
<1>11. CASE Outside
  BY <1>11, OutsideFacts DEF PlaceInv
<1>. QED BY Zenon, <1>1, <1>2, <1>3, <1>4, <1>5, <1>6, <1>7, <1>8, <1>9, <1>10, <1>11, Kinds

\* The reboot's answer is given with waterfall mode left, and nothing but a start
\* that was queued behind it enters the mode again.
LEMMA BootStep ==
    ASSUME TypeQueue, TypePlace, TypeData, PlaceInv, BootInv, [Next]_vars PROVE BootInv'
<1>. USE DEF BootInv
<1>0. CASE UNCHANGED <<pc, cmd, boot>> /\ st'.wf = st.wf
  BY <1>0
<1>1. CASE Calm
  <2>1. UNCHANGED <<pc, cmd>> /\ st'.wf = st.wf
    BY <1>1 DEF Calm, SameSt
  <2>2. boot' \in {boot, "asked", "sent"}
    BY <1>1 DEF Calm
  <2>3. Running \/ boot' = boot
    BY <1>1 DEF Calm
  <2>. QED BY <2>1, <2>2, <2>3
<1>2. CASE Sends
  BY <1>0, <1>2 DEF Sends, Send
<1>3. CASE Take
  <2>1. Head(q) \in Commands /\ cmd' = Head(q) /\ pc' = Entry(Head(q)) /\ st' = st
    BY <1>3 DEF Take, TypeQueue
  <2>2. boot' = IF boot = "answered" /\ pc' = "jwf" THEN "undone" ELSE boot
    BY <1>3 DEF Take
  <2>3. Running /\ pc = "top"
    BY <1>3 DEF Take
  <2>. QED BY <2>1, <2>2, <2>3, EntryIs
<1>4. CASE Finish
  <2>1. /\ pc = "done" /\ pc' = "top" /\ cmd' = NoCmd /\ st' = st /\ Running
        /\ boot' = IF cmd.op = "SHUTDOWN" /\ boot = "sent" THEN "answered" ELSE boot
    BY <1>4 DEF Finish
  <2>. QED BY <2>1 DEF NoCmd, WfPCs
<1>5. CASE PlainReturn
  <2>1. UNCHANGED <<cmd, boot>> /\ st'.wf = st.wf /\ Running
    BY <1>5, PlainFacts, PlainSnapshots, ResultFacts DEF Returns
  <2>2. pc \notin WfPCs /\ (pc' \in WfPCs => pc = "gwf")
    BY <1>5, PlainFacts, ReturnPlaces
  <2>3. pc = "gwf" => st.wf
    BY DEF PlaceInv
  <2>4. cmd.op = "SHUTDOWN" => pc \in {"goff", "poff", "jscn", "done"}
    BY PlacesAre DEF PlaceInv
  <2>5. cmd.op = "SHUTDOWN" => pc = "done"
    BY <2>2, <2>4 DEF WfPCs
  <2>6. pc # "done"
    BY <1>5, PlainFacts, AskingIs
  <2>. QED BY <2>1, <2>2, <2>3, <2>5, <2>6
<1>6. CASE WfReturn
  <2>1. UNCHANGED <<cmd, boot>> /\ Running /\ pc \in WfPCs
    BY <1>6, WfFacts, ResultFacts DEF Returns
  <2>2. boot # "answered"
    BY <2>1
  <2>3. cmd.op = "SHUTDOWN" => pc \in {"goff", "poff", "jscn", "done"}
    BY PlacesAre DEF PlaceInv
  <2>4. cmd.op = "SHUTDOWN" /\ pc' = "done" => ~st'.wf
    <3>1. CASE ScanModeReturns
      BY <3>1 DEF ScanModeReturns, TypeData, Snapshots
    <3>2. CASE WfOffReturns
      BY <3>2 DEF WfOffReturns
    <3>3. CASE WfModeReturns
      BY <2>3, <3>3 DEF WfModeReturns, Results
    <3>4. CASE WfPowerReturns
      BY <2>3, <3>4 DEF WfPowerReturns, Results
    <3>5. CASE WfBackReturns
      BY <2>3, <3>5 DEF WfBackReturns, Results
    <3>. QED BY Zenon, <1>6, <3>1, <3>2, <3>3, <3>4, <3>5 DEF WfReturn
  <2>. QED BY <2>1, <2>2, <2>4
<1>7. CASE AddressSaved
  BY <1>0, <1>7, AddressKept DEF AddressSaved, TypeData
<1>8. CASE DiscoverEnds
  <2>1. pc = "disc" /\ pc' = "done" /\ UNCHANGED <<cmd, boot>> /\ Running
    BY <1>8 DEF DiscoverEnds
  <2>2. st'.wf = st.wf
    BY <1>8 DEF DiscoverEnds, Addressed, TypeData, Snapshots
  <2>. QED BY <2>1, <2>2, PlaceIs DEF WfPCs
<1>9. CASE PollStarts
  <2>1. pc = "top" /\ UNCHANGED <<cmd, boot, st>> /\ Running
    BY <1>9 DEF PollStarts
  <2>2. pc' \in {"mdl", "fget", "gwf", "sts", "gsi"}
    BY <1>9, PollIs
  <2>. QED BY <2>1, <2>2 DEF WfPCs
<1>10. CASE Restart
  <2>1. pc' = "top" /\ cmd' = NoCmd /\ st' = Started(st.ip) /\ boot' \in {"clean", "cut"}
    BY <1>10 DEF Restart
  <2>. QED BY <2>1 DEF NoCmd, Started
<1>11. CASE Outside
  BY <1>0, <1>11, OutsideFacts
<1>. QED BY Zenon, <1>1, <1>2, <1>3, <1>4, <1>5, <1>6, <1>7, <1>8, <1>9, <1>10, <1>11, Kinds

\* The quick keys in s_st are those of the scanner they were read from.
LEMMA QuickStep ==
    ASSUME TypeQueue, TypePlace, TypeData, PlaceInv, WireInv, QuickInv, [Next]_vars
    PROVE  QuickInv'
<1>. DEFINE Told == to # NoHost /\ pc = "fget" =>
                      \A d \in Prompt : d.kind = "data" => d.view.fqk = world[to].fqk
<1>0. QuickKeysKnown /\ Told
  BY DEF QuickInv
<1>. SUFFICES QuickKeysKnown' /\ Told'
  BY DEF QuickInv
<1>1. CASE Calm
  BY <1>0, <1>1 DEF Calm, SameSt, Prompt, QuickKeysKnown
<1>2. CASE Sends
  <2>1. PICK fate \in {"prompt", "late"} : Send(fate)
    BY <1>2 DEF Sends
  <2>2. /\ UNCHANGED <<pc, st, src, needFqk>> /\ pc \in Asking
        /\ to = NoHost /\ to' = st.ip /\ st.ip \in Hosts
    BY <2>1, SendFacts DEF Send
  <2>. DEFINE w == world[st.ip]
  <2>3. world[st.ip] \in Scanners /\ (pc # "fset" => Obeys(w, pc).fqk = w.fqk)
    BY <2>2, ObeysIs DEF TypeData, TypeWire
  <2>4. PICK kind \in AnswerKinds(w, pc) :
          \/ /\ \A d \in Prompt' : d = Answer(st.ip, pc, kind, "prompt")
             /\ world' = [world EXCEPT ![st.ip] = Obeys(@, pc)]
          \/ Prompt' = {} /\ UNCHANGED world
    BY <2>1, SendFacts
  <2>5. pc # "fset" => \A h \in Hosts : world'[h].fqk = world[h].fqk
    BY <2>2, <2>3, <2>4 DEF TypeData, TypeWire
  <2>6. QuickKeysKnown'
    <3>1. CASE pc = "fset"
      BY <2>2, <3>1 DEF QuickKeysKnown
    <3>2. CASE pc # "fset"
      BY <1>0, <2>2, <2>5, <3>2 DEF QuickKeysKnown, TypeData, TypeHistory
    <3>. QED BY <3>1, <3>2
  <2>7. ASSUME to' # NoHost, pc' = "fget", NEW d \in Prompt', d.kind = "data"
        PROVE  d.view.fqk = world'[to'].fqk
    <3>1. d = Answer(st.ip, pc, kind, "prompt")
      BY <2>4
    <3>2. d.view = [NoView EXCEPT !.fqk = w.fqk]
      BY <2>2, <2>7, <3>1 DEF Answer, ViewOf
    <3>. QED BY <2>2, <2>5, <2>7, <3>2 DEF NoView
  <2>. QED BY <2>6, <2>7
<1>3. CASE Take \/ PollStarts \/ Finish
  <2>1. UNCHANGED <<st, to, world, src>> /\ pc \in {"top", "done"}
    BY <1>3 DEF Take, PollStarts, Finish
  <2>3. needFqk => needFqk'
    BY Zenon, <1>3 DEF Take, PollStarts, Finish
  <2>2. to = NoHost
    BY <2>1, AskingIs DEF PlaceInv
  <2>. QED BY <1>0, <2>1, <2>2, <2>3 DEF QuickKeysKnown
<1>4. CASE PlainReturn
  <2>1. UNCHANGED world /\ to' = NoHost
    BY <1>4, PlainFacts DEF Returns
  <2>2. CASE FqkReturns
    <3>1. PICK r \in Results("fget") :
            \/ /\ r.kind = "data" /\ st' = FqkRead(r.view.fqk) /\ src' = Source(r)
            \/ UNCHANGED <<st, src, needFqk>>
      BY <2>2 DEF FqkReturns
    <3>2. pc = "fget"
      BY ResultFacts
    <3>3. CASE UNCHANGED <<st, src, needFqk>>
      BY <1>0, <2>1, <3>2, <3>3 DEF QuickKeysKnown
    <3>4. CASE r.kind = "data" /\ st' = FqkRead(r.view.fqk) /\ src' = Source(r)
      <4>1. CASE r.own
        <5>1. to # NoHost /\ \E d \in Prompt : r.kind = d.kind /\ r.view = d.view
          BY <4>1, ResultFacts
        <5>2. r.view.fqk = world[to].fqk
          BY <1>0, <3>2, <3>4, <5>1
        <5>3. st'.fqk = r.view.fqk /\ src' = to
          BY <3>4, <4>1 DEF FqkRead, Source, TypeData, Snapshots
        <5>. QED BY <2>1, <5>2, <5>3 DEF QuickKeysKnown
      <4>2. CASE ~r.own
        BY <2>1, <3>4, <4>2 DEF Source, QuickKeysKnown
      <4>. QED BY <4>1, <4>2
    <3>. QED BY <3>1, <3>3, <3>4
  <2>3. CASE FqkSetReturns
    BY <2>1, <2>3 DEF FqkSetReturns, QuickKeysKnown
  <2>4. CASE UNCHANGED <<src, needFqk>> /\ st'.fqk = st.fqk /\ pc # "fset"
    BY <1>0, <2>1, <2>4 DEF QuickKeysKnown
  <2>. QED BY <1>4, <2>2, <2>3, <2>4, KeysKept
<1>5. CASE WfReturn
  <2>1. UNCHANGED world /\ to' = NoHost /\ pc \in WfPCs /\ st'.fqk = st.fqk
    BY <1>5, WfFacts, WfSnapshots DEF Returns
  <2>2. UNCHANGED <<src, needFqk>>
    BY Zenon, <1>5 DEF WfReturn, WfModeReturns, WfPowerReturns, WfBackReturns, WfOffReturns,
       ScanModeReturns, localVars
  <2>. QED BY <1>0, <2>1, <2>2 DEF QuickKeysKnown, WfPCs
<1>6. CASE AddressSaved
  <2>1. UNCHANGED <<pc, to, wire, world, src, needFqk>>
    BY <1>6 DEF AddressSaved
  <2>2. st'.fqk = st.fqk
    BY <1>6, AddressKept DEF AddressSaved, TypeData
  <2>. QED BY <1>0, <2>1, <2>2 DEF QuickKeysKnown, Prompt
<1>7. CASE DiscoverEnds
  <2>1. needFqk' = TRUE /\ pc' = "done"
    BY <1>7 DEF DiscoverEnds
  <2>. QED BY <2>1 DEF QuickKeysKnown
<1>8. CASE Restart
  BY <1>8 DEF Restart, QuickKeysKnown
<1>9. CASE Outside
  <2>1. /\ UNCHANGED <<pc, to, wire, st, src, needFqk>>
        /\ \A h \in Hosts : world'[h].fqk = world[h].fqk
    BY <1>9, OutsideFacts
  <2>. QED BY <1>0, <2>1 DEF QuickKeysKnown, Prompt, TypeData, TypeWire, TypeHistory
<1>. QED BY Zenon, <1>1, <1>2, <1>3, <1>4, <1>5, <1>6, <1>7, <1>8, <1>9, Kinds

-----------------------------------------------------------------------------
\* What was done before a place was come to, and at it: nothing is done twice.
LEMMA OnceStep ==
    ASSUME TypeQueue, TypePlace, TypeData, PlaceInv, OnceInv, [Next]_vars PROVE OnceInv'
<1>. USE DEF OnceInv
<1>1. CASE UNCHANGED <<pc, to, did>>
  BY <1>1 DEF Now
<1>2. CASE did' = <<>>
  BY <1>2
<1>3. CASE Sends
  <2>1. PICK fate \in {"prompt", "late"} : Send(fate)
    BY <1>3 DEF Sends
  <2>2. pc' = pc /\ to = NoHost /\ to' # NoHost
    BY <2>1, SendFacts DEF Send
  <2>. DEFINE e == Effect(world[st.ip], pc)
  <2>3. did' = did \/ did' = Append(did, e)
    BY <2>1, SendKinds
  <2>4. \A i \in 1..Len(did) : did[i] \in Earlier(pc)
    BY <2>2 DEF Now
  <2>5. e \in Now(pc)'
    BY <2>2 DEF Effect, Now
  <2>6. did \in Seq(Effects)
    BY DEF TypeData, TypeWire
  <2>. HIDE DEF e
  <2>7. \A i \in 1..Len(did') : did'[i] \in Earlier(pc) \cup {e}
    BY <2>3, <2>4, <2>6
  <2>. QED BY <2>2, <2>5, <2>7
<1>4. CASE PlainReturn \/ WfReturn
  <2>1. UNCHANGED did /\ to' = NoHost
    BY <1>4, ReturnPlaces
  <2>2. CASE cmd = NoCmd
    BY <2>1, <2>2 DEF PlaceInv
  <2>3. did \in Seq(Effects)
    BY DEF TypeData, TypeWire
  <2>4. CASE pc' = "done"
    BY <2>1, <2>3, <2>4 DEF Earlier
  <2>5. CASE pc = "fgsi"
    <3>1. \A i \in 1..Len(did) : did[i] = "fgsi"
      BY <2>5 DEF Earlier, Now
    <3>2. "fgsi" \notin Effects
      BY DEF Effects, Presses, WfPCs, FuncPCs
    <3>3. Len(did) = 0
      BY <2>3, <3>1, <3>2
    <3>. QED BY <2>1, <3>3
  <2>6. CASE <<pc, pc'>> \in {<<"fshift", "fkey">>, <<"nxt", "rot">>, <<"jwf", "pon">>,
                              <<"pon", "jback">>, <<"goff", "poff">>, <<"poff", "jscn">>}
    <3>1. Earlier(pc) \cup Now(pc) \subseteq Earlier(pc')
      BY <2>6 DEF Earlier, Now
    <3>. QED BY <2>1, <3>1
  <2>. QED BY <1>4, <2>2, <2>4, <2>5, <2>6, ReturnPlaces
<1>5. Finish \/ Restart => did' = <<>>
  BY DEF Finish, Restart
<1>6. Take \/ PollStarts => did' = <<>>
  BY PlaceIs DEF Take, PollStarts, PlaceInv
<1>7. CASE DiscoverEnds
  <2>1. pc' = "done" /\ did' = did
    BY <1>7 DEF DiscoverEnds
  <2>. QED BY <2>1 DEF Earlier, TypeData, TypeWire
<1>8. Calm \/ AddressSaved \/ Outside => UNCHANGED <<pc, to, did>>
  BY OutsideFacts DEF Calm, AddressSaved
<1>. QED BY Zenon, <1>1, <1>2, <1>3, <1>4, <1>5, <1>6, <1>7, <1>8, Kinds

\* A sequence with one more element is longer by one.
LEMMA OneLonger == ASSUME NEW S, NEW s \in Seq(S), NEW e \in S
    PROVE  Len(Append(s, e)) = Len(s) + 1
OBVIOUS

\* One press of Next or Previous moves the scanner once.
LEMMA StepStep ==
    ASSUME TypeQueue, TypePlace, TypeData, PlaceInv, OnceInv, StepInv, [Next]_vars
    PROVE  StepInv'
<1>. SUFFICES ASSUME cmd'.op = "STEP", ~hurt'
     PROVE  /\ Len(did') <= 1
            /\ pc' = "rot" /\ to' = NoHost => did' = <<>>
            /\ pc' = "nxt" /\ to' # NoHost => \A d \in Prompt' : d.kind = "ok" \/ did' = <<>>
  BY DEF StepInv
<1>1. CASE Calm
  BY <1>1 DEF Calm, StepInv, Prompt
<1>2. CASE Sends
  <2>1. PICK fate \in {"prompt", "late"} : Send(fate)
    BY <1>2 DEF Sends
  <2>2. UNCHANGED <<pc, cmd, hurt>> /\ to = NoHost /\ to' # NoHost /\ pc \in Asking
    BY <2>1, SendFacts DEF Send
  <2>3. pc \in {"nxt", "rot"}
    BY <2>2, PlacesAre, AskingIs DEF PlaceInv
  <2>4. did = <<>>
    <3>1. CASE pc = "rot"
      BY <2>2, <3>1 DEF StepInv
    <3>2. CASE pc = "nxt"
      <4>1. \A i \in 1..Len(did) : FALSE
        BY <2>2, <3>2 DEF OnceInv, Earlier, Now
      <4>2. did \in Seq(Effects)
        BY DEF TypeData, TypeWire
      <4>. QED BY <4>1, <4>2
    <3>. QED BY <2>3, <3>1, <3>2
  <2>5. PICK kind :
          \/ /\ \A d \in Prompt' : d = Answer(st.ip, pc, kind, "prompt")
             /\ kind = "ok" \/ did' = did
          \/ Prompt' = {}
    BY Zenon, <2>1, SendFacts
  <2>. DEFINE e == Effect(world[st.ip], pc)
  <2>6. did' = did \/ (e \in Effects /\ did' = Append(did, e))
    BY <2>1, <2>3, SendKinds DEF Effect, Effects, Presses
  <2>7. Len(did') <= 1
    <3>. HIDE DEF e
    <3>1. did \in Seq(Effects) /\ Len(did) = 0
      BY <2>4 DEF TypeData, TypeWire
    <3>2. CASE did' = did
      BY <3>1, <3>2
    <3>3. CASE e \in Effects /\ did' = Append(did, e)
      <4>1. Len(Append(did, e)) = Len(did) + 1
        BY Zenon, <3>1, <3>3, OneLonger
      <4>. QED BY <3>1, <3>3, <4>1
    <3>. QED BY <2>6, <3>2, <3>3
  <2>8. ASSUME pc' = "nxt", NEW d \in Prompt' PROVE d.kind = "ok" \/ did' = <<>>
    BY <2>4, <2>5, <2>8 DEF Answer
  <2>. QED BY <2>2, <2>7, <2>8
<1>3. CASE Take
  <2>1. cmd = NoCmd /\ did' = did /\ to' = to /\ pc = "top"
    BY <1>3, PlaceIs DEF Take
  <2>2. did = <<>>
    BY <2>1 DEF PlaceInv
  <2>. QED BY <2>1, <2>2
<1>4. CASE PlainReturn
  <2>1. PICK r \in Results(pc) : Returns(r)
    BY <1>4, PlainFacts
  <2>2. cmd' = cmd /\ did' = did /\ to' = NoHost /\ ~hurt
    BY <2>1 DEF Returns
  <2>3. CASE pc' = "rot"
    <3>1. StepReturns
      BY <1>4, <2>3, ReturnPlaces
    <3>2. PICK s \in Results("nxt") : Returns(s) /\ s.kind # "ok"
      BY <2>3, <3>1 DEF StepReturns
    <3>3. cmd # NoCmd
      BY <2>2 DEF NoCmd
    <3>4. s.own
      BY <3>2, <3>3 DEF Returns
    <3>5. pc = "nxt" /\ to # NoHost /\ \E d \in Prompt : d.kind = s.kind
      BY <3>4, ResultFacts
    <3>6. did = <<>>
      BY <2>2, <3>2, <3>5 DEF StepInv
    <3>. QED BY <2>2, <2>3, <3>6
  <2>4. Len(did) <= 1
    BY <2>2 DEF StepInv
  <2>. QED BY <2>2, <2>3, <2>4
<1>5. CASE WfReturn
  <2>1. cmd' = cmd /\ pc \in WfPCs
    BY <1>5, WfFacts DEF Returns
  <2>. QED BY <2>1, PlacesAre DEF PlaceInv, WfPCs
<1>6. CASE AddressSaved
  <2>1. cmd' = cmd /\ hurt' = (cmd # NoCmd)
    BY <1>6 DEF AddressSaved
  <2>2. cmd # NoCmd
    BY <2>1 DEF NoCmd
  <2>. QED BY <2>1, <2>2
<1>7. Finish \/ Restart => cmd' = NoCmd
  BY DEF Finish, Restart
<1>8. DiscoverEnds \/ PollStarts => cmd'.op # "STEP"
  BY PlaceIs DEF DiscoverEnds, PollStarts, NoCmd
<1>9. CASE Outside
  <2>1. UNCHANGED <<pc, cmd, to, wire, did>> /\ (~hurt' => ~hurt \/ cmd = NoCmd)
    BY <1>9, OutsideFacts
  <2>. QED BY <2>1 DEF StepInv, Prompt, NoCmd
<1>10. NoCmd.op # "STEP"
  BY DEF NoCmd
<1>. QED BY Zenon, <1>1, <1>2, <1>3, <1>4, <1>5, <1>6, <1>7, <1>8, <1>9, <1>10, Kinds

\* The key of SC_FUNC finds FUNC on and no popup.
LEMMA FuncStep ==
    ASSUME TypeQueue, TypePlace, TypeData, PlaceInv, FuncInv, [Next]_vars
    PROVE  FuncInv'
<1>. DEFINE Addressee == to \in {NoHost, st.ip}
            Unread == pc = "fgsi" => did = <<>>
            Reply == pc = "fgsi" /\ to # NoHost => \A d \in Prompt :
                        /\ world[to].up /\ d.view.func = world[to].func
                        /\ world[to].popup => d.view.popup
            Before == pc \in {"fshift", "fkey"} /\ to = NoHost => Ready(st.ip, pc = "fkey")
            Shifted == pc = "fshift" /\ to # NoHost /\ Prompt # {} => Ready(to, TRUE)
            NotBare == \A i \in 1..Len(did) : did[i] # "bare"
            Good == /\ Addressee /\ Unread /\ Reply
                    /\ tries < PopupTries => Before /\ Shifted /\ NotBare
<1>0. cmd.op = "FUNC" /\ ~hurt => Good
  BY Zenon DEF FuncInv
<1>. SUFFICES ASSUME cmd'.op = "FUNC", ~hurt' PROVE Good'
  BY DEF FuncInv
<1>cmd. cmd' # NoCmd
  BY DEF NoCmd
<1>. HIDE DEF Good
<1>1. CASE Calm
  BY <1>0, <1>1 DEF Calm, SameSt, Prompt, Ready, Good
<1>2. CASE Sends
  <2>1. PICK fate \in {"prompt", "late"} : Send(fate)
    BY <1>2 DEF Sends
  <2>2. /\ UNCHANGED <<pc, cmd, st, hurt, tries>> /\ pc \in Asking
        /\ to = NoHost /\ to' = st.ip /\ st.ip \in Hosts
    BY <2>1, SendFacts DEF Send
  <2>3. pc \in {"fgsi", "fshift", "fkey"}
    BY <2>2, PlacesAre, AskingIs DEF PlaceInv
  <2>. DEFINE w == world[st.ip]
              e == Effect(w, pc)
  <2>4. Good
    BY <1>0, <2>2
  <2>5. w \in Scanners /\ did \in Seq(Effects)
    BY <2>2 DEF TypeData, TypeWire
  <2>6. PICK kind \in AnswerKinds(w, pc) :
          \/ /\ Reachable(st.ip)
             /\ \A d \in Prompt' : d = Answer(st.ip, pc, kind, "prompt")
             /\ world' = [world EXCEPT ![st.ip] = Obeys(@, pc)]
          \/ Prompt' = {} /\ UNCHANGED world
    BY <2>1, SendFacts
  <2>7. did' = did \/ (CommandRequest /\ did' = Append(did, e))
    BY <2>1, SendKinds
  <2>8. CASE pc = "fgsi"
    <3>1. did = <<>> /\ did' = did
      BY <2>4, <2>7, <2>8 DEF CommandRequest, Effects, Presses, WfPCs, Good
    <3>2. w' = w /\ st'.ip = st.ip
      BY <2>2, <2>6, <2>8, ObeysIs, <2>5 DEF TypeData, TypeWire
    <3>3. ASSUME NEW d \in Prompt'
          PROVE  /\ w.up /\ d.view.func = w.func
                 /\ w.popup => d.view.popup
      <4>1. d = Answer(st.ip, pc, kind, "prompt") /\ kind = "data" /\ Reachable(st.ip)
        BY <2>6, <2>8 DEF AnswerKinds
      <4>2. d.view = [NoView EXCEPT !.func = w.func, !.popup = w.popup]
        BY <2>8, <4>1 DEF Answer, ViewOf
      <4>. QED BY <4>1, <4>2 DEF NoView, Reachable
    <3>. QED BY <2>2, <2>8, <3>1, <3>2, <3>3 DEF Good
  <2>9. CASE pc = "fshift"
    <3>1. ASSUME tries' < PopupTries PROVE Shifted' /\ NotBare'
      <4>1. w.up /\ ~w.popup /\ w.func = FALSE /\ NotBare
        BY <2>2, <2>4, <2>9, <3>1 DEF Ready, Good
      <4>2. ASSUME Prompt' # {} PROVE Ready(to, TRUE)'
        <5>1. world' = [world EXCEPT ![st.ip] = Obeys(@, pc)]
          BY <2>6, <4>2
        <5>2. Obeys(w, pc) = [w EXCEPT !.func = TRUE]
          BY <2>9, <4>1 DEF Obeys, Pressed
        <5>. QED BY <2>2, <2>5, <4>1, <5>1, <5>2 DEF Ready, TypeData, TypeWire, Scanners
      <4>3. e # "bare"
        BY <2>9 DEF Effect
      <4>4. NotBare'
        BY <2>5, <2>7, <4>1, <4>3
      <4>. QED BY <4>2, <4>4
    <3>. QED BY <2>2, <2>9, <3>1 DEF Good
  <2>10. CASE pc = "fkey"
    <3>1. ASSUME tries' < PopupTries PROVE NotBare'
      <4>1. ~w.popup /\ w.func /\ NotBare
        BY <2>2, <2>4, <2>10, <3>1 DEF Ready, Good
      <4>2. e # "bare"
        BY <2>10, <4>1 DEF Effect
      <4>. QED BY <2>5, <2>7, <4>1, <4>2
    <3>. QED BY <2>2, <2>10, <3>1 DEF Good
  <2>. QED BY <2>3, <2>8, <2>9, <2>10
<1>3. CASE Take
  <2>1. Head(q) \in Commands /\ cmd' = Head(q) /\ pc' = Entry(Head(q))
    BY <1>3 DEF Take, TypeQueue
  <2>2. cmd = NoCmd /\ did' = did /\ to' = to /\ pc = "top"
    BY <1>3, PlaceIs DEF Take
  <2>3. did = <<>> /\ to = NoHost
    BY <2>2, AskingIs DEF PlaceInv
  <2>4. pc' = "fgsi"
    BY <2>1, EntryIs
  <2>. QED BY <2>2, <2>3, <2>4 DEF Good
<1>4. CASE PlainReturn
  <2>1. PICK r \in Results(pc) : Returns(r)
    BY <1>4, PlainFacts
  <2>2. /\ cmd' = cmd /\ did' = did /\ to' = NoHost /\ world' = world /\ ~hurt
        /\ st'.ip = st.ip
    BY <1>4, <2>1, PlainSnapshots DEF Returns
  <2>3. Good
    BY <1>0, <2>2
  <2>4. CASE FuncReads
    <3>1. PICK s \in Results("fgsi") :
            /\ Returns(s) /\ tries' = tries + 1
            /\ fon' = IF s.kind = "none" THEN fon ELSE s.view.func
            /\ pc' = IF s.kind # "none" /\ s.view.popup /\ tries + 1 < PopupTries
                     THEN "fgsi" ELSE IF fon' THEN "fkey" ELSE "fshift"
      BY <2>4 DEF FuncReads
    <3>2. s.own
      BY <1>cmd, <2>2, <3>1 DEF Returns
    <3>3. /\ pc = "fgsi" /\ to # NoHost /\ s.kind # "none" /\ s.view \in Views
          /\ \E d \in Prompt : s.view = d.view
      BY <3>2, ResultFacts
    <3>4. /\ did = <<>> /\ to = st.ip /\ to \in Hosts /\ world[to].up
          /\ s.view.func = world[to].func /\ (world[to].popup => s.view.popup)
      BY <2>3, <3>3 DEF Good, TypeData, TypeWire
    <3>5. ASSUME tries' < PopupTries, pc' \in {"fshift", "fkey"}
          PROVE  Ready(st.ip, pc = "fkey")'
      <4>1. ~s.view.popup /\ (pc' = "fkey" <=> s.view.func)
        BY <3>1, <3>3, <3>5
      <4>2. s.view.func \in BOOLEAN
        BY <3>3 DEF Views
      <4>3. ~world[to].popup /\ world[to].func = (pc' = "fkey")
        BY <3>4, <4>1, <4>2
      <4>. QED BY <2>2, <3>4, <4>3 DEF Ready
    <3>. QED BY <2>2, <3>4, <3>5 DEF Good
  <2>5. CASE FuncShifts
    <3>1. PICK s \in Results("fshift") :
            Returns(s) /\ tries' = tries /\ (pc' = "done" \/ (s.kind = "ok" /\ pc' = "fkey"))
      BY <2>5 DEF FuncShifts
    <3>2. s.own
      BY <1>cmd, <2>2, <3>1 DEF Returns
    <3>3. pc = "fshift" /\ to # NoHost /\ Prompt # {}
      BY <3>2, ResultFacts
    <3>. QED BY <2>2, <2>3, <3>1, <3>3 DEF Good, Ready
  <2>6. CASE ~(FuncReads \/ FuncShifts)
    <3>1. pc' \notin FuncPCs /\ tries' = tries
      BY <1>4, <2>6, ReturnPlaces
    <3>. QED BY <2>2, <2>3, <3>1 DEF Good, FuncPCs
  <2>. QED BY <2>4, <2>5, <2>6
<1>5. CASE WfReturn
  <2>1. cmd' = cmd /\ pc \in WfPCs
    BY <1>5, WfFacts DEF Returns
  <2>. QED BY <2>1, PlacesAre DEF PlaceInv, WfPCs
<1>6. CASE AddressSaved
  <2>1. cmd' = cmd /\ hurt' = (cmd # NoCmd)
    BY <1>6 DEF AddressSaved
  <2>. QED BY <1>cmd, <2>1
<1>7. Finish \/ Restart => cmd' = NoCmd
  BY DEF Finish, Restart
<1>8. DiscoverEnds \/ PollStarts => cmd'.op # "FUNC"
  BY PlaceIs DEF DiscoverEnds, PollStarts, NoCmd
<1>9. CASE Outside
  <2>1. /\ UNCHANGED <<pc, cmd, tries, to, wire, st, did>> /\ ~hurt
        /\ \A h \in Hosts : world[h].up =>
              /\ world'[h].up /\ world'[h].func = world[h].func
              /\ world'[h].popup => world[h].popup
    BY <1>9, <1>cmd, OutsideFacts
  <2>2. Good /\ to \in Hosts \cup {NoHost}
    BY <1>0, <2>1 DEF TypeData, TypeWire
  <2>3. Reply'
    BY <2>1, <2>2 DEF Good, Prompt
  <2>4. tries < PopupTries => Before' /\ Shifted'
    BY <2>1, <2>2 DEF Good, Ready, Prompt
  <2>. QED BY <2>1, <2>2, <2>3, <2>4 DEF Good
<1>. QED BY Zenon, <1>cmd, <1>1, <1>2, <1>3, <1>4, <1>5, <1>6, <1>7, <1>8, <1>9, Kinds

-----------------------------------------------------------------------------
\* The panel starts with all of it.
LEMMA Initially == Init => IInv
<1>. SUFFICES ASSUME Init PROVE IInv
  OBVIOUS
<1>. USE DEF Init
<1>1. TypeOK
  <2>1. st \in Snapshots
    BY StartedIs
  <2>2. q \in Seq(Commands) /\ Len(q) <= QueueLen /\ did \in Seq(Effects)
    OBVIOUS
  <2>3. world \in [Hosts -> Scanners]
    BY DEF Fresh, Scanners
  <2>4. miss \in 0..MissLimit /\ tries \in 0..PopupTries /\ events \in 0..MaxEvents
    OBVIOUS
  <2>. QED BY <2>1, <2>2, <2>3, <2>4 DEF TypeOK, PCs, StartedUi
<1>2. PlaceInv
  BY PlacesAre DEF PlaceInv, NoCmd
<1>3. BootInv
  BY DEF BootInv, NoCmd, WfPCs
<1>4. WireInv /\ OnceInv
  BY DEF WireInv, OnceInv
<1>5. ModeInv
  BY DEF ModeInv, Fresh
<1>6. QuickInv
  BY DEF QuickInv, QuickKeysKnown
<1>7. StepInv /\ FuncInv
  BY DEF StepInv, FuncInv, NoCmd
<1>. QED BY <1>1, <1>2, <1>3, <1>4, <1>5, <1>6, <1>7 DEF IInv

\* IInv holds after every step.
LEMMA Inductive == IInv /\ [Next]_vars => IInv'
<1>. SUFFICES ASSUME IInv, [Next]_vars PROVE IInv'
  OBVIOUS
<1>. TypeQueue /\ TypePlace /\ TypeData
  BY TypeParts DEF IInv
<1>. PlaceInv /\ BootInv /\ WireInv /\ ModeInv /\ QuickInv /\ OnceInv /\ StepInv /\ FuncInv
  BY DEF IInv
<1>1. TypeOK'
  BY TypeStep DEF IInv
<1>2. PlaceInv' /\ BootInv'
  BY PlaceStep, BootStep
<1>3. WireInv' /\ ModeInv'
  BY WireStep, ModeStep
<1>4. QuickInv' /\ OnceInv'
  BY QuickStep, OnceStep
<1>5. StepInv' /\ FuncInv'
  BY StepStep, FuncStep
<1>. QED BY <1>1, <1>2, <1>3, <1>4, <1>5 DEF IInv

\* IInv is an invariant of the panel's control of the scanner.
THEOREM Invariance == Spec => []IInv
<1>. QED BY Initially, Inductive, PTL DEF Spec

\* Every variable keeps its type; the queue never exceeds its length.
THEOREM TypeCorrect == Spec => []TypeOK
<1>1. IInv => TypeOK
  BY DEF IInv
<1>. QED BY <1>1, Invariance, PTL

\* One press of Next or Previous (SC_STEP) moves the scanner once, unless an
\* answer was lost or another's.
THEOREM StepMovesOnce == Spec => []StepOnce
<1>1. IInv => StepOnce
  BY DEF IInv, StepInv, StepOnce, InCommand
<1>. QED BY <1>1, Invariance, PTL

\* The key of SC_FUNC is taken with FUNC on and not by a popup.
THEOREM FuncKeyMeetsFunc == Spec => []FuncKeyTaken
<1>1. IInv => FuncKeyTaken
  BY DEF IInv, FuncInv, FuncKeyTaken, InCommand
<1>. QED BY <1>1, Invariance, PTL

\* A scanner in waterfall mode is known to be, or its mode is in doubt.
THEOREM ModeKnown == Spec => []ScanModeRestored
<1>1. IInv => ScanModeRestored
  BY DEF IInv, ModeInv, ScanModeRestored
<1>. QED BY <1>1, Invariance, PTL

\* A reboot that was given its answer leaves the scanner in scan mode.
THEOREM RebootLeavesScan == Spec => []RebootInScan
<1>1. ASSUME IInv, boot = "clean", st.ip # NoHost
      PROVE  world[st.ip].mode = "scan" \/ st.ip \in doubt
  <2>1. ~st.wf /\ pc = "top"
    BY <1>1 DEF IInv, BootInv
  <2>2. st.ip \in Hosts /\ world[st.ip].mode \in {"scan", "wf"}
    BY <1>1 DEF IInv, TypeOK, Snapshots, Scanners
  <2>. QED BY <1>1, <2>1, <2>2 DEF IInv, ModeInv, WfPCs
<1>2. IInv => RebootInScan
  BY <1>1 DEF RebootInScan
<1>. QED BY <1>2, Invariance, PTL

\* The quick keys in s_st are those of the scanner they were read from.
THEOREM KeysKnown == Spec => []QuickKeysKnown
<1>1. IInv => QuickKeysKnown
  BY DEF IInv, QuickInv
<1>. QED BY <1>1, Invariance, PTL

-----------------------------------------------------------------------------
\* A queue that was given a command accepted it, or had no room.
LEMMA Accepting == ASSUME NEW c \in Commands, Enqueue(c), UNCHANGED <<cmd, did>>
    PROVE  [Pipe!Next]_(Pipe!vars)
BY DEF Enqueue, Pipe!Next, Pipe!Accept, Pipe!vars

\* The steps the pipe may notice.
LEMMA PipeKinds == ASSUME [Next]_vars PROVE
    \/ UNCHANGED <<q, cmd, did>>
    \/ SendAnswered
    \/ SendFails
    \/ Take
    \/ Finish
    \/ KeyPressed
    \/ KeyPosted
    \/ SliderReleased
    \/ KeysShown
    \/ KeysRefreshed
    \/ KeyToggled
    \/ WaterfallPressed
    \/ DiscoverPressed
    \/ ShutdownQueued
    \/ Restart
<1>. DEFINE Same == UNCHANGED <<q, cmd, did>>
<1>1. Poll => Same
  BY Zenon DEF Poll, Returns, Tick, PollPauses, PollStarts, ModelReturns, FqkReturns,
     FrameReturns, StsReturns, GsiReturns
<1>2. Command => Take \/ Finish \/ Same
  BY Zenon DEF Command, Returns, KeyReturns, FuncReads, FuncShifts, FuncPresses,
     StepReturns, RotaryReturns, VolReturns, FqkSetReturns, WfModeReturns, WfPowerReturns,
     WfBackReturns, WfOffReturns, ScanModeReturns, DiscoverHears, DiscoverEnds
<1>3. AddressSaved \/ Refresh \/ RebootAsked => Same
  BY Zenon DEF AddressSaved, Refresh, RebootAsked
<1>4. Environment => Same
  BY Zenon DEF Environment, LinkUp, LinkDown, PowerOff, PowerOn, PopupOpens, PopupCloses, Quiet
<1>5. Restarted \/ UNCHANGED vars => Same
  BY Zenon DEF Restarted, vars
<1>. HIDE DEF Same
<1>6. Same => UNCHANGED <<q, cmd, did>>
  BY DEF Same
<1>. QED BY Zenon, <1>1, <1>2, <1>3, <1>4, <1>5, <1>6 DEF Next, Task, Callers

\* Every step of the panel is one of the pipe, or leaves it as it is.
LEMMA PipeStep == IInv /\ [Next]_vars => [Pipe!Next]_(Pipe!vars)
<1>. SUFFICES ASSUME IInv, [Next]_vars PROVE [Pipe!Next]_(Pipe!vars)
  OBVIOUS
<1>. TypeQueue /\ TypePlace /\ TypeUi /\ TypeData /\ PlaceInv /\ OnceInv
  BY TypeParts DEF IInv
<1>1. CASE UNCHANGED <<q, cmd, did>>
  BY <1>1 DEF Pipe!vars
<1>2. CASE Sends
  <2>1. PICK fate \in {"prompt", "late"} : Send(fate)
    BY <1>2 DEF Sends
  <2>2. UNCHANGED <<q, cmd>> /\ to = NoHost /\ pc \in Asking
    BY <2>1, SendFacts DEF Send
  <2>. DEFINE e == Effect(world[st.ip], pc)
  <2>3. did' = did \/ (CommandRequest /\ did' = Append(did, e))
    BY <2>1, SendKinds
  <2>4. ASSUME CommandRequest PROVE e \in Effects /\ cmd # NoCmd
    BY <2>4 DEF CommandRequest, Effect, Effects
  <2>5. e \notin Earlier(pc)
    BY <2>2, AskingIs DEF Effect, Earlier
  <2>6. \A i \in 1..Len(did) : did[i] # e
    BY <2>2, <2>5 DEF OnceInv, Now
  <2>7. e \notin Pipe!ToSet(did)
    BY <2>6 DEF Pipe!ToSet
  <2>. HIDE DEF e
  <2>. QED BY <2>2, <2>3, <2>4, <2>7 DEF Pipe!Next, Pipe!Perform, Pipe!vars
<1>3. CASE Take
  BY <1>3, PlaceIs DEF Take, Pipe!Next, Pipe!Take
<1>4. CASE Finish
  BY <1>4, PlaceIs DEF Finish, Pipe!Next, Pipe!Finish
<1>5. CASE Restart
  BY <1>5 DEF Restart, Pipe!Next, Pipe!Crash, Pipe!Init
<1>6. CASE KeyPressed
  <2>1. \E c \in Commands : Enqueue(c) /\ UNCHANGED <<cmd, did>>
    BY <1>6, CmdIs DEF KeyPressed, Ops
  <2>. QED BY <2>1, Accepting
<1>7. CASE KeyPosted
  <2>1. \E c \in Commands : Enqueue(c) /\ UNCHANGED <<cmd, did>>
    BY <1>7, CmdIs DEF KeyPosted, Ops
  <2>. QED BY <2>1, Accepting
<1>8. CASE SliderReleased
  <2>1. \E c \in Commands : Enqueue(c) /\ UNCHANGED <<cmd, did>>
    BY <1>8, CmdIs DEF SliderReleased, Ops
  <2>. QED BY <2>1, Accepting
<1>9. CASE KeysShown
  <2>1. \E c \in Commands : Enqueue(c) /\ UNCHANGED <<cmd, did>>
    BY <1>9, CmdIs DEF KeysShown, Ops
  <2>. QED BY <2>1, Accepting
<1>10. CASE KeysRefreshed
  <2>1. \E c \in Commands : Enqueue(c) /\ UNCHANGED <<cmd, did>>
    BY <1>10, CmdIs DEF KeysRefreshed, KeysShown, Ops
  <2>. QED BY <2>1, Accepting
<1>11. CASE KeyToggled
  <2>1. \E c \in Commands : Enqueue(c) /\ UNCHANGED <<cmd, did>>
    <3>1. PICK k \in Keys : /\ Enqueue([Cmd("FQK_SET") EXCEPT
                                         !.fqk = (ui.fqk \ {k}) \cup ({k} \ ui.fqk)])
                            /\ UNCHANGED <<cmd, did>>
      BY <1>11 DEF KeyToggled
    <3>2. (ui.fqk \ {k}) \cup ({k} \ ui.fqk) \in SUBSET Keys
      BY DEF TypeUi
    <3>. QED BY <3>1, <3>2, CmdIs DEF Ops
  <2>. QED BY <2>1, Accepting
<1>12. CASE WaterfallPressed
  <2>1. \E c \in Commands : Enqueue(c) /\ UNCHANGED <<cmd, did>>
    BY <1>12, CmdIs DEF WaterfallPressed, Ops
  <2>. QED BY <2>1, Accepting
<1>13. CASE DiscoverPressed
  <2>1. \E c \in Commands : Enqueue(c) /\ UNCHANGED <<cmd, did>>
    BY <1>13, CmdIs DEF DiscoverPressed, Ops
  <2>. QED BY <2>1, Accepting
<1>14. CASE ShutdownQueued
  <2>1. \E c \in Commands : Enqueue(c) /\ UNCHANGED <<cmd, did>>
    BY <1>14, CmdIs DEF ShutdownQueued, Ops
  <2>. QED BY <2>1, Accepting
<1>. QED BY Zenon, PipeKinds, <1>1, <1>2, <1>3, <1>4, <1>5, <1>6, <1>7, <1>8, <1>9, <1>10,
    <1>11, <1>12, <1>13, <1>14
    DEF Sends, SendAnswered, SendFails

\* The panel keeps the promise of CommandPipe: the commands are carried out one at a
\* time, in order, and none asks for an effect twice.
THEOREM Implementation == Spec => ImplementsPipe
<1>1. Init => Pipe!Init
  BY DEF Init, Pipe!Init
<1>. QED BY <1>1, PipeStep, Invariance, PTL DEF Spec, ImplementsPipe, Pipe!Spec

\* No two of a command's effects are the same: no retry presses a key again.
NoEffectTwice == \A i, j \in 1..Len(did) : did[i] = did[j] => i = j
PipeInv == did \in Seq(Effects) /\ NoEffectTwice

\* An effect that is not there yet is added at the end.
LEMMA AddedOnce == ASSUME PipeInv, NEW e \in Effects, Pipe!Perform(e) PROVE PipeInv'
<1>. USE DEF PipeInv, NoEffectTwice
<1>1. did' = Append(did, e) /\ \A i \in 1..Len(did) : did[i] # e
  BY DEF Pipe!Perform, Pipe!ToSet
<1>2. did' \in Seq(Effects) /\ Len(did') = Len(did) + 1 /\ Len(did) \in Nat
  BY <1>1
<1>3. \A i \in 1..Len(did') : did'[i] = IF i <= Len(did) THEN did[i] ELSE e
  BY <1>1
<1>. QED BY <1>1, <1>2, <1>3

\* Whoever keeps the promise of CommandPipe has no effect twice.
LEMMA PromiseKeepsOnce == PipeInv /\ [Pipe!Next]_(Pipe!vars) => PipeInv'
<1>. SUFFICES ASSUME PipeInv, [Pipe!Next]_(Pipe!vars) PROVE PipeInv'
  OBVIOUS
<1>1. ASSUME NEW e \in Effects, Pipe!Perform(e) PROVE PipeInv'
  BY <1>1, AddedOnce
<1>2. CASE did' = <<>>
  BY <1>2 DEF PipeInv, NoEffectTwice
<1>3. CASE did' = did
  BY <1>3 DEF PipeInv, NoEffectTwice
<1>. QED BY <1>1, <1>2, <1>3
         DEF Pipe!Next, Pipe!Accept, Pipe!Take, Pipe!Finish, Pipe!Crash, Pipe!Init, Pipe!vars

\* What the promise is for: whatever is lost, delayed or refused, the scanner
\* carries out no key press, step, volume, write or mode change of a command twice.
THEOREM EffectsOnce == Spec => []NoEffectTwice
<1>1. Pipe!Init => PipeInv
  BY DEF Pipe!Init, PipeInv, NoEffectTwice
<1>2. PipeInv => NoEffectTwice
  BY DEF PipeInv
<1>. QED BY Implementation, <1>1, <1>2, PromiseKeepsOnce, PTL DEF ImplementsPipe, Pipe!Spec

-----------------------------------------------------------------------------
(* A turn of scanner_task ends: the safety that QueueServed rests on.      *)

\* Exchanges a turn has left at a place, at most, the one there included.
Rest ==
    CASE pc = "top" -> 0 [] pc \in {"done", "gsi"} -> 1
      [] pc \in {"nxt", "fshift", "pon", "poff"} -> 3 [] pc \in {"jwf", "goff"} -> 4
      [] pc = "gwf" -> 5 [] pc = "fget" -> 6 [] pc = "mdl" -> 7
      [] pc = "fgsi" -> 3 + (PopupTries - tries)
      [] OTHER -> 2
\* The same in steps: an exchange is sent and answered.
Left == IF pc = "top" THEN 0 ELSE 2 * Rest + (IF to = NoHost THEN 1 ELSE 0)
MaxTurn == 2 * (7 + PopupTries) + 1

\* Every step of a turn brings its end nearer, whatever is lost, refused or
\* answered by another's reply, and no other task's step takes it further away;
\* only a search waits for the clock.
TurnStep == pc # "top" => /\ Left' <= Left
                          /\ Task /\ pc # "disc" => Left' < Left

\* A turn has at most MaxTurn steps left.
LEMMA LeftBound == TypePlace /\ PlaceInv => Left \in 0..MaxTurn
<1>. SUFFICES ASSUME TypePlace, PlaceInv PROVE Left \in 0..MaxTurn
  OBVIOUS
<1>1. tries \in 0..PopupTries /\ PopupTries \in Nat
  BY DEF TypePlace
<1>2. Rest \in 0..(7 + PopupTries)
  BY <1>1 DEF Rest
<1>. HIDE DEF Rest
<1>. QED BY <1>1, <1>2 DEF Left, MaxTurn

\* Of two places the one with fewer exchanges left has fewer steps left.
LEMMA Doubled ==
    ASSUME NEW m \in Nat, NEW n \in Nat, n < m, NEW a \in {0, 1}, NEW b \in {0, 1}
    PROVE  2 * n + b < 2 * m + a /\ 0 < 2 * m + a
OBVIOUS

\* A step that ends in a place with fewer exchanges left lowers Left.
LEMMA Fewer ==
    ASSUME TypePlace, pc # "top", Rest \in Nat, Rest' \in Nat, Rest' < Rest
    PROVE  Left' \in Nat /\ Left' < Left
<1>. DEFINE a == IF to = NoHost THEN 1 ELSE 0
<1>1. a \in {0, 1} /\ a' \in {0, 1}
  OBVIOUS
<1>2. Left = 2 * Rest + a
  BY DEF Left
<1>3. Left' = 0 \/ Left' = 2 * Rest' + a'
  BY DEF Left
<1>. HIDE DEF Left, Rest, a
<1>4. 2 * Rest' + a' < 2 * Rest + a /\ 0 < 2 * Rest + a
  BY <1>1, Doubled
<1>. QED BY <1>1, <1>2, <1>3, <1>4

\* The reply moves the task to a place with fewer exchanges left.
LEMMA ReturnsFewer ==
    ASSUME TypePlace, TypeData, PlaceInv,
           \/ KeyReturns \/ FuncShifts \/ FuncPresses \/ StepReturns \/ RotaryReturns
           \/ VolReturns \/ FqkSetReturns \/ WfModeReturns \/ WfPowerReturns
           \/ WfBackReturns \/ WfOffReturns \/ ScanModeReturns \/ FrameReturns
           \/ StsReturns \/ GsiReturns
    PROVE  pc # "top" /\ Rest \in Nat /\ Rest' \in Nat /\ Rest' < Rest
<1>1. CASE KeyReturns \/ FuncPresses \/ RotaryReturns \/ VolReturns \/ FqkSetReturns \/ WfBackReturns
  <2>1. pc \in {"key", "fkey", "rot", "vol", "fset", "jback"}
    BY <1>1, ResultFacts
       DEF KeyReturns, FuncPresses, RotaryReturns, VolReturns, FqkSetReturns, WfBackReturns
  <2>2. pc' = "done"
    BY <1>1 DEF KeyReturns, FuncPresses, RotaryReturns, VolReturns, FqkSetReturns,
                WfBackReturns
  <2>. QED BY <2>1, <2>2 DEF Rest
<1>2. CASE FuncShifts
  <2>1. pc = "fshift" /\ pc' \in {"fkey", "done"}
    BY <1>2, ResultFacts DEF FuncShifts
  <2>. QED BY <2>1 DEF Rest
<1>3. CASE StepReturns
  <2>1. pc = "nxt" /\ pc' \in {"rot", "done"}
    BY <1>3, ResultFacts DEF StepReturns
  <2>. QED BY <2>1 DEF Rest
<1>4. CASE WfModeReturns
  <2>1. pc = "jwf" /\ pc' \in {"pon", "done"}
    BY <1>4, ResultFacts DEF WfModeReturns
  <2>. QED BY <2>1 DEF Rest
<1>5. CASE WfPowerReturns
  <2>1. pc = "pon" /\ pc' \in {"jback", "done"}
    BY <1>5, ResultFacts DEF WfPowerReturns
  <2>. QED BY <2>1 DEF Rest
<1>6. CASE WfOffReturns
  <2>1. (pc = "goff" /\ pc' = "poff") \/ (pc = "poff" /\ pc' = "jscn")
    BY <1>6, ResultFacts DEF WfOffReturns
  <2>. QED BY <2>1 DEF Rest
<1>7. CASE ScanModeReturns
  <2>1. pc = "jscn" /\ pc' \in {"top", "done"}
    BY <1>7, ResultFacts DEF ScanModeReturns, Ends
  <2>. QED BY <2>1 DEF Rest
<1>8. CASE FrameReturns
  <2>1. pc = "gwf" /\ pc' \in {"top", "goff"}
    BY <1>8, ResultFacts DEF FrameReturns
  <2>. QED BY <2>1 DEF Rest
<1>9. CASE StsReturns \/ GsiReturns
  <2>1. pc \in {"sts", "gsi"} /\ pc' = "top"
    BY <1>9, ResultFacts DEF StsReturns, GsiReturns
  <2>. QED BY <2>1 DEF Rest
<1>. QED BY Zenon, <1>1, <1>2, <1>3, <1>4, <1>5, <1>6, <1>7, <1>8, <1>9

\* The popup is read again only while there are readings left.
LEMMA ReadsFewer ==
    ASSUME TypePlace, TypeData, PlaceInv, FuncReads
    PROVE  pc # "top" /\ Rest \in Nat /\ Rest' \in Nat /\ Rest' < Rest
<1>1. pc = "fgsi" /\ tries' = tries + 1
  BY ResultFacts DEF FuncReads
<1>2. (pc' = "fgsi" /\ tries + 1 < PopupTries) \/ pc' \in {"fshift", "fkey"}
  BY DEF FuncReads
<1>3. tries \in Nat /\ tries < PopupTries /\ PopupTries \in Nat
  BY <1>1 DEF PlaceInv, TypePlace
<1>4. Rest = 3 + (PopupTries - tries)
  BY <1>1 DEF Rest
<1>5. CASE pc' = "fgsi" /\ tries + 1 < PopupTries
  <2>1. Rest' = 3 + (PopupTries - (tries + 1))
    BY <1>1, <1>5 DEF Rest
  <2>. QED BY <1>1, <1>3, <1>4, <1>5, <2>1
<1>6. CASE pc' \in {"fshift", "fkey"}
  <2>1. Rest' \in {2, 3}
    BY <1>6 DEF Rest
  <2>. QED BY <1>1, <1>3, <1>4, <2>1
<1>. QED BY <1>2, <1>5, <1>6

\* The polls of a turn go on in order.
LEMMA PollsFewer ==
    ASSUME TypePlace, TypeData, ModelReturns \/ FqkReturns
    PROVE  pc # "top" /\ Rest \in Nat /\ Rest' \in Nat /\ Rest' < Rest
<1>1. CASE ModelReturns
  <2>1. pc = "mdl" /\ pc' = NextPoll(2, TRUE)
    BY <1>1, ResultFacts DEF ModelReturns
  <2>2. NextPoll(2, TRUE) \in {"top", "fget", "gwf", "sts", "gsi"}
    <3>1. 2 \in 1..3
      OBVIOUS
    <3>. QED BY Zenon, <3>1, NextPollIs
  <2>3. pc' \in {"top", "fget", "gwf", "sts", "gsi"}
    BY Zenon, <2>1, <2>2
  <2>4. Rest = 7
    BY <2>1 DEF Rest
  <2>5. Rest' \in 0..6
    BY <2>3 DEF Rest
  <2>. QED BY <2>1, <2>4, <2>5
<1>2. CASE FqkReturns
  <2>1. pc = "fget" /\ pc' = NextPoll(3, TRUE)
    BY <1>2, ResultFacts DEF FqkReturns
  <2>2. NextPoll(3, TRUE) \in {"top", "gwf", "sts", "gsi"}
    <3>1. 3 \in 1..3
      OBVIOUS
    <3>. QED BY Zenon, <3>1, NextPollIs
  <2>3. pc' \in {"top", "gwf", "sts", "gsi"}
    BY Zenon, <2>1, <2>2
  <2>4. Rest = 6
    BY <2>1 DEF Rest
  <2>5. Rest' \in 0..5
    BY <2>3 DEF Rest
  <2>. QED BY <2>1, <2>4, <2>5
<1>. QED BY <1>1, <1>2

\* Sending leaves the answer to be read.
LEMMA SendLess ==
    ASSUME TypePlace, TypeData, PlaceInv, SendAnswered \/ SendFails
    PROVE  Left' \in Nat /\ Left' < Left
<1>1. \E fate \in {"prompt", "late"} : Send(fate)
  BY DEF SendAnswered, SendFails
<1>2. to = NoHost /\ to' # NoHost /\ pc \in Asking
  BY <1>1, SendFacts DEF TypeData, TypeWire
<1>3. UNCHANGED <<pc, tries>>
  BY <1>1 DEF Send
<1>4. pc # "top" /\ pc' # "top"
  BY <1>2, <1>3, AskingIs
<1>5. Rest' = Rest
  BY <1>3 DEF Rest
<1>6. Rest \in Nat
  <2>1. tries \in 0..PopupTries
    BY DEF TypePlace
  <2>. QED BY <2>1 DEF Rest
<1>. QED BY <1>2, <1>4, <1>5, <1>6 DEF Left

\* A command starts and ends its turn, and a search is over at its end.
LEMMA EndsLess ==
    ASSUME TypePlace, pc # "top", Finish \/ DiscoverEnds
    PROVE  Left' \in Nat /\ Left' < Left
<1>1. CASE Finish
  <2>1. pc = "done" /\ pc' = "top"
    BY <1>1 DEF Finish
  <2>. QED BY <2>1 DEF Left, Rest
<1>2. CASE DiscoverEnds
  <2>1. pc = "disc" /\ pc' = "done"
    BY <1>2 DEF DiscoverEnds
  <2>. QED BY <2>1, Fewer DEF Rest
<1>. QED BY <1>1, <1>2

\* Who else moves the task while it is away from the top of its loop: nobody but
\* a restart, which puts it there.
LEMMA OthersAre == ASSUME [Next]_vars PROVE
    \/ UNCHANGED <<pc, tries, to>>
    \/ Take \/ Tick \/ PollPauses \/ PollStarts
    \/ SendAnswered \/ SendFails \/ Finish \/ DiscoverEnds \/ FuncReads
    \/ ModelReturns \/ FqkReturns
    \/ KeyReturns \/ FuncShifts \/ FuncPresses \/ StepReturns \/ RotaryReturns
    \/ VolReturns \/ FqkSetReturns \/ WfModeReturns \/ WfPowerReturns
    \/ WfBackReturns \/ WfOffReturns \/ ScanModeReturns \/ FrameReturns
    \/ StsReturns \/ GsiReturns
    \/ Restart
BY Zenon DEF Next, Task, Command, Poll, Callers, Environment, vars, Restarted,
    DiscoverHears, KeyPressed, KeyPosted,
    SliderReleased, KeysShown, KeysRefreshed, KeyToggled, WaterfallPressed,
    DiscoverPressed, AddressSaved, Refresh, RebootAsked, ShutdownQueued, LinkUp, LinkDown,
    PowerOff, PowerOn, PopupOpens, PopupCloses

\* Every step of the task, at a place that is not the search's, lowers Left.
LEMMA TaskLess ==
    ASSUME TypePlace, TypeData, PlaceInv, pc # "top", Task, ~DiscoverHears
    PROVE  Left' \in Nat /\ Left' < Left
<1>1. ~(Take \/ Tick \/ PollPauses \/ PollStarts)
  BY DEF Take, Tick, PollPauses, PollStarts
<1>2. CASE SendAnswered \/ SendFails
  BY <1>2, SendLess
<1>3. CASE Finish \/ DiscoverEnds
  BY <1>3, EndsLess
<1>4. CASE FuncReads
  BY Zenon, <1>4, ReadsFewer, Fewer
<1>5. CASE ModelReturns \/ FqkReturns
  BY Zenon, <1>5, PollsFewer, Fewer
<1>6. CASE ~(FuncReads \/ ModelReturns \/ FqkReturns \/ Finish \/ DiscoverEnds
             \/ SendAnswered \/ SendFails)
  <2>1. \/ KeyReturns \/ FuncShifts \/ FuncPresses \/ StepReturns \/ RotaryReturns
        \/ VolReturns \/ FqkSetReturns \/ WfModeReturns \/ WfPowerReturns
        \/ WfBackReturns \/ WfOffReturns \/ ScanModeReturns \/ FrameReturns
        \/ StsReturns \/ GsiReturns
    BY Zenon, <1>1, <1>6 DEF Task, Command, Poll
  <2>. QED BY Zenon, <2>1, ReturnsFewer, Fewer
<1>. QED BY Zenon, <1>2, <1>3, <1>4, <1>5, <1>6

\* No step of a turn takes its end further away.
LEMMA TurnShorter == IInv /\ [Next]_vars => TurnStep
<1>. SUFFICES ASSUME IInv, [Next]_vars, pc # "top"
              PROVE  /\ Left' <= Left
                     /\ Task /\ pc # "disc" => Left' < Left
  BY DEF TurnStep
<1>1. TypePlace /\ TypeData /\ PlaceInv
  BY TypeParts DEF IInv
<1>2. Left \in Nat
  BY <1>1, LeftBound DEF MaxTurn
<1>3. CASE Task /\ ~DiscoverHears
  <2>1. Left' \in Nat /\ Left' < Left
    BY Zenon, <1>1, <1>3, TaskLess
  <2>. QED BY <1>2, <2>1
<1>4. CASE DiscoverHears
  <2>1. pc = "disc" /\ UNCHANGED <<pc, tries, to>>
    BY <1>4 DEF DiscoverHears
  <2>. QED BY <1>2, <2>1 DEF Left, Rest
<1>5. CASE ~Task
  <2>1. UNCHANGED <<pc, tries, to>> \/ Restart
    BY Zenon, <1>5, OthersAre DEF Task, Command, Poll
  <2>2. CASE UNCHANGED <<pc, tries, to>>
    <3>1. Left' = Left
      BY <2>2 DEF Left, Rest
    <3>. QED BY <1>2, <1>5, <3>1
  <2>3. CASE Restart
    <3>1. Left' = 0
      BY <2>3 DEF Restart, Left
    <3>. QED BY <1>2, <1>5, <3>1
  <2>. QED BY <2>1, <2>2, <2>3
<1>. QED BY <1>3, <1>4, <1>5

\* A turn of scanner_task, a command or a round of polls, is over after
\* at most MaxTurn steps of the task: transact is not tried again for ever, a popup
\* is not waited out for ever, and the sequences of waterfall mode come to an end.
THEOREM TurnsEnd == Spec => [](Left \in 0..MaxTurn) /\ [][TurnStep]_vars
<1>1. IInv => Left \in 0..MaxTurn
  BY TypeParts, LeftBound DEF IInv
<1>. QED BY Invariance, <1>1, TurnShorter, PTL DEF Spec
=============================================================================
