---------------------------- MODULE WaterfallHub ----------------------------
(***************************************************************************)
(* The web application's WaterfallHub (src/waterfall.go): it takes the     *)
(* scanner into waterfall mode, polls it from a loop goroutine, and brings *)
(* it back to scan mode.                                                   *)
(*                                                                         *)
(* h.mu is held over single actions only, so handlers, the loop and        *)
(* App.Close interleave between them.  commandMu serialises the commands,  *)
(* so one command is one action; commands that change nothing the          *)
(* properties see (GST, PWF, GWF, and the OFF commands before              *)
(* JPM,SCN_MODE) are one action with their neighbour.  Each command goes   *)
(* to the host selected at that moment.                                    *)
(***************************************************************************)
EXTENDS Integers, FiniteSets

CONSTANTS Threads,      \* goroutines: the HTTP requests' and Main
          Main,         \* the goroutine that runs App.Close
          Scanners,     \* hosts that can be selected
          FirstHost,    \* the one selected at the start
          MaxGen        \* bound: how many loops are started

ASSUME WaterfallAssumption ==
    Main \in Threads /\ FirstHost \in Scanners /\ MaxGen \in Nat

Gens == 1..MaxGen

VARIABLES
    pc,         \* where each thread is
    mine,       \* the generation whose stop channel a Stop has read; 0: nil
    running,    \* h.running
    gen,        \* loops started so far
    hstop,      \* the generation of h.stop and h.done; 0: nil
    closed,     \* generations whose stop channel is closed
    loopPc,     \* where each loop is
    misses,     \* its consecutive failures, counted up to 3
    host,       \* the selected scanner
    owed,       \* scanners that acknowledged JPM,WF_MODE and were sent no
                \* JPM,SCN_MODE since
    excused,    \* owed scanners that a loop gave up on or that are deselected
    overlapped, \* two waterfall calls have overlapped, or a Start began while
                \* a stopped loop was still polling
    proc        \* the process

hubVars == <<running, gen, hstop, closed, loopPc, misses>>
scanVars == <<owed, excused>>
vars == <<pc, mine, hubVars, host, scanVars, overlapped, proc>>

-----------------------------------------------------------------------------
PCs == {"idle", "start", "enter", "probe", "undo", "publish",
        "stop", "check", "close", "wait", "restore", "clear", "exit"}

TypeOK ==
    /\ pc \in [Threads -> PCs]
    /\ mine \in [Threads -> 0..MaxGen]
    /\ running \in BOOLEAN /\ overlapped \in BOOLEAN
    /\ gen \in 0..MaxGen /\ hstop \in 0..MaxGen
    /\ closed \in SUBSET Gens
    /\ loopPc \in [Gens -> {"none", "select", "command", "exited"}]
    /\ misses \in [Gens -> 0..3]
    /\ host \in Scanners
    /\ owed \in SUBSET Scanners /\ excused \in SUBSET Scanners
    /\ proc \in {"up", "closing", "exited", "crashed"}

Init ==
    /\ pc = [t \in Threads |-> "idle"]
    /\ mine = [t \in Threads |-> 0]
    /\ running = FALSE /\ overlapped = FALSE
    /\ gen = 0 /\ hstop = 0 /\ closed = {}
    /\ loopPc = [g \in Gens |-> "none"]
    /\ misses = [g \in Gens |-> 0]
    /\ host = FirstHost
    /\ owed = {} /\ excused = {}
    /\ proc = "up"

Alive == proc \in {"up", "closing"}
Goto(t, l) == pc' = [pc EXCEPT ![t] = l]
Step(t, from, to) == Alive /\ pc[t] = from /\ Goto(t, to)
Live(g) == loopPc[g] \in {"select", "command"}

\* A handler answers its request; App.Close goes on to the exit.
Returned(t) == IF t = Main THEN "exit" ELSE "idle"

-----------------------------------------------------------------------------
(* Requests and shutdown.                                                  *)

Request(t, entry) ==
    /\ proc = "up" /\ t # Main
    /\ Step(t, "idle", entry)
    /\ overlapped' = \/ overlapped
                      \/ \E u \in Threads \ {t} : pc[u] # "idle"
                      \/ (entry = "start" /\ \E g \in closed : Live(g))
    /\ UNCHANGED <<mine, hubVars, host, scanVars, proc>>

StartRequest(t) == Request(t, "start")
StopRequest(t) == Request(t, "stop")

\* App.Close calls Stop only if the waterfall is running.
Shutdown ==
    /\ proc = "up" /\ proc' = "closing"
    /\ Step(Main, "idle", IF running THEN "stop" ELSE "exit")
    /\ UNCHANGED <<mine, hubVars, host, scanVars, overlapped>>

Exit ==
    /\ Alive /\ pc[Main] = "exit" /\ proc' = "exited"
    /\ UNCHANGED <<pc, mine, hubVars, host, scanVars, overlapped>>

\* Manual selection and discovery change the host whatever else goes on.
SetHost(s) ==
    /\ Alive /\ s # host /\ host' = s
    /\ excused' = excused \cup (owed \cap {host})
    /\ UNCHANGED <<pc, mine, hubVars, owed, overlapped, proc>>

-----------------------------------------------------------------------------
(* Start.                                                                  *)

StartRunning(t) ==
    /\ running /\ Step(t, "start", Returned(t))
    /\ UNCHANGED <<mine, hubVars, host, scanVars, overlapped, proc>>
\* Mutant of StartCheck: the test of running is dropped.
FaultyStartCheck(t) ==
    /\ gen < MaxGen /\ Step(t, "start", "enter")
    /\ UNCHANGED <<mine, hubVars, host, scanVars, overlapped, proc>>

StartCheck(t) ==
    /\ ~running /\ gen < MaxGen /\ Step(t, "start", "enter")
    /\ UNCHANGED <<mine, hubVars, host, scanVars, overlapped, proc>>

\* JPM,WF_MODE.  On an error, which may be a lost reply, Start just returns.
StartEnter(t) ==
    /\ \/ /\ Step(t, "enter", "probe")
          /\ owed' = owed \cup {host} /\ excused' = excused \ {host}
       \/ Step(t, "enter", Returned(t)) /\ UNCHANGED scanVars
    /\ UNCHANGED <<mine, hubVars, host, overlapped, proc>>

\* Mutant of StartProbe: a failure returns without turning the mode off.
FaultyProbe(t) ==
    /\ Step(t, "probe", "publish") \/ Step(t, "probe", Returned(t))
    /\ UNCHANGED <<mine, hubVars, host, scanVars, overlapped, proc>>

\* GST, PWF,1,ON and the first GWF,1,ON with its frame: all of them, or a
\* failure that turns waterfall mode off again.
StartProbe(t) ==
    /\ Step(t, "probe", "publish") \/ Step(t, "probe", "undo")
    /\ UNCHANGED <<mine, hubVars, host, scanVars, overlapped, proc>>

\* GWF and PWF OFF, then JPM,SCN_MODE; what becomes of it is not looked at.
LeaveMode == owed' = owed \ {host} /\ excused' = excused \ {host}

StartUndo(t) ==
    /\ Step(t, "undo", Returned(t))
    /\ LeaveMode
    /\ UNCHANGED <<mine, hubVars, host, overlapped, proc>>

StartPublish(t) ==
    /\ gen < MaxGen
    /\ Step(t, "publish", Returned(t))
    /\ running' = TRUE
    /\ gen' = gen + 1 /\ hstop' = gen + 1
    /\ loopPc' = [loopPc EXCEPT ![gen + 1] = "select"]
    /\ UNCHANGED <<mine, closed, misses, host, scanVars, overlapped, proc>>

-----------------------------------------------------------------------------
(* The loop.                                                               *)

\* A tick: the command may wait for commandMu.
LoopTick(g) ==
    /\ Alive /\ loopPc[g] = "select"
    /\ loopPc' = [loopPc EXCEPT ![g] = "command"]
    /\ UNCHANGED <<pc, mine, running, gen, hstop, closed, misses, host, scanVars,
                   overlapped, proc>>

\* Mutant of LoopFrame: a frame takes one miss back instead of all.
FaultyFrame(g) ==
    /\ Alive /\ loopPc[g] = "command"
    /\ loopPc' = [loopPc EXCEPT ![g] = "select"]
    /\ misses' = [misses EXCEPT ![g] = @ - 1]
    /\ UNCHANGED <<pc, mine, running, gen, hstop, closed, host, scanVars,
                   overlapped, proc>>

LoopFrame(g) ==
    /\ Alive /\ loopPc[g] = "command"
    /\ loopPc' = [loopPc EXCEPT ![g] = "select"]
    /\ misses' = [misses EXCEPT ![g] = 0]
    /\ UNCHANGED <<pc, mine, running, gen, hstop, closed, host, scanVars,
                   overlapped, proc>>

\* An invalid frame counts as a miss but is never the last one.
LoopMiss(g) ==
    /\ Alive /\ loopPc[g] = "command"
    /\ loopPc' = [loopPc EXCEPT ![g] = "select"]
    /\ misses' = [misses EXCEPT ![g] = IF @ < 3 THEN @ + 1 ELSE 3]
    /\ UNCHANGED <<pc, mine, running, gen, hstop, closed, host, scanVars,
                   overlapped, proc>>

\* Mutant of LoopGiveUp: the loop ends and the hub is still running.
FaultyGiveUp(g) ==
    /\ Alive /\ loopPc[g] = "command" /\ misses[g] >= 2
    /\ loopPc' = [loopPc EXCEPT ![g] = "exited"]
    /\ misses' = [misses EXCEPT ![g] = 0]
    /\ excused' = excused \cup owed
    /\ UNCHANGED <<pc, mine, running, gen, hstop, closed, host, owed, overlapped, proc>>

\* No answer at the third miss or later: the loop ends, the scanner is left
\* in waterfall mode.
LoopGiveUp(g) ==
    /\ Alive /\ loopPc[g] = "command" /\ misses[g] >= 2
    /\ loopPc' = [loopPc EXCEPT ![g] = "exited"]
    /\ misses' = [misses EXCEPT ![g] = 0]
    /\ running' = FALSE
    /\ excused' = excused \cup owed
    /\ UNCHANGED <<pc, mine, gen, hstop, closed, host, owed, overlapped, proc>>

LoopStopped(g) ==
    /\ Alive /\ loopPc[g] = "select" /\ g \in closed
    /\ loopPc' = [loopPc EXCEPT ![g] = "exited"]
    /\ misses' = [misses EXCEPT ![g] = 0]
    /\ UNCHANGED <<pc, mine, running, gen, hstop, closed, host, scanVars,
                   overlapped, proc>>

-----------------------------------------------------------------------------
(* Stop.                                                                   *)

StopBegin(t) ==
    /\ Step(t, "stop", IF hstop = 0 THEN "restore" ELSE "check")
    /\ mine' = [mine EXCEPT ![t] = hstop]
    /\ running' = FALSE
    /\ UNCHANGED <<gen, hstop, closed, loopPc, misses, host, scanVars, overlapped, proc>>

\* The select that looks whether the channel is closed, and the close, are two
\* steps outside h.mu.
StopCheck(t) ==
    /\ Step(t, "check", IF mine[t] \in closed THEN "wait" ELSE "close")
    /\ UNCHANGED <<mine, hubVars, host, scanVars, overlapped, proc>>

StopClose(t) ==
    /\ mine[t] \notin closed
    /\ Step(t, "close", "wait")
    /\ closed' = closed \cup {mine[t]}
    /\ UNCHANGED <<mine, running, gen, hstop, loopPc, misses, host, scanVars,
                   overlapped, proc>>

\* Closing a closed channel panics: net/http recovers it in a handler, and
\* nothing does in App.Close.
StopPanic(t) ==
    /\ Alive /\ pc[t] = "close" /\ mine[t] \in closed
    /\ \/ t # Main /\ Goto(t, "idle") /\ mine' = [mine EXCEPT ![t] = 0] /\ UNCHANGED proc
       \/ t = Main /\ proc' = "crashed" /\ UNCHANGED <<pc, mine>>
    /\ UNCHANGED <<hubVars, host, scanVars, overlapped>>

\* The loop is done, or 1.5 s have passed.
StopWaited(t) ==
    /\ Step(t, "wait", "restore")
    /\ UNCHANGED <<mine, hubVars, host, scanVars, overlapped, proc>>

StopRestore(t) ==
    /\ Step(t, "restore", "clear")
    /\ LeaveMode
    /\ UNCHANGED <<mine, hubVars, host, overlapped, proc>>

StopClear(t) ==
    /\ Step(t, "clear", Returned(t))
    /\ hstop' = 0
    /\ mine' = [mine EXCEPT ![t] = 0]
    /\ UNCHANGED <<running, gen, closed, loopPc, misses, host, scanVars, overlapped, proc>>

-----------------------------------------------------------------------------
Start(t) ==
    \/ StartRunning(t) \/ StartCheck(t) \/ StartEnter(t) \/ StartProbe(t)
    \/ StartUndo(t) \/ StartPublish(t)
Stop(t) ==
    \/ StopBegin(t) \/ StopCheck(t) \/ StopClose(t) \/ StopPanic(t)
    \/ StopWaited(t) \/ StopRestore(t) \/ StopClear(t)
Loop(g) ==
    \/ LoopTick(g) \/ LoopFrame(g) \/ LoopMiss(g) \/ LoopGiveUp(g) \/ LoopStopped(g)

Terminated == ~Alive /\ UNCHANGED vars

Next ==
    \/ \E t \in Threads : StartRequest(t) \/ StopRequest(t) \/ Start(t) \/ Stop(t)
    \/ \E g \in Gens : Loop(g)
    \/ \E s \in Scanners : SetHost(s)
    \/ Shutdown \/ Exit \/ Terminated

Spec == Init /\ [][Next]_vars

-----------------------------------------------------------------------------
(* Properties.                                                             *)

Quiet == Alive /\ \A t \in Threads : pc[t] = "idle"

\* The hub never reports a running waterfall that nothing polls, however
\* Starts and Stops overlap.
RunningHasLoop == Alive /\ running => \E g \in Gens : Live(g) /\ g \notin closed

\* A scanner that went into waterfall mode is taken out of it: when no call is
\* in progress and the hub is not running, no scanner is owed its
\* JPM,SCN_MODE, save one that was deselected or that stopped answering.
ModeIsRestored == Quiet /\ ~running => owed \subseteq excused

\* As long as waterfall calls do not overlap, and none starts the waterfall
\* while a loop that outlived Stop's 1.5 s still polls (it may give up later and
\* clear the new loop's running), every loop that polls can be stopped: its
\* channel is the hub's, or closed.
NoOrphanLoop ==
    proc = "up" /\ ~overlapped => \A g \in Gens : Live(g) => g = hstop \/ g \in closed
=============================================================================
