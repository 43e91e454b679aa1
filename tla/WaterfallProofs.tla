--------------------------- MODULE WaterfallProofs ---------------------------
(***************************************************************************)
(* Theorems about WaterfallHub, for every number of handlers, of scanners  *)
(* and of loops: overlapping Starts and Stops never leave the hub running  *)
(* without a loop, nor a scanner in waterfall mode for which nobody        *)
(* answers, and without an overlap no loop is out of Stop's reach.         *)
(***************************************************************************)
EXTENDS WaterfallHub, TLAPS

\* Generations are handed out in order, and a running hub's is the latest one:
\* it polls, and no Stop holds its channel.
LoopInv ==
    /\ hstop <= gen
    /\ \A g \in closed : g <= gen
    /\ \A t \in Threads : mine[t] <= gen
    /\ \A g \in Gens : loopPc[g] # "none" => g <= gen
    /\ \A t \in Threads : pc[t] \in {"check", "close"} => mine[t] # 0
    /\ running =>
        /\ gen # 0 /\ hstop \in {0, gen}
        /\ loopPc[gen] \in {"select", "command"} /\ gen \notin closed
        /\ \A t \in Threads : pc[t] \in {"check", "close"} => mine[t] # gen

\* The call at this point will yet send JPM,SCN_MODE or set running.  A Stop
\* whose channel another one has closed may panic instead.
Charged(t) ==
    \/ pc[t] \in {"probe", "undo", "publish", "wait", "restore"}
    \/ pc[t] \in {"check", "close"} /\ mine[t] \notin closed

\* An owed scanner is the selected one, and the hub or a call answers for it.
RestoreInv ==
    /\ owed \ excused \subseteq {host}
    /\ owed \ excused # {} => running \/ \E t \in Threads : Charged(t)

\* Before the first overlap one call is in progress at most.  No stopped loop
\* polls beside a running or starting one, so a loop that gives up clears its
\* own running; and a loop with an open channel is the hub's, running or about
\* to be stopped by the call in progress.
OrphanInv ==
    proc = "up" /\ ~overlapped =>
        /\ \A t, u \in Threads : pc[t] # "idle" /\ pc[u] # "idle" => t = u
        /\ (running \/ \E t \in Threads : pc[t] \in {"start", "enter", "probe", "undo", "publish"})
              => \A g \in closed : ~Live(g)
        /\ \A g \in Gens \ closed : Live(g) =>
              /\ g = hstop
              /\ running \/ \E t \in Threads : pc[t] \in {"check", "close"} /\ mine[t] = g
        /\ \A t \in Threads :
              pc[t] \in {"enter", "probe", "undo", "publish", "check", "close", "wait",
                         "restore", "clear"} => ~running

IInv == TypeOK /\ LoopInv /\ RestoreInv /\ OrphanInv

USE WaterfallAssumption
USE DEF Gens, hubVars, scanVars, Alive, Goto, Step, Returned

-----------------------------------------------------------------------------
\* The invariant holds at the start.
LEMMA Initially == Init => IInv
<1>. SUFFICES ASSUME Init PROVE IInv
  OBVIOUS
<1>. USE DEF Init
<1>1. TypeOK
  <2>1. pc \in [Threads -> PCs] /\ mine \in [Threads -> 0..MaxGen]
    BY DEF PCs
  <2>2. /\ loopPc \in [Gens -> {"none", "select", "command", "exited"}]
        /\ misses \in [Gens -> 0..3]
    OBVIOUS
  <2>3. owed \in SUBSET Scanners /\ excused \in SUBSET Scanners /\ closed \in SUBSET Gens
    OBVIOUS
  <2>. QED BY <2>1, <2>2, <2>3 DEF TypeOK
<1>2. LoopInv
  BY DEF LoopInv
<1>3. RestoreInv
  BY DEF RestoreInv
<1>4. OrphanInv
  BY DEF OrphanInv, Live
<1>. QED BY <1>1, <1>2, <1>3, <1>4 DEF IInv

\* Every step keeps the types.
LEMMA TypeStep ==
    ASSUME TypeOK, LoopInv, [Next]_vars
    PROVE  TypeOK'
<1>. USE DEF TypeOK, PCs
<1>1. ASSUME NEW t \in Threads, StartRequest(t) PROVE TypeOK'
  BY <1>1 DEF StartRequest, Request
<1>2. ASSUME NEW t \in Threads, StopRequest(t) PROVE TypeOK'
  BY <1>2 DEF StopRequest, Request
<1>3. ASSUME NEW t \in Threads, StartRunning(t) PROVE TypeOK'
  BY <1>3 DEF StartRunning
<1>4. ASSUME NEW t \in Threads, StartCheck(t) PROVE TypeOK'
  BY <1>4 DEF StartCheck
<1>5. ASSUME NEW t \in Threads, StartEnter(t) PROVE TypeOK'
  BY <1>5 DEF StartEnter
<1>6. ASSUME NEW t \in Threads, StartProbe(t) PROVE TypeOK'
  BY <1>6 DEF StartProbe
<1>7. ASSUME NEW t \in Threads, StartUndo(t) PROVE TypeOK'
  BY <1>7 DEF StartUndo, LeaveMode
<1>8. ASSUME NEW t \in Threads, StartPublish(t) PROVE TypeOK'
  BY <1>8 DEF StartPublish
<1>9. ASSUME NEW t \in Threads, StopBegin(t) PROVE TypeOK'
  BY <1>9 DEF StopBegin
<1>10. ASSUME NEW t \in Threads, StopCheck(t) PROVE TypeOK'
  BY <1>10 DEF StopCheck
<1>11. ASSUME NEW t \in Threads, StopClose(t) PROVE TypeOK'
  <2>1. mine[t] \in Gens
    BY <1>11 DEF StopClose, LoopInv
  <2>2. pc' \in [Threads -> PCs] /\ closed' \in SUBSET Gens
    BY <1>11, <2>1 DEF StopClose
  <2>. QED BY <1>11, <2>2 DEF StopClose
<1>12. ASSUME NEW t \in Threads, StopPanic(t) PROVE TypeOK'
  BY <1>12 DEF StopPanic
<1>13. ASSUME NEW t \in Threads, StopWaited(t) PROVE TypeOK'
  BY <1>13 DEF StopWaited
<1>14. ASSUME NEW t \in Threads, StopRestore(t) PROVE TypeOK'
  BY <1>14 DEF StopRestore, LeaveMode
<1>15. ASSUME NEW t \in Threads, StopClear(t) PROVE TypeOK'
  BY <1>15 DEF StopClear
<1>16. ASSUME NEW g \in Gens, LoopTick(g) PROVE TypeOK'
  BY <1>16 DEF LoopTick
<1>17. ASSUME NEW g \in Gens, LoopFrame(g) PROVE TypeOK'
  BY <1>17 DEF LoopFrame
<1>18. ASSUME NEW g \in Gens, LoopMiss(g) PROVE TypeOK'
  <2>1. loopPc' \in [Gens -> {"none", "select", "command", "exited"}]
    BY <1>18 DEF LoopMiss
  <2>2. misses' \in [Gens -> 0..3]
    BY <1>18 DEF LoopMiss
  <2>. QED BY <1>18, <2>1, <2>2 DEF LoopMiss
<1>19. ASSUME NEW g \in Gens, LoopGiveUp(g) PROVE TypeOK'
  <2>1. loopPc' \in [Gens -> {"none", "select", "command", "exited"}] /\ misses' \in [Gens -> 0..3]
    BY <1>19 DEF LoopGiveUp
  <2>. QED BY <1>19, <2>1 DEF LoopGiveUp
<1>20. ASSUME NEW g \in Gens, LoopStopped(g) PROVE TypeOK'
  BY <1>20 DEF LoopStopped
<1>21. ASSUME NEW s \in Scanners, SetHost(s) PROVE TypeOK'
  BY <1>21 DEF SetHost
<1>22. CASE Shutdown
  BY <1>22 DEF Shutdown
<1>23. CASE Exit \/ UNCHANGED vars
  BY <1>23 DEF Exit, vars
<1>. QED
  BY <1>1, <1>2, <1>3, <1>4, <1>5, <1>6, <1>7, <1>8, <1>9, <1>10, <1>11, <1>12,
     <1>13, <1>14, <1>15, <1>16, <1>17, <1>18, <1>19, <1>20, <1>21, <1>22, <1>23
     DEF Next, Start, Stop, Loop, Terminated

\* Every step keeps the order of the generations.
LEMMA LoopStep ==
    ASSUME TypeOK, LoopInv, [Next]_vars
    PROVE  LoopInv'
<1>. USE DEF TypeOK, PCs, LoopInv
<1>1. ASSUME NEW t \in Threads, StartRequest(t) PROVE LoopInv'
  BY <1>1 DEF StartRequest, Request
<1>2. ASSUME NEW t \in Threads, StopRequest(t) PROVE LoopInv'
  BY <1>2 DEF StopRequest, Request
<1>3. ASSUME NEW t \in Threads, StartRunning(t) PROVE LoopInv'
  BY <1>3 DEF StartRunning
<1>4. ASSUME NEW t \in Threads, StartCheck(t) PROVE LoopInv'
  BY <1>4 DEF StartCheck
<1>5. ASSUME NEW t \in Threads, StartEnter(t) PROVE LoopInv'
  BY <1>5 DEF StartEnter
<1>6. ASSUME NEW t \in Threads, StartProbe(t) PROVE LoopInv'
  BY <1>6 DEF StartProbe
<1>7. ASSUME NEW t \in Threads, StartUndo(t) PROVE LoopInv'
  BY <1>7 DEF StartUndo, LeaveMode
<1>8. ASSUME NEW t \in Threads, StartPublish(t) PROVE LoopInv'
  BY <1>8 DEF StartPublish
<1>9. ASSUME NEW t \in Threads, StopBegin(t) PROVE LoopInv'
  BY <1>9 DEF StopBegin
<1>10. ASSUME NEW t \in Threads, StopCheck(t) PROVE LoopInv'
  BY <1>10 DEF StopCheck
<1>11. ASSUME NEW t \in Threads, StopClose(t) PROVE LoopInv'
  BY <1>11 DEF StopClose
<1>12. ASSUME NEW t \in Threads, StopPanic(t) PROVE LoopInv'
  <2>1. UNCHANGED <<running, gen, hstop, closed, loopPc>>
    BY <1>12 DEF StopPanic
  <2>2. \A u \in Threads : mine'[u] <= gen /\ (pc'[u] \in {"check", "close"} => pc'[u] = pc[u] /\ mine'[u] = mine[u])
    BY <1>12 DEF StopPanic
  <2>. QED BY <2>1, <2>2
<1>13. ASSUME NEW t \in Threads, StopWaited(t) PROVE LoopInv'
  BY <1>13 DEF StopWaited
<1>14. ASSUME NEW t \in Threads, StopRestore(t) PROVE LoopInv'
  BY <1>14 DEF StopRestore, LeaveMode
<1>15. ASSUME NEW t \in Threads, StopClear(t) PROVE LoopInv'
  BY <1>15 DEF StopClear
<1>16. ASSUME NEW g \in Gens, LoopTick(g) PROVE LoopInv'
  BY <1>16 DEF LoopTick
<1>17. ASSUME NEW g \in Gens, LoopFrame(g) PROVE LoopInv'
  BY <1>17 DEF LoopFrame
<1>18. ASSUME NEW g \in Gens, LoopMiss(g) PROVE LoopInv'
  BY <1>18 DEF LoopMiss
<1>19. ASSUME NEW g \in Gens, LoopGiveUp(g) PROVE LoopInv'
  BY <1>19 DEF LoopGiveUp
<1>20. ASSUME NEW g \in Gens, LoopStopped(g) PROVE LoopInv'
  BY <1>20 DEF LoopStopped
<1>21. ASSUME NEW s \in Scanners, SetHost(s) PROVE LoopInv'
  BY <1>21 DEF SetHost
<1>22. CASE Shutdown
  BY <1>22 DEF Shutdown
<1>23. CASE Exit \/ UNCHANGED vars
  <2>1. UNCHANGED <<pc, mine, running, gen, hstop, closed, loopPc>>
    BY <1>23 DEF Exit, vars
  <2>. QED BY <2>1
<1>. QED
  BY <1>1, <1>2, <1>3, <1>4, <1>5, <1>6, <1>7, <1>8, <1>9, <1>10, <1>11, <1>12,
     <1>13, <1>14, <1>15, <1>16, <1>17, <1>18, <1>19, <1>20, <1>21, <1>22, <1>23
     DEF Next, Start, Stop, Loop, Terminated

\* Every step leaves someone to answer for an owed scanner.
LEMMA RestoreStep ==
    ASSUME TypeOK, LoopInv, RestoreInv, [Next]_vars
    PROVE  RestoreInv'
<1>. USE DEF TypeOK, PCs, LoopInv, RestoreInv, Charged
<1>1. ASSUME NEW t \in Threads, StartRequest(t) PROVE RestoreInv'
  BY <1>1 DEF StartRequest, Request
<1>2. ASSUME NEW t \in Threads, StopRequest(t) PROVE RestoreInv'
  BY <1>2 DEF StopRequest, Request
<1>3. ASSUME NEW t \in Threads, StartRunning(t) PROVE RestoreInv'
  BY <1>3 DEF StartRunning
<1>4. ASSUME NEW t \in Threads, StartCheck(t) PROVE RestoreInv'
  BY <1>4 DEF StartCheck
<1>5. ASSUME NEW t \in Threads, StartEnter(t) PROVE RestoreInv'
  BY <1>5 DEF StartEnter
<1>6. ASSUME NEW t \in Threads, StartProbe(t) PROVE RestoreInv'
  BY <1>6 DEF StartProbe
<1>7. ASSUME NEW t \in Threads, StartUndo(t) PROVE RestoreInv'
  BY <1>7 DEF StartUndo, LeaveMode
<1>8. ASSUME NEW t \in Threads, StartPublish(t) PROVE RestoreInv'
  BY <1>8 DEF StartPublish
<1>9. ASSUME NEW t \in Threads, StopBegin(t) PROVE RestoreInv'
  BY <1>9 DEF StopBegin
<1>10. ASSUME NEW t \in Threads, StopCheck(t) PROVE RestoreInv'
  BY <1>10 DEF StopCheck
<1>11. ASSUME NEW t \in Threads, StopClose(t) PROVE RestoreInv'
  BY <1>11 DEF StopClose
<1>12. ASSUME NEW t \in Threads, StopPanic(t) PROVE RestoreInv'
  BY <1>12 DEF StopPanic
<1>13. ASSUME NEW t \in Threads, StopWaited(t) PROVE RestoreInv'
  BY <1>13 DEF StopWaited
<1>14. ASSUME NEW t \in Threads, StopRestore(t) PROVE RestoreInv'
  BY <1>14 DEF StopRestore, LeaveMode
<1>15. ASSUME NEW t \in Threads, StopClear(t) PROVE RestoreInv'
  BY <1>15 DEF StopClear
<1>16. ASSUME NEW g \in Gens, LoopTick(g) PROVE RestoreInv'
  BY <1>16 DEF LoopTick
<1>17. ASSUME NEW g \in Gens, LoopFrame(g) PROVE RestoreInv'
  BY <1>17 DEF LoopFrame
<1>18. ASSUME NEW g \in Gens, LoopMiss(g) PROVE RestoreInv'
  BY <1>18 DEF LoopMiss
<1>19. ASSUME NEW g \in Gens, LoopGiveUp(g) PROVE RestoreInv'
  BY <1>19 DEF LoopGiveUp
<1>20. ASSUME NEW g \in Gens, LoopStopped(g) PROVE RestoreInv'
  BY <1>20 DEF LoopStopped
<1>21. ASSUME NEW s \in Scanners, SetHost(s) PROVE RestoreInv'
  BY <1>21 DEF SetHost
<1>22. CASE Shutdown
  BY <1>22 DEF Shutdown
<1>23. CASE Exit \/ UNCHANGED vars
  BY <1>23 DEF Exit, vars
<1>. QED
  BY <1>1, <1>2, <1>3, <1>4, <1>5, <1>6, <1>7, <1>8, <1>9, <1>10, <1>11, <1>12,
     <1>13, <1>14, <1>15, <1>16, <1>17, <1>18, <1>19, <1>20, <1>21, <1>22, <1>23
     DEF Next, Start, Stop, Loop, Terminated

\* Every step before the first overlap keeps each loop within reach of a Stop.
LEMMA OrphanStep ==
    ASSUME TypeOK, LoopInv, OrphanInv, [Next]_vars
    PROVE  OrphanInv'
<1>. USE DEF TypeOK, PCs, LoopInv, OrphanInv, Live
<1>1. ASSUME NEW t \in Threads, StartRequest(t) PROVE OrphanInv'
  BY <1>1 DEF StartRequest, Request
<1>2. ASSUME NEW t \in Threads, StopRequest(t) PROVE OrphanInv'
  BY <1>2 DEF StopRequest, Request
<1>3. ASSUME NEW t \in Threads, StartRunning(t) PROVE OrphanInv'
  BY <1>3 DEF StartRunning
<1>4. ASSUME NEW t \in Threads, StartCheck(t) PROVE OrphanInv'
  <2>1. UNCHANGED <<mine, running, hstop, closed, loopPc, overlapped, proc>> /\ ~running
    BY <1>4 DEF StartCheck
  <2>2. pc[t] = "start" /\ pc' = [pc EXCEPT ![t] = "enter"]
    BY <1>4 DEF StartCheck
  <2>3. \A u \in Threads : (pc'[u] # "idle") = (pc[u] # "idle")
    BY <2>2
  <2>. QED BY <2>1, <2>2, <2>3
<1>5. ASSUME NEW t \in Threads, StartEnter(t) PROVE OrphanInv'
  BY <1>5 DEF StartEnter
<1>6. ASSUME NEW t \in Threads, StartProbe(t) PROVE OrphanInv'
  BY <1>6 DEF StartProbe
<1>7. ASSUME NEW t \in Threads, StartUndo(t) PROVE OrphanInv'
  BY <1>7 DEF StartUndo, LeaveMode
<1>8. ASSUME NEW t \in Threads, StartPublish(t) PROVE OrphanInv'
  <2>1. pc[t] = "publish" /\ pc' = [pc EXCEPT ![t] = Returned(t)] /\ running' = TRUE
    BY <1>8 DEF StartPublish
  <2>2. UNCHANGED <<mine, closed, overlapped, proc>> /\ hstop' = gen + 1 /\ gen + 1 \in Gens
    BY <1>8 DEF StartPublish
  <2>3. loopPc' = [loopPc EXCEPT ![gen + 1] = "select"] /\ gen + 1 \notin closed
    BY <1>8 DEF StartPublish, LoopInv
  <2>4. ASSUME proc = "up", ~overlapped
        PROVE  /\ \A u \in Threads : pc[u] # "idle" => u = t
               /\ \A g \in Gens : ~Live(g)
    BY <2>1, <2>4
  <2>5. ASSUME proc = "up", ~overlapped
        PROVE  \A u \in Threads : pc'[u] \in {"idle", "exit"} /\ (pc'[u] # "idle" => u = t)
    BY <2>1, <2>4, <2>5
  <2>6. ASSUME proc = "up", ~overlapped
        PROVE  \A g \in Gens : Live(g)' => g = gen + 1
    BY <2>3, <2>4, <2>6
  <2>. QED BY <2>1, <2>2, <2>3, <2>5, <2>6
<1>9. ASSUME NEW t \in Threads, StopBegin(t) PROVE OrphanInv'
  BY <1>9 DEF StopBegin
<1>10. ASSUME NEW t \in Threads, StopCheck(t) PROVE OrphanInv'
  BY <1>10 DEF StopCheck
<1>11. ASSUME NEW t \in Threads, StopClose(t) PROVE OrphanInv'
  BY <1>11 DEF StopClose
<1>12. ASSUME NEW t \in Threads, StopPanic(t) PROVE OrphanInv'
  <2>1. UNCHANGED <<running, hstop, closed, loopPc, overlapped>>
    BY <1>12 DEF StopPanic
  <2>2. pc[t] = "close" /\ mine[t] \in closed
    BY <1>12 DEF StopPanic
  <2>3. CASE proc' = "crashed"
    BY <2>3
  <2>4. CASE /\ pc' = [pc EXCEPT ![t] = "idle"] /\ mine' = [mine EXCEPT ![t] = 0]
             /\ proc' = proc
    <3>1. \A u \in Threads : u # t => pc'[u] = pc[u] /\ mine'[u] = mine[u]
      BY <2>4
    <3>2. pc'[t] = "idle"
      BY <2>4
    <3>. QED BY <2>1, <2>2, <2>4, <3>1, <3>2
  <2>. QED BY <1>12, <2>3, <2>4 DEF StopPanic
<1>13. ASSUME NEW t \in Threads, StopWaited(t) PROVE OrphanInv'
  BY <1>13 DEF StopWaited
<1>14. ASSUME NEW t \in Threads, StopRestore(t) PROVE OrphanInv'
  BY <1>14 DEF StopRestore, LeaveMode
<1>15. ASSUME NEW t \in Threads, StopClear(t) PROVE OrphanInv'
  <2>1. UNCHANGED <<running, closed, loopPc, overlapped, proc>>
    BY <1>15 DEF StopClear
  <2>2. pc[t] = "clear" /\ pc' = [pc EXCEPT ![t] = Returned(t)]
    BY <1>15 DEF StopClear
  <2>3. ASSUME proc = "up", ~overlapped
        PROVE  /\ ~running
               /\ \A u \in Threads : pc[u] # "idle" => u = t
               /\ \A g \in Gens \ closed : ~Live(g)
    BY <2>2, <2>3
  <2>4. ASSUME proc = "up", ~overlapped
        PROVE  \A u \in Threads : pc'[u] \in {"idle", "exit"} /\ (pc'[u] # "idle" => u = t)
    BY <2>2, <2>3, <2>4
  <2>. QED BY <2>1, <2>3, <2>4
<1>16. ASSUME NEW g \in Gens, LoopTick(g) PROVE OrphanInv'
  BY <1>16 DEF LoopTick
<1>17. ASSUME NEW g \in Gens, LoopFrame(g) PROVE OrphanInv'
  BY <1>17 DEF LoopFrame
<1>18. ASSUME NEW g \in Gens, LoopMiss(g) PROVE OrphanInv'
  BY <1>18 DEF LoopMiss
<1>19. ASSUME NEW g \in Gens, LoopGiveUp(g) PROVE OrphanInv'
  BY <1>19 DEF LoopGiveUp
<1>20. ASSUME NEW g \in Gens, LoopStopped(g) PROVE OrphanInv'
  BY <1>20 DEF LoopStopped
<1>21. ASSUME NEW s \in Scanners, SetHost(s) PROVE OrphanInv'
  BY <1>21 DEF SetHost
<1>22. CASE Shutdown
  BY <1>22 DEF Shutdown
<1>23. CASE Exit \/ UNCHANGED vars
  <2>1. UNCHANGED <<pc, mine, running, hstop, closed, loopPc, overlapped>>
    BY <1>23 DEF Exit, vars
  <2>2. proc' = proc \/ proc' = "exited"
    BY <1>23 DEF Exit, vars
  <2>. QED BY <2>1, <2>2
<1>. QED
  BY <1>1, <1>2, <1>3, <1>4, <1>5, <1>6, <1>7, <1>8, <1>9, <1>10, <1>11, <1>12,
     <1>13, <1>14, <1>15, <1>16, <1>17, <1>18, <1>19, <1>20, <1>21, <1>22, <1>23
     DEF Next, Start, Stop, Loop, Terminated

-----------------------------------------------------------------------------
\* The invariant is inductive.
THEOREM Invariance == Spec => []IInv
<1>1. Init => IInv
  BY Initially
<1>2. IInv /\ [Next]_vars => IInv'
  BY TypeStep, LoopStep, RestoreStep, OrphanStep DEF IInv
<1>. QED BY <1>1, <1>2, PTL DEF Spec

\* Every variable keeps its type.
THEOREM TypeCorrect == Spec => []TypeOK
<1>1. IInv => TypeOK
  BY DEF IInv
<1>. QED BY Invariance, <1>1, PTL

\* The hub never reports a running waterfall that nothing polls.
THEOREM RunningIsPolled == Spec => []RunningHasLoop
<1>1. IInv => RunningHasLoop
  BY DEF IInv, TypeOK, LoopInv, RunningHasLoop, Live
<1>. QED BY Invariance, <1>1, PTL

\* When all is quiet, no scanner is left in waterfall mode, save one that was
\* deselected or stopped answering.
THEOREM ModeRestored == Spec => []ModeIsRestored
<1>1. IInv => ModeIsRestored
  BY DEF IInv, RestoreInv, Charged, ModeIsRestored, Quiet
<1>. QED BY Invariance, <1>1, PTL

\* Before the first overlap, every loop that polls can be stopped: its channel is
\* the hub's or closed.
THEOREM LoopsStoppable == Spec => []NoOrphanLoop
<1>1. IInv => NoOrphanLoop
  BY DEF IInv, OrphanInv, NoOrphanLoop
<1>. QED BY Invariance, <1>1, PTL

-----------------------------------------------------------------------------
\* A Stop that has found its channel open closes it before anyone else can.
ClosedOnce ==
    proc = "up" /\ ~overlapped =>
        \A t \in Threads : pc[t] = "close" => mine[t] \notin closed

\* Every step before the first overlap keeps it so.
LEMMA ClosedOnceStep ==
    ASSUME TypeOK, OrphanInv, ClosedOnce, [Next]_vars
    PROVE  ClosedOnce'
<1>. USE DEF TypeOK, ClosedOnce
<1>1. ASSUME NEW t \in Threads, StartRequest(t) \/ StopRequest(t) PROVE ClosedOnce'
  BY <1>1 DEF StartRequest, StopRequest, Request
<1>2. ASSUME NEW t \in Threads, Start(t) PROVE ClosedOnce'
  <2>1. /\ UNCHANGED <<mine, closed, overlapped, proc>>
        /\ \E l \in PCs \ {"close"} : Goto(t, l)
    BY <1>2 DEF Start, StartRunning, StartCheck, StartEnter, StartProbe, StartUndo,
                StartPublish, PCs
  <2>. QED BY <2>1
<1>3. ASSUME NEW t \in Threads, StopClose(t) PROVE ClosedOnce'
  <2>1. pc[t] = "close" /\ pc' = [pc EXCEPT ![t] = "wait"] /\ UNCHANGED <<overlapped, proc>>
    BY <1>3 DEF StopClose
  <2>2. proc = "up" /\ ~overlapped => \A u \in Threads : pc'[u] # "close"
    BY <2>1 DEF OrphanInv
  <2>. QED BY <2>1, <2>2
<1>4. ASSUME NEW t \in Threads, StopBegin(t) \/ StopCheck(t) PROVE ClosedOnce'
  BY <1>4 DEF StopBegin, StopCheck
<1>5. ASSUME NEW t \in Threads, StopPanic(t) PROVE ClosedOnce'
  BY <1>5 DEF StopPanic
<1>6. ASSUME NEW t \in Threads, StopWaited(t) \/ StopRestore(t) \/ StopClear(t) PROVE ClosedOnce'
  BY <1>6 DEF StopWaited, StopRestore, StopClear
<1>7. ASSUME NEW g \in Gens, Loop(g) PROVE ClosedOnce'
  BY <1>7 DEF Loop, LoopTick, LoopFrame, LoopMiss, LoopGiveUp, LoopStopped
<1>8. ASSUME NEW s \in Scanners, SetHost(s) PROVE ClosedOnce'
  BY <1>8 DEF SetHost
<1>9. CASE Shutdown \/ Exit \/ UNCHANGED vars
  BY <1>9 DEF Shutdown, Exit, vars
<1>. HIDE DEF ClosedOnce
<1>. QED BY Zenon, <1>1, <1>2, <1>3, <1>4, <1>5, <1>6, <1>7, <1>8, <1>9
            DEF Next, Stop, Terminated

\* Stop looks whether its channel is closed and closes it in two steps outside
\* h.mu.  Before the first overlap of two calls that cannot panic.
THEOREM NoDoubleClose == Spec => []ClosedOnce
<1>1. Init => ClosedOnce
  BY DEF Init, ClosedOnce
<1>2. IInv => TypeOK /\ OrphanInv
  BY DEF IInv
<1>3. TypeOK /\ OrphanInv /\ ClosedOnce /\ [Next]_vars => ClosedOnce'
  BY ClosedOnceStep
<1>. QED BY Invariance, <1>1, <1>2, <1>3, PTL DEF Spec
=============================================================================
