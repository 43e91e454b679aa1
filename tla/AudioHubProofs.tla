--------------------------- MODULE AudioHubProofs ---------------------------
(***************************************************************************)
(* Theorems about AudioHub, for every set of requests, of listeners and    *)
(* every number of sessions.                                               *)
(*                                                                         *)
(* The argument: startMu is held exactly at the Locked points, so at most  *)
(* one thread is at one of them, and what such a thread has yet to do      *)
(* determines who answers for the current session.                         *)
(***************************************************************************)
EXTENDS AudioHub, TLAPS

\* Points of a thread that is starting a session and has not yet succeeded.
Starting == {"local", "connect", "setup", "play", "cleanup"}

\* startMu is held by the thread at a Locked point and by no other.
MutexInv ==
    /\ \A t \in Threads : pc[t] \in Locked <=> startMu = t
    /\ starting <=> startMu # NoThread /\ pc[startMu] \in Starting
    /\ running /\ startMu # NoThread => pc[startMu] \in {"first", "stop"}

\* Calls that add or remove an owner are for an owner.
ArgInv == \A t \in Threads : pc[t] \in {"acquire", "existing"} => arg[t] \in Owners

\* The session belongs to someone while it starts and while it runs.
OwnerInv ==
    /\ startMu # NoThread /\ pc[startMu] \in {"local", "connect", "setup", "play", "first"}
           => owners # {}
    /\ running /\ owners = {} => startMu # NoThread /\ pc[startMu] = "stop"

\* A known session without TEARDOWN is the current one, and someone answers
\* for it.
SessionInv ==
    /\ torn \subseteq known
    /\ \A g \in known : g \leq gen
    /\ startMu # NoThread /\ pc[startMu] \in {"connect", "setup"} => gen \notin known
    /\ \A g \in known \ torn :
        /\ g = gen
        /\ running \/ (startMu # NoThread /\ pc[startMu] \in {"play", "cleanup", "teardown"})
    /\ startMu # NoThread /\ pc[startMu] = "play" => gen \in known

\* A connection and a run goroutine that was not told to stop are the current
\* generation's, and outlive neither the session nor the thread that stops it.
RunInv ==
    /\ startMu # NoThread /\ pc[startMu] \in {"connect", "setup", "play", "cleanup"}
           => gen # 0 /\ runPc[gen] = "none"
    /\ running => gen # 0
    /\ conn \subseteq {gen} \cup cut
    /\ gen \in conn => running \/ gen \in cut \/ (startMu # NoThread /\ pc[startMu] \in
                        {"setup", "play", "cleanup", "teardown", "reply", "close"})
    /\ running \/ (startMu # NoThread /\ pc[startMu] \in {"setup", "play", "teardown"})
           => gen \in conn
    /\ startMu # NoThread /\ pc[startMu] \in {"teardown", "reply", "close", "wait"}
           => gen # 0
    /\ \A g \in Gens : runPc[g] # "none" => g \in known /\ g \leq gen
    /\ \A g \in Gens :
        runPc[g] # "none" /\ g \notin stopCh \cup cut
            => /\ g = gen
               /\ running \/ (startMu # NoThread /\ pc[startMu] \in {"teardown", "reply", "close"})

IInv == /\ TypeOK /\ MutexInv /\ ArgInv /\ OwnerInv /\ SessionInv /\ RunInv
        /\ PanicAfterTeardown

USE AudioAssumption
USE DEF Owners, Gens, PCs, Locked, RunPCs, Starting, hubVars, rtspVars, procVars, Alive

-----------------------------------------------------------------------------
(* The invariant holds initially and is kept by every step.                *)

\* The invariant holds when the process has started.
LEMMA Initially == Init => IInv
<1>. SUFFICES ASSUME Init PROVE IInv
  OBVIOUS
<1>. USE DEF Init
<1>1. TypeOK
  <2>1. pc \in [Threads -> PCs] /\ arg \in [Threads -> Owners \cup {"all", "none"}]
    OBVIOUS
  <2>2. runPc \in [Gens -> RunPCs]
    OBVIOUS
  <2>3. 0 \in 0..MaxGen
    OBVIOUS
  <2>4. /\ owners \in SUBSET Owners /\ subs \in SUBSET Listeners
        /\ conn \in SUBSET Gens /\ known \in SUBSET Gens
        /\ torn \in SUBSET Gens /\ stopCh \in SUBSET Gens /\ cut \in SUBSET Gens
    OBVIOUS
  <2>. QED BY <2>1, <2>2, <2>3, <2>4 DEF TypeOK
<1>2. MutexInv /\ ArgInv /\ OwnerInv
  BY DEF MutexInv, ArgInv, OwnerInv
<1>3. SessionInv /\ RunInv /\ PanicAfterTeardown
  BY DEF SessionInv, RunInv, PanicAfterTeardown
<1>. QED BY <1>1, <1>2, <1>3 DEF IInv

\* A thread outside the Locked points does not hold startMu.
LEMMA Outside ==
    ASSUME TypeOK, MutexInv, NEW t \in Threads, pc[t] \notin Locked
    PROVE  startMu # t /\ (startMu # NoThread => startMu \in Threads)
BY DEF TypeOK, MutexInv

\* TEARDOWN keeps the types of the variables it may change.
LEMMA TeardownType ==
    ASSUME TypeOK, NEW g \in Gens, SendTeardown(g)
    PROVE  torn' \in SUBSET Gens /\ srv' \in 0..MaxGen
<1>1. torn' \in {torn, torn \cup {g}} /\ srv' \in {srv, 0}
  BY DEF SendTeardown
<1>2. torn \in SUBSET Gens /\ srv \in 0..MaxGen /\ 0 \in 0..MaxGen
  BY DEF TypeOK
<1>. QED BY <1>1, <1>2

\* A request only sets where its thread is.
LEMMA RequestStep ==
    ASSUME IInv, NEW t \in Threads, Requests(t)
    PROVE  IInv'
<1>1. PICK entry \in {"acquire", "release", "existing"}, owner \in Owners :
            Request(t, entry, owner)
  BY DEF Requests, WebStart, WebStop, RecordStart, RecordStop
<1>2. /\ pc[t] = "idle" /\ pc' = [pc EXCEPT ![t] = entry]
      /\ arg' = [arg EXCEPT ![t] = owner]
      /\ UNCHANGED <<subs, runPc, hubVars, rtspVars, procVars>>
  BY <1>1 DEF Request, Step, Goto
<1>3. startMu # t /\ (startMu # NoThread => startMu \in Threads /\ pc'[startMu] = pc[startMu])
  BY <1>2, Outside DEF IInv, TypeOK
<1>4. TypeOK'
  BY <1>2 DEF IInv, TypeOK
<1>5. MutexInv'
  BY <1>2, <1>3 DEF IInv, TypeOK, MutexInv
<1>6. ArgInv'
  BY <1>2 DEF IInv, TypeOK, ArgInv
<1>7. OwnerInv'
  BY <1>2, <1>3 DEF IInv, OwnerInv
<1>8. SessionInv'
  BY <1>2, <1>3 DEF IInv, SessionInv
<1>9. RunInv'
  BY <1>2, <1>3 DEF IInv, RunInv
<1>10. PanicAfterTeardown'
  BY <1>2 DEF IInv, PanicAfterTeardown
<1>. QED BY <1>4, <1>5, <1>6, <1>7, <1>8, <1>9, <1>10 DEF IInv

\* The signal sends Main to Release("record").
LEMMA ShutdownStep ==
    ASSUME IInv, Shutdown
    PROVE  IInv'
<1>1. /\ pc[Main] = "idle" /\ pc' = [pc EXCEPT ![Main] = "release"]
      /\ arg' = [arg EXCEPT ![Main] = "record"] /\ proc' = "closing"
      /\ UNCHANGED <<subs, runPc, hubVars, rtspVars, panicked>>
  BY DEF Shutdown, Step, Goto
<1>2. startMu # Main /\ (startMu # NoThread => startMu \in Threads /\ pc'[startMu] = pc[startMu])
  BY <1>1, Outside DEF IInv, TypeOK
<1>3. TypeOK'
  BY <1>1 DEF IInv, TypeOK
<1>4. MutexInv' /\ ArgInv'
  BY <1>1, <1>2 DEF IInv, TypeOK, MutexInv, ArgInv
<1>5. OwnerInv' /\ SessionInv'
  BY <1>1, <1>2 DEF IInv, OwnerInv, SessionInv
<1>6. RunInv' /\ PanicAfterTeardown'
  BY <1>1, <1>2 DEF IInv, RunInv, PanicAfterTeardown
<1>. QED BY <1>3, <1>4, <1>5, <1>6 DEF IInv

\* The exit, the scanner and the listeners touch none of the invariant.
LEMMA EnvironmentStep ==
    ASSUME IInv,
           Exit \/ ScannerRestart \/ UNCHANGED vars \/ (\E l \in Listeners : Listen(l) \/ Leave(l))
    PROVE  IInv'
<1>1. /\ UNCHANGED <<pc, arg, runPc, hubVars, conn, known, torn, stopCh, cut, panicked>>
      /\ subs' \in SUBSET Listeners
      /\ srv' \in 0..MaxGen
      /\ proc' \in {"up", "closing", "exited", "crashed"}
  BY DEF IInv, TypeOK, Exit, ScannerRestart, Listen, Leave, vars
<1>2. TypeOK'
  BY <1>1 DEF IInv, TypeOK
<1>3. MutexInv' /\ ArgInv' /\ OwnerInv'
  BY <1>1 DEF IInv, MutexInv, ArgInv, OwnerInv
<1>4. SessionInv' /\ PanicAfterTeardown'
  BY <1>1 DEF IInv, SessionInv, PanicAfterTeardown
<1>5. RunInv'
  BY <1>1 DEF IInv, RunInv
<1>. QED BY <1>2, <1>3, <1>4, <1>5 DEF IInv

\* SETUP makes the current generation known, or fails into the cleanup.
LEMMA RtspSetupStep ==
    ASSUME IInv, NEW t \in Threads, RtspSetup(t)
    PROVE  IInv'
<1>1. /\ startMu = t /\ t # NoThread /\ gen \in Gens /\ pc[t] = "setup"
      /\ UNCHANGED <<arg, subs, runPc, hubVars, conn, torn, stopCh, cut, procVars>>
  BY DEF IInv, TypeOK, MutexInv, RunInv, RtspSetup, Step
<1>2. \/ pc' = [pc EXCEPT ![t] = "cleanup"] /\ known' = known /\ srv' \in {srv, gen}
      \/ pc' = [pc EXCEPT ![t] = "play"] /\ known' = known \cup {gen} /\ srv' = gen
  BY DEF RtspSetup, Step, Goto
<1>3. TypeOK'
  BY <1>1, <1>2 DEF IInv, TypeOK
<1>4. MutexInv' /\ ArgInv' /\ OwnerInv'
  BY <1>1, <1>2 DEF IInv, TypeOK, MutexInv, ArgInv, OwnerInv
<1>5. SessionInv'
  <2>1. CASE known' = known /\ pc' = [pc EXCEPT ![t] = "cleanup"]
    BY <1>1, <2>1 DEF IInv, TypeOK, MutexInv, SessionInv
  <2>2. CASE known' = known \cup {gen} /\ pc' = [pc EXCEPT ![t] = "play"]
    BY <1>1, <2>2 DEF IInv, TypeOK, MutexInv, SessionInv
  <2>. QED BY <1>2, <2>1, <2>2
<1>6. RunInv'
  <2>1. pc[startMu] = "setup" /\ pc'[startMu] \in {"cleanup", "play"}
    BY <1>1, <1>2 DEF IInv, TypeOK
  <2>2. \A g \in known : g \in known'
    BY <1>2
  <2>. QED BY <1>1, <2>1, <2>2 DEF IInv, RunInv
<1>7. PanicAfterTeardown'
  BY <1>1 DEF IInv, PanicAfterTeardown
<1>. QED BY <1>3, <1>4, <1>5, <1>6, <1>7 DEF IInv

\* The cleanup sends TEARDOWN before it gives startMu back.
LEMMA RtspCleanupStep ==
    ASSUME IInv, NEW t \in Threads, RtspCleanup(t)
    PROVE  IInv'
<1>. USE DEF RtspCleanup, SendTeardown, Step, Goto, Return, Unlock
<1>1. startMu = t /\ gen \in Gens
  BY DEF IInv, TypeOK, MutexInv, RunInv
<1>2. torn' \in SUBSET Gens /\ srv' \in 0..MaxGen
  BY <1>1, TeardownType DEF IInv
<1>3. TypeOK'
  BY <1>1, <1>2 DEF IInv, TypeOK
<1>4. MutexInv'
  BY <1>1 DEF IInv, TypeOK, MutexInv
<1>5. ArgInv'
  BY DEF IInv, TypeOK, ArgInv
<1>6. OwnerInv'
  BY <1>1 DEF IInv, TypeOK, MutexInv, ArgInv, OwnerInv
<1>7. SessionInv'
  BY <1>1 DEF IInv, TypeOK, MutexInv, SessionInv
<1>8. RunInv'
  BY <1>1 DEF IInv, TypeOK, MutexInv, SessionInv, RunInv
<1>9. PanicAfterTeardown'
  BY <1>1 DEF IInv, PanicAfterTeardown
<1>. QED BY <1>3, <1>4, <1>5, <1>6, <1>7, <1>8, <1>9 DEF IInv

\* A stop takes the session over from its last owner.
LEMMA StopBeginStep ==
    ASSUME IInv, NEW t \in Threads, StopBegin(t)
    PROVE  IInv'
<1>. USE DEF StopBegin, Step, Goto
<1>1. startMu = t /\ startMu' = t
  BY DEF IInv, TypeOK, MutexInv
<1>2. TypeOK'
  BY <1>1 DEF IInv, TypeOK
<1>3. MutexInv'
  BY <1>1 DEF IInv, TypeOK, MutexInv
<1>4. ArgInv'
  BY DEF IInv, TypeOK, ArgInv
<1>5. OwnerInv'
  BY <1>1 DEF IInv, TypeOK, OwnerInv
<1>6. SessionInv'
  BY <1>1 DEF IInv, TypeOK, MutexInv, SessionInv
<1>7. RunInv'
  BY <1>1 DEF IInv, TypeOK, MutexInv, SessionInv, RunInv
<1>8. PanicAfterTeardown'
  BY DEF IInv, PanicAfterTeardown
<1>. QED BY <1>2, <1>3, <1>4, <1>5, <1>6, <1>7, <1>8 DEF IInv

\* TEARDOWN discharges the current generation.
LEMMA StopTeardownStep ==
    ASSUME IInv, NEW t \in Threads, StopTeardown(t)
    PROVE  IInv'
<1>. USE DEF StopTeardown, SendTeardown, Step, Goto, Return, Unlock
<1>1. startMu = t /\ gen \in Gens
  BY DEF IInv, TypeOK, MutexInv, RunInv
<1>2. torn' \in SUBSET Gens /\ srv' \in 0..MaxGen
  BY <1>1, TeardownType DEF IInv
<1>3. TypeOK'
  BY <1>1, <1>2 DEF IInv, TypeOK
<1>4. MutexInv'
  BY <1>1 DEF IInv, TypeOK, MutexInv
<1>5. ArgInv'
  BY DEF IInv, TypeOK, ArgInv
<1>6. OwnerInv'
  BY <1>1 DEF IInv, TypeOK, MutexInv, ArgInv, OwnerInv
<1>7. SessionInv'
  BY <1>1 DEF IInv, TypeOK, MutexInv, SessionInv
<1>8. RunInv'
  BY <1>1 DEF IInv, TypeOK, MutexInv, SessionInv, RunInv
<1>9. PanicAfterTeardown'
  BY <1>1 DEF IInv, PanicAfterTeardown
<1>. QED BY <1>3, <1>4, <1>5, <1>6, <1>7, <1>8, <1>9 DEF IInv

\* AcquireExisting adds an owner to a session that runs, without startMu.
LEMMA AcquireExistingStep ==
    ASSUME IInv, NEW t \in Threads, AcquireExisting(t)
    PROVE  IInv'
<1>. USE DEF AcquireExisting, Step, Goto, Return, Unlock
<1>1. TypeOK'
  BY DEF IInv, TypeOK, ArgInv
<1>2. MutexInv'
  BY DEF IInv, TypeOK, MutexInv
<1>3. ArgInv'
  BY DEF IInv, TypeOK, ArgInv
<1>4. OwnerInv'
  BY DEF IInv, TypeOK, MutexInv, ArgInv, OwnerInv
<1>5. SessionInv'
  BY DEF IInv, TypeOK, MutexInv, SessionInv
<1>6. RunInv'
  BY DEF IInv, TypeOK, MutexInv, SessionInv, RunInv
<1>7. PanicAfterTeardown'
  BY DEF IInv, PanicAfterTeardown
<1>. QED BY <1>1, <1>2, <1>3, <1>4, <1>5, <1>6, <1>7 DEF IInv

\* Close: the connection goes and the run goroutine is told to stop.
LEMMA StopCloseStep ==
    ASSUME IInv, NEW t \in Threads, StopClose(t)
    PROVE  IInv'
<1>. USE DEF StopClose, Step, Goto, Return, Unlock
<1>1. TypeOK'
  BY DEF IInv, TypeOK, MutexInv, ArgInv, RunInv
<1>2. MutexInv'
  BY DEF IInv, TypeOK, MutexInv
<1>3. ArgInv'
  BY DEF IInv, TypeOK, ArgInv
<1>4. OwnerInv'
  BY DEF IInv, TypeOK, MutexInv, ArgInv, OwnerInv
<1>5. SessionInv'
  BY DEF IInv, TypeOK, MutexInv, SessionInv
<1>6. RunInv'
  BY DEF IInv, TypeOK, MutexInv, SessionInv, RunInv
<1>7. PanicAfterTeardown'
  BY DEF IInv, PanicAfterTeardown
<1>. QED BY <1>1, <1>2, <1>3, <1>4, <1>5, <1>6, <1>7 DEF IInv

\* Release takes startMu exactly when no owner is left.
LEMMA ReleaseStep ==
    ASSUME IInv, NEW t \in Threads, Release(t)
    PROVE  IInv'
<1>. USE DEF Release, Step, Goto, Return, Unlock
<1>1. TypeOK'
  BY DEF IInv, TypeOK, ArgInv
<1>2. MutexInv'
  BY DEF IInv, TypeOK, MutexInv
<1>3. ArgInv'
  BY DEF IInv, TypeOK, ArgInv
<1>4. OwnerInv'
  BY DEF IInv, TypeOK, MutexInv, ArgInv, OwnerInv
<1>5. SessionInv'
  BY DEF IInv, TypeOK, MutexInv, SessionInv
<1>6. RunInv'
  BY DEF IInv, TypeOK, MutexInv, SessionInv, RunInv
<1>7. PanicAfterTeardown'
  BY DEF IInv, PanicAfterTeardown
<1>. QED BY <1>1, <1>2, <1>3, <1>4, <1>5, <1>6, <1>7 DEF IInv

\* setFailure before a generation exists.
LEMMA AcquireLocalFailsStep ==
    ASSUME IInv, NEW t \in Threads, AcquireLocalFails(t)
    PROVE  IInv'
<1>. USE DEF AcquireLocalFails, Step, Goto, Return, Unlock
<1>1. TypeOK'
  BY DEF IInv, TypeOK, ArgInv
<1>2. MutexInv'
  BY DEF IInv, TypeOK, MutexInv
<1>3. ArgInv'
  BY DEF IInv, TypeOK, ArgInv
<1>4. OwnerInv'
  BY DEF IInv, TypeOK, MutexInv, ArgInv, OwnerInv
<1>5. SessionInv'
  BY DEF IInv, TypeOK, MutexInv, SessionInv
<1>6. RunInv'
  BY DEF IInv, TypeOK, MutexInv, SessionInv, RunInv
<1>7. PanicAfterTeardown'
  BY DEF IInv, PanicAfterTeardown
<1>. QED BY <1>1, <1>2, <1>3, <1>4, <1>5, <1>6, <1>7 DEF IInv

\* Joining the session that runs.
LEMMA AcquireRunningStep ==
    ASSUME IInv, NEW t \in Threads, AcquireRunning(t)
    PROVE  IInv'
<1>. USE DEF AcquireRunning, Step, Goto, Return, Unlock
<1>1. TypeOK'
  BY DEF IInv, TypeOK, ArgInv
<1>2. MutexInv'
  BY DEF IInv, TypeOK, MutexInv
<1>3. ArgInv'
  BY DEF IInv, TypeOK, ArgInv
<1>4. OwnerInv'
  BY DEF IInv, TypeOK, MutexInv, ArgInv, OwnerInv
<1>5. SessionInv'
  BY DEF IInv, TypeOK, MutexInv, SessionInv
<1>6. RunInv'
  BY DEF IInv, TypeOK, MutexInv, SessionInv, RunInv
<1>7. PanicAfterTeardown'
  BY DEF IInv, PanicAfterTeardown
<1>. QED BY <1>1, <1>2, <1>3, <1>4, <1>5, <1>6, <1>7 DEF IInv

\* A recovered panic gives startMu back with the connection still open; the
\* generation is marked as cut, and TEARDOWN was written for it.
LEMMA StopPanicStep ==
    ASSUME IInv, NEW t \in Threads, StopPanic(t)
    PROVE  IInv'
<1>. USE DEF StopPanic, Step, Goto, Return, Unlock
<1>1. startMu = t /\ t # NoThread /\ gen \in Gens /\ pc[t] = "reply" /\ ~running
  BY DEF IInv, TypeOK, MutexInv, RunInv
<1>2. gen \in torn /\ cut' = cut \cup {gen} /\ UNCHANGED <<torn, known, gen, conn, runPc, stopCh, running>>
  BY <1>1 DEF IInv, TypeOK, RunInv, SessionInv
<1>3. TypeOK'
  BY <1>1, <1>2 DEF IInv, TypeOK
<1>4. MutexInv' /\ ArgInv' /\ OwnerInv'
  BY <1>1 DEF IInv, TypeOK, MutexInv, ArgInv, OwnerInv
<1>5. SessionInv'
  BY <1>1, <1>2 DEF IInv, TypeOK, MutexInv, SessionInv
<1>6. RunInv'
  BY <1>1, <1>2 DEF IInv, TypeOK, MutexInv, SessionInv, RunInv
<1>7. PanicAfterTeardown'
  BY <1>1, <1>2 DEF IInv, PanicAfterTeardown
<1>. QED BY <1>3, <1>4, <1>5, <1>6, <1>7 DEF IInv

\* Starting a session, or joining the one that runs.
LEMMA AcquireStep ==
    ASSUME IInv, NEW t \in Threads, Acquire(t)
    PROVE  IInv'
<1>. USE DEF IInv, TypeOK, MutexInv, ArgInv, OwnerInv, SessionInv, RunInv,
             PanicAfterTeardown, Step, Goto, Return, Unlock
<1>1. CASE AcquireRunning(t)
  BY <1>1, AcquireRunningStep
<1>2. CASE AcquireStart(t)
  BY <1>2 DEF AcquireStart
<1>3. CASE AcquireLocalFails(t)
  BY <1>3, AcquireLocalFailsStep
<1>4. CASE AcquireLocal(t)
  BY <1>4 DEF AcquireLocal
<1>5. CASE RtspConnect(t)
  BY <1>5 DEF RtspConnect
<1>6. CASE RtspSetup(t)
  BY <1>6, RtspSetupStep
<1>7. CASE RtspFails(t)
  BY <1>7 DEF RtspFails
<1>8. CASE RtspCleanup(t)
  BY <1>8, RtspCleanupStep
<1>9. CASE RtspPlay(t)
  BY <1>9 DEF RtspPlay
<1>10. CASE AcquireReturn(t)
  BY <1>10 DEF AcquireReturn
<1>. QED BY <1>1, <1>2, <1>3, <1>4, <1>5, <1>6, <1>7, <1>8, <1>9, <1>10 DEF Acquire

\* Stopping it.
LEMMA StopSessionStep ==
    ASSUME IInv, NEW t \in Threads, StopSession(t)
    PROVE  IInv'
<1>. USE DEF IInv, TypeOK, MutexInv, ArgInv, OwnerInv, SessionInv, RunInv,
             PanicAfterTeardown, Step, Goto, Return, Unlock
<1>1. CASE StopNothing(t)
  BY <1>1 DEF StopNothing
<1>2. CASE StopBegin(t)
  BY <1>2, StopBeginStep
<1>3. CASE StopTeardown(t)
  BY <1>3, StopTeardownStep
<1>4. CASE StopReply(t)
  BY <1>4 DEF StopReply
<1>5. CASE StopClose(t)
  BY <1>5, StopCloseStep
<1>6. CASE StopReturn(t)
  BY <1>6 DEF StopReturn
<1>7. CASE StopPanic(t)
  BY <1>7, StopPanicStep
<1>. QED BY <1>1, <1>2, <1>3, <1>4, <1>5, <1>6, <1>7 DEF StopSession

\* Every other call.
LEMMA CallStep ==
    ASSUME IInv, NEW t \in Threads, Call(t)
    PROVE  IInv'
<1>. USE DEF IInv, TypeOK, MutexInv, ArgInv, OwnerInv, SessionInv, RunInv,
             PanicAfterTeardown, Step, Goto, Return, Unlock
<1>1. CASE Acquire(t)
  BY <1>1, AcquireStep
<1>2. CASE Release(t)
  BY <1>2, ReleaseStep
<1>3. CASE ForceStop(t)
  BY <1>3 DEF ForceStop
<1>4. CASE StopSession(t)
  BY <1>4, StopSessionStep
<1>5. CASE AcquireExisting(t)
  BY <1>5, AcquireExistingStep
<1>6. CASE RecordSubscribe(t)
  BY <1>6 DEF RecordSubscribe
<1>. QED BY <1>1, <1>2, <1>3, <1>4, <1>5, <1>6 DEF Call

\* The run goroutine.
LEMMA RunLoopStep ==
    ASSUME IInv, NEW g \in Gens, Run(g)
    PROVE  IInv'
<1>. USE DEF IInv, TypeOK, MutexInv, ArgInv, OwnerInv, SessionInv, RunInv,
             PanicAfterTeardown, RunStep, At
<1>1. CASE RunReceive(g)
  BY <1>1 DEF RunReceive
<1>2. CASE RunDeliver(g)
  BY <1>2 DEF RunDeliver
<1>3. CASE RunKeepalive(g)
  BY <1>3 DEF RunKeepalive
<1>4. CASE RunKeptAlive(g)
  BY <1>4 DEF RunKeptAlive
<1>5. CASE RunReturn(g)
  BY <1>5 DEF RunReturn
<1>6. CASE RunPanic(g)
  BY <1>6 DEF RunPanic
<1>. QED BY <1>1, <1>2, <1>3, <1>4, <1>5, <1>6 DEF Run

\* The invariant is inductive.
THEOREM Invariance == Spec => []IInv
<1>1. Init => IInv
  BY Initially
<1>2. IInv /\ [Next]_vars => IInv'
  <2> SUFFICES ASSUME IInv, [Next]_vars PROVE IInv'
    OBVIOUS
  <2>1. ASSUME NEW t \in Threads, Requests(t) PROVE IInv'
    BY <2>1, RequestStep
  <2>2. ASSUME NEW t \in Threads, Call(t) PROVE IInv'
    BY <2>2, CallStep
  <2>3. ASSUME NEW g \in Gens, Run(g) PROVE IInv'
    BY <2>3, RunLoopStep
  <2>4. CASE Shutdown
    BY <2>4, ShutdownStep
  <2>5. CASE \/ Exit \/ ScannerRestart \/ UNCHANGED vars
             \/ \E l \in Listeners : Listen(l) \/ Leave(l)
    BY <2>5, EnvironmentStep
  <2>. QED BY <2>1, <2>2, <2>3, <2>4, <2>5 DEF Next, Terminated
<1>. QED BY <1>1, <1>2, PTL DEF Spec

-----------------------------------------------------------------------------
(* What the invariant gives.                                               *)

\* Every variable keeps its type.
THEOREM TypeCorrect == Spec => []TypeOK
<1>1. IInv => TypeOK
  BY DEF IInv
<1>. QED BY Invariance, <1>1, PTL

\* Acquire's refusal of a second start cannot be reached: only the thread that
\* holds startMu sees starting.
THEOREM StartingLocked == Spec => []StartingIsLocked
<1>1. IInv => StartingIsLocked
  BY DEF IInv, MutexInv, StartingIsLocked
<1>. QED BY Invariance, <1>1, PTL

\* No session the client was granted is dropped without a TEARDOWN.
THEOREM NoneAbandoned == Spec => []NoSessionAbandoned
<1>1. IInv => NoSessionAbandoned
  BY DEF IInv, TypeOK, SessionInv, NoSessionAbandoned, At
<1>. QED BY Invariance, <1>1, PTL

\* The scanner is never connected to twice.
THEOREM AtMostOneConnection == Spec => []OneConnection
<1>1. IInv => OneConnection
  BY DEF IInv, RunInv, OneConnection
<1>. QED BY Invariance, <1>1, PTL

\* A session that runs has an owner, whose Release will stop it.
THEOREM RunningIsOwned == Spec => []SessionHasOwner
<1>1. IInv => SessionHasOwner
  BY DEF IInv, OwnerInv, SessionHasOwner
<1>. QED BY Invariance, <1>1, PTL

\* A panic of the unlocked keepalive comes after the session's TEARDOWN.
THEOREM PanicIsLate == Spec => []PanicAfterTeardown
<1>1. IInv => PanicAfterTeardown
  BY DEF IInv
<1>. QED BY Invariance, <1>1, PTL

-----------------------------------------------------------------------------
(* The hub implements OneSession.                                          *)

\* Where the thread that holds startMu is; "free" when none does.
Holder == IF startMu = NoThread THEN "free" ELSE pc[startMu]

HolderPhase ==
    IF running THEN "live"
    ELSE IF Holder \in {"connect", "setup", "play"} THEN "opening"
    ELSE IF Holder \in {"cleanup", "teardown", "reply", "close"} THEN "closing"
    ELSE "closed"

\* The phase is a function of running and of the holder's place alone.
LEMMA PhaseOfHolder == IInv => Phase = HolderPhase
<1>. SUFFICES ASSUME IInv PROVE Phase = HolderPhase
  OBVIOUS
<1>1. ASSUME NEW S \in SUBSET Locked
      PROVE  At(S) <=> Holder \in S
  <2>1. CASE startMu = NoThread
    BY <2>1 DEF IInv, TypeOK, MutexInv, At, Holder
  <2>2. CASE startMu # NoThread
    BY <2>2 DEF IInv, TypeOK, MutexInv, At, Holder
  <2>. QED BY <2>1, <2>2
<1>2. At({"connect", "setup", "play"}) <=> Holder \in {"connect", "setup", "play"}
  BY <1>1
<1>3. At({"cleanup", "teardown", "reply", "close"})
        <=> Holder \in {"cleanup", "teardown", "reply", "close"}
  BY <1>1
<1>. QED BY <1>2, <1>3 DEF Phase, HolderPhase

\* The same of the next state.
LEMMA PhaseOfHolderNext == (IInv => Phase = HolderPhase)'
BY PhaseOfHolder, PTL

\* What a locked step does to the holder.
LEMMA HolderOf ==
    ASSUME IInv, NEW t \in Threads, pc[t] \in Locked
    PROVE  startMu = t /\ Holder = pc[t] /\ t # NoThread
BY DEF IInv, TypeOK, MutexInv, Holder

\* A step that neither moves the holder nor touches the session is a stutter.
LEMMA Stutter ==
    ASSUME IInv, IInv', UNCHANGED <<running, gen, known, torn>>,
           \/ Holder' = Holder
           \/ {Holder, Holder'} \subseteq {"free", "local", "first", "stop", "wait"}
    PROVE  UNCHANGED Promise!vars
<1>1. Phase' = Phase
  BY PhaseOfHolder, PhaseOfHolderNext DEF HolderPhase
<1>. QED BY <1>1 DEF Promise!vars

\* Requests, the signal, the scanner, the listeners and the run goroutine are
\* stutters of the promise.
LEMMA OtherStutters ==
    ASSUME IInv, IInv',
           \/ \E t \in Threads : Requests(t)
           \/ \E g \in Gens : Run(g)
           \/ \E l \in Listeners : Listen(l) \/ Leave(l)
           \/ Shutdown \/ Exit \/ ScannerRestart \/ UNCHANGED vars
    PROVE  UNCHANGED Promise!vars
<1>1. CASE \E t \in Threads : Requests(t)
  <2>1. PICK t \in Threads, entry \in {"acquire", "release", "existing"}, owner \in Owners :
              Request(t, entry, owner)
    BY <1>1 DEF Requests, WebStart, WebStop, RecordStart, RecordStop
  <2>2. /\ pc[t] = "idle" /\ pc' = [pc EXCEPT ![t] = entry]
        /\ UNCHANGED <<running, gen, known, torn, startMu>>
    BY <2>1 DEF Request, Step, Goto
  <2>3. Holder' = Holder
    BY <2>2, Outside DEF IInv, TypeOK, Holder
  <2>. QED BY <2>2, <2>3, Stutter
<1>2. CASE \E g \in Gens : Run(g)
  <2>1. UNCHANGED <<pc, running, gen, known, torn, startMu>>
    BY <1>2 DEF Run, RunReceive, RunDeliver, RunKeepalive, RunKeptAlive, RunReturn, RunPanic
  <2>2. Holder' = Holder
    BY <2>1 DEF Holder
  <2>. QED BY <2>1, <2>2, Stutter
<1>3. CASE Shutdown
  <2>1. /\ pc[Main] = "idle" /\ pc' = [pc EXCEPT ![Main] = "release"]
        /\ UNCHANGED <<running, gen, known, torn, startMu>>
    BY <1>3 DEF Shutdown, Step, Goto
  <2>2. Holder' = Holder
    BY <2>1, Outside DEF IInv, TypeOK, Holder
  <2>. QED BY <2>1, <2>2, Stutter
<1>4. CASE \/ Exit \/ ScannerRestart \/ UNCHANGED vars
           \/ \E l \in Listeners : Listen(l) \/ Leave(l)
  <2>1. UNCHANGED <<pc, running, gen, known, torn, startMu>>
    BY <1>4 DEF Exit, ScannerRestart, Listen, Leave, vars
  <2>2. Holder' = Holder
    BY <2>1 DEF Holder
  <2>. QED BY <2>1, <2>2, Stutter
<1>. QED BY <1>1, <1>2, <1>3, <1>4

\* Acquire opens, is granted, plays, or gives up with a TEARDOWN.
LEMMA AcquireKeepsPromise ==
    ASSUME IInv, IInv', NEW t \in Threads, Acquire(t)
    PROVE  [Promise!Next]_(Promise!vars)
<1>. USE DEF Step, Goto
<1>0. Phase = HolderPhase /\ Phase' = HolderPhase'
  BY PhaseOfHolder, PhaseOfHolderNext
<1>1. CASE AcquireRunning(t) \/ AcquireStart(t) \/ AcquireLocalFails(t) \/ AcquireReturn(t)
  <2>1. UNCHANGED <<gen, known, torn>> /\ (running' = running \/ AcquireLocalFails(t))
    BY <1>1 DEF AcquireRunning, AcquireStart, AcquireLocalFails, AcquireReturn
  <2>2. AcquireLocalFails(t) => running' = running
    BY HolderOf DEF AcquireLocalFails, IInv, TypeOK, MutexInv
  <2>3. {Holder, Holder'} \subseteq {"free", "local", "first"}
    BY <1>1, HolderOf DEF AcquireRunning, AcquireStart, AcquireLocalFails, AcquireReturn,
                Unlock, Holder, IInv, TypeOK
  <2>. QED BY <2>1, <2>2, <2>3, Stutter
<1>2. CASE AcquireLocal(t)
  <2>1. Holder = "local" /\ Holder' = "connect" /\ ~running /\ ~running'
    BY <1>2, HolderOf DEF AcquireLocal, Holder, IInv, TypeOK, MutexInv
  <2>2. gen' \notin known' /\ gen' \notin torn'
    BY <1>2 DEF AcquireLocal, IInv, TypeOK, SessionInv
  <2>. QED BY <1>0, <2>1, <2>2 DEF HolderPhase, Promise!Next, Promise!Open
<1>3. CASE RtspConnect(t)
  <2>1. Holder = "connect" /\ Holder' = "setup" /\ UNCHANGED <<running, gen, known, torn>>
    BY <1>3, HolderOf DEF RtspConnect, Holder, IInv, TypeOK
  <2>. QED BY <1>0, <2>1 DEF HolderPhase, Promise!vars
<1>4. CASE RtspSetup(t)
  <2>1. Holder = "setup" /\ ~running /\ UNCHANGED <<running, gen, torn, startMu>> /\ startMu = t
    BY <1>4, HolderOf DEF RtspSetup, IInv, TypeOK, MutexInv
  <2>2. CASE pc' = [pc EXCEPT ![t] = "cleanup"] /\ known' = known
    <3>1. Holder' = "cleanup"
      BY <2>1, <2>2 DEF Holder, IInv, TypeOK
    <3>. QED BY <1>0, <2>1, <2>2, <3>1 DEF HolderPhase, Promise!Next, Promise!Stop
  <2>3. CASE pc' = [pc EXCEPT ![t] = "play"] /\ known' = known \cup {gen}
    <3>1. Holder' = "play"
      BY <2>1, <2>3 DEF Holder, IInv, TypeOK
    <3>2. gen \notin known /\ gen' \in known'
      BY <2>1, <2>3 DEF Holder, IInv, SessionInv
    <3>. QED BY <1>0, <2>1, <3>1, <3>2 DEF HolderPhase, Promise!Next, Promise!Grant
  <2>. QED BY <1>4, <2>2, <2>3 DEF RtspSetup
<1>5. CASE RtspFails(t)
  <2>1. /\ Holder \in {"connect", "play"} /\ Holder' = "cleanup"
        /\ ~running /\ UNCHANGED <<running, gen, known, torn>>
    BY <1>5, HolderOf DEF RtspFails, Holder, IInv, TypeOK, MutexInv
  <2>. QED BY <1>0, <2>1 DEF HolderPhase, Promise!Next, Promise!Stop
<1>6. CASE RtspCleanup(t)
  <2>1. Holder = "cleanup" /\ Holder' = "free" /\ ~running /\ ~running'
    BY <1>6, HolderOf DEF RtspCleanup, Unlock, Holder, IInv, MutexInv
  <2>2. UNCHANGED <<gen, known>> /\ (gen \in torn' <=> gen \in known)
    BY <1>6 DEF RtspCleanup, SendTeardown, IInv, SessionInv
  <2>. QED BY <1>0, <2>1, <2>2 DEF HolderPhase, Promise!Next, Promise!Close
<1>7. CASE RtspPlay(t)
  <2>1. /\ Holder = "play" /\ ~running /\ running'
        /\ UNCHANGED <<gen, known, torn>>
    BY <1>7, HolderOf DEF RtspPlay, Holder, IInv, MutexInv
  <2>2. gen \in known
    BY <2>1 DEF Holder, IInv, SessionInv
  <2>. QED BY <1>0, <2>1, <2>2 DEF HolderPhase, Promise!Next, Promise!Play
<1>. QED BY <1>1, <1>2, <1>3, <1>4, <1>5, <1>6, <1>7 DEF Acquire

\* stopSession tears down before it closes; the other calls stutter.
LEMMA CallKeepsPromise ==
    ASSUME IInv, IInv', NEW t \in Threads, Call(t)
    PROVE  [Promise!Next]_(Promise!vars)
<1>. USE DEF Step, Goto
<1>0. Phase = HolderPhase /\ Phase' = HolderPhase'
  BY PhaseOfHolder, PhaseOfHolderNext
<1>1. CASE Release(t) \/ ForceStop(t) \/ StopNothing(t) \/ StopReturn(t)
  <2>1. UNCHANGED <<running, gen, known, torn>>
    BY <1>1 DEF Release, ForceStop, StopNothing, StopReturn
  <2>2. {Holder, Holder'} \subseteq {"free", "stop", "wait"}
    BY <1>1, HolderOf DEF Release, ForceStop, StopNothing, StopReturn, Unlock,
                Holder, IInv, TypeOK
  <2>. QED BY <2>1, <2>2, Stutter
<1>2. CASE AcquireExisting(t) \/ RecordSubscribe(t)
  <2>1. UNCHANGED <<running, gen, known, torn, startMu>> /\ pc[t] \notin Locked
    BY <1>2 DEF AcquireExisting, RecordSubscribe
  <2>2. \E l \in PCs : pc' = [pc EXCEPT ![t] = l]
    BY <1>2 DEF AcquireExisting, RecordSubscribe, Return
  <2>3. Holder' = Holder
    BY <2>1, <2>2, Outside DEF IInv, TypeOK, Holder
  <2>. QED BY <2>1, <2>3, Stutter
<1>3. CASE StopBegin(t)
  <2>1. /\ Holder = "stop" /\ Holder' = "teardown" /\ ~running'
        /\ UNCHANGED <<gen, known, torn>>
    BY <1>3, HolderOf DEF StopBegin, Holder, IInv, TypeOK
  <2>2. running
    BY <1>3, HolderOf DEF StopBegin, IInv, MutexInv
  <2>. QED BY <1>0, <2>1, <2>2 DEF HolderPhase, Promise!Next, Promise!Stop
<1>4. CASE StopTeardown(t)
  <2>1. /\ Holder = "teardown" /\ Holder' = "reply" /\ ~running
        /\ UNCHANGED <<running, gen, known>>
    BY <1>4, HolderOf DEF StopTeardown, Holder, IInv, TypeOK, MutexInv
  <2>2. CASE gen \notin known /\ torn' = torn
    BY <1>0, <2>1, <2>2 DEF HolderPhase, Promise!vars
  <2>3. CASE gen \in known /\ torn' = torn \cup {gen}
    BY <1>0, <2>1, <2>3 DEF HolderPhase, Promise!Next, Promise!Teardown
  <2>. QED BY <1>4, <2>2, <2>3 DEF StopTeardown, SendTeardown
<1>5. CASE StopReply(t)
  <2>1. Holder = "reply" /\ Holder' = "close" /\ UNCHANGED <<running, gen, known, torn>>
    BY <1>5, HolderOf DEF StopReply, Holder, IInv, TypeOK
  <2>. QED BY <1>0, <2>1 DEF HolderPhase, Promise!vars
<1>6. CASE StopClose(t)
  <2>1. /\ Holder = "close" /\ Holder' = "wait" /\ ~running
        /\ UNCHANGED <<running, gen, known, torn>>
    BY <1>6, HolderOf DEF StopClose, Holder, IInv, TypeOK, MutexInv
  <2>2. gen \in torn <=> gen \in known
    BY <2>1 DEF Holder, IInv, SessionInv
  <2>. QED BY <1>0, <2>1, <2>2 DEF HolderPhase, Promise!Next, Promise!Close
<1>7. CASE StopPanic(t)
  <2>1. /\ Holder = "reply" /\ Holder' \in {"reply", "free"} /\ ~running
        /\ UNCHANGED <<running, gen, known, torn>>
    BY <1>7, HolderOf DEF StopPanic, Unlock, Holder, IInv, TypeOK, MutexInv
  <2>2. gen \in torn <=> gen \in known
    BY <2>1 DEF Holder, IInv, SessionInv
  <2>. QED BY <1>0, <2>1, <2>2 DEF HolderPhase, Promise!Next, Promise!Close, Promise!vars
<1>8. CASE Acquire(t)
  BY <1>8, AcquireKeepsPromise
<1>. QED BY <1>1, <1>2, <1>3, <1>4, <1>5, <1>6, <1>7, <1>8 DEF Call, StopSession

\* Seen from the scanner the hub is a client that holds one session at a time
\* and tears each one down before it closes the connection.
THEOREM Implementation == Spec => ImplementsOneSession
<1>1. Init => Promise!Init
  BY DEF Init, Promise!Init, Phase, At
<1>2. IInv /\ IInv' /\ [Next]_vars => [Promise!Next]_(Promise!vars)
  <2> SUFFICES ASSUME IInv, IInv', [Next]_vars PROVE [Promise!Next]_(Promise!vars)
    OBVIOUS
  <2>1. CASE \E t \in Threads : Call(t)
    BY <2>1, CallKeepsPromise
  <2>2. CASE ~ \E t \in Threads : Call(t)
    <3>1. UNCHANGED Promise!vars
      BY <2>2, OtherStutters DEF Next, Terminated
    <3>. QED BY <3>1
  <2>. QED BY <2>1, <2>2
<1>. QED BY <1>1, <1>2, Invariance, PTL DEF Spec, ImplementsOneSession, Promise!Spec

-----------------------------------------------------------------------------
(* Every call ends: what ShutdownEnds rests on.                            *)

\* Steps a call has left at a place of it, at most; App.Close has its
\* ForceStop before it as long as it is at the recorder's Release.
Rank(l) ==
    CASE l \in {"idle", "exit"} -> 0 [] l \in {"first", "cleanup", "wait"} -> 1
      [] l \in {"play", "close"} -> 2 [] l \in {"setup", "reply"} -> 3
      [] l \in {"connect", "teardown"} -> 4 [] l \in {"local", "stop"} -> 5
      [] l \in {"acquire", "release", "force"} -> 6
      [] l = "subscribe" -> 7 [] OTHER -> 8
Left(t) == Rank(pc[t]) + (IF t = Main /\ arg[t] # "all" THEN 6 ELSE 0)
MaxSteps == 14

\* Every step of a call brings its end nearer, and nobody else's step takes it
\* further away; only a crash of the process is no such step.
EndNearer == \A t \in Threads : pc[t] # "idle" =>
    /\ Left(t)' <= Left(t)
    /\ Call(t) /\ Alive' => Left(t)' < Left(t)

\* A call has at most MaxSteps steps left.
LEMMA LeftBound == ASSUME TypeOK, NEW t \in Threads PROVE Left(t) \in 0..MaxSteps
<1>1. Rank(pc[t]) \in 0..8
  BY DEF TypeOK, Rank
<1>. HIDE DEF Rank
<1>. QED BY <1>1 DEF Left, MaxSteps

\* A return leaves nothing but ForceStop to do.
LEMMA ReturnNearer ==
    ASSUME TypeOK, NEW t \in Threads, Return(t), pc[t] \notin {"idle", "exit"}
    PROVE  Left(t)' < Left(t)
<1>1. Rank(pc[t]) \in 1..8
  BY DEF TypeOK, Rank
<1>2. CASE t # Main
  <2>1. pc'[t] = "idle"
    BY <1>2 DEF TypeOK, Return, Goto
  <2>. QED BY <1>1, <1>2, <2>1 DEF Left, Rank
<1>3. CASE t = Main /\ arg[t] = "all"
  <2>1. pc'[t] = "exit" /\ arg'[t] = "all"
    BY <1>3 DEF TypeOK, Return, Goto
  <2>. QED BY <1>1, <1>3, <2>1 DEF Left, Rank
<1>4. CASE t = Main /\ arg[t] # "all"
  <2>1. pc'[t] = "force" /\ arg'[t] = "all"
    BY <1>4 DEF TypeOK, Return, Goto
  <2>. QED BY <1>1, <1>4, <2>1 DEF Left, Rank
<1>. QED BY <1>2, <1>3, <1>4

\* A call that does not return goes to a later place of its own.
Later(l) ==
    CASE l = "acquire" -> {"local"} [] l = "local" -> {"connect"}
      [] l = "connect" -> {"setup", "cleanup"} [] l = "setup" -> {"play", "cleanup"}
      [] l = "play" -> {"first", "cleanup"} [] l \in {"release", "force"} -> {"stop"}
      [] l = "stop" -> {"teardown"} [] l = "teardown" -> {"reply"}
      [] l = "reply" -> {"close"} [] l = "close" -> {"wait"}
      [] l = "existing" -> {"subscribe"} [] l = "subscribe" -> {"release"}
      [] OTHER -> {}
LEMMA CallGoes ==
    ASSUME TypeOK, NEW t \in Threads, Call(t)
    PROVE  /\ pc[t] \notin {"idle", "exit"}
           /\ \/ ~Alive' /\ UNCHANGED <<pc, arg>>
              \/ Return(t)
              \/ /\ UNCHANGED arg
                 /\ \E l \in Later(pc[t]) : Goto(t, l)
<1>. USE DEF TypeOK, Later
<1>1. CASE AcquireRunning(t) \/ AcquireStart(t)
  BY <1>1 DEF AcquireRunning, AcquireStart, Step
<1>2. CASE AcquireLocalFails(t) \/ AcquireLocal(t)
  BY <1>2 DEF AcquireLocalFails, AcquireLocal, Step, Unlock
<1>3. CASE RtspConnect(t) \/ RtspSetup(t) \/ RtspFails(t)
  BY <1>3 DEF RtspConnect, RtspSetup, RtspFails, Step
<1>4. CASE RtspCleanup(t)
  BY <1>4 DEF RtspCleanup, Unlock
<1>5. CASE RtspPlay(t) \/ AcquireReturn(t)
  BY <1>5 DEF RtspPlay, AcquireReturn, Step, Unlock
<1>6. CASE Release(t) \/ ForceStop(t)
  BY <1>6 DEF Release, ForceStop, Step
<1>7. CASE StopNothing(t) \/ StopBegin(t) \/ StopTeardown(t) \/ StopReply(t)
  BY <1>7 DEF StopNothing, StopBegin, StopTeardown, StopReply, Step, Unlock
<1>8. CASE StopPanic(t)
  BY <1>8 DEF StopPanic, Unlock
<1>9. CASE StopClose(t) \/ StopReturn(t)
  BY <1>9 DEF StopClose, StopReturn, Step, Unlock
<1>10. CASE AcquireExisting(t) \/ RecordSubscribe(t)
  BY <1>10 DEF AcquireExisting, RecordSubscribe
<1>. HIDE DEF Later, TypeOK
<1>. QED BY Zenon, <1>1, <1>2, <1>3, <1>4, <1>5, <1>6, <1>7, <1>8, <1>9, <1>10
            DEF Call, Acquire, StopSession

\* A later place is nearer to the end.
LEMMA LaterNearer ==
    ASSUME TypeOK, NEW t \in Threads, pc[t] \notin {"idle", "exit"},
           NEW l \in Later(pc[t]), Goto(t, l), UNCHANGED arg
    PROVE  Left(t)' < Left(t)
<1>1. pc[t] \in PCs \ {"idle", "exit"} /\ pc'[t] = l
  BY DEF TypeOK, Goto
<1>2. Rank(l) < Rank(pc[t])
  BY <1>1 DEF Later, Rank
<1>3. Rank(l) \in 0..8 /\ Rank(pc[t]) \in 0..8
  BY <1>1 DEF Rank
<1>. HIDE DEF Rank
<1>. QED BY <1>1, <1>2, <1>3 DEF Left

\* A step of one thread leaves the calls of the others where they are.
LEMMA OthersLeave ==
    ASSUME TypeOK, NEW t \in Threads, NEW u \in Threads \ {t}, Requests(u) \/ Call(u)
    PROVE  pc'[t] = pc[t] /\ arg'[t] = arg[t]
<1>. USE DEF TypeOK
<1>1. CASE Requests(u)
  <2>1. PICK entry, owner : Request(u, entry, owner)
    BY <1>1 DEF Requests, WebStart, WebStop, RecordStart, RecordStop
  <2>. QED BY <2>1 DEF Request, Step, Goto
<1>2. CASE Call(u)
  <2>1. \/ UNCHANGED <<pc, arg>>
        \/ Return(u)
        \/ UNCHANGED arg /\ \E l \in Later(pc[u]) : Goto(u, l)
    BY Zenon, <1>2, CallGoes
  <2>2. CASE Return(u)
    BY <2>2 DEF Return, Goto
  <2>3. CASE UNCHANGED arg /\ \E l \in Later(pc[u]) : Goto(u, l)
    BY <2>3 DEF Goto
  <2>. QED BY <2>1, <2>2, <2>3
<1>. QED BY <1>1, <1>2

\* Nothing but a call, a request or the shutdown moves a thread.
LEMMA Still ==
    ASSUME [Next]_vars, ~Shutdown, ~\E t \in Threads : Requests(t) \/ Call(t)
    PROVE  UNCHANGED <<pc, arg>>
<1>1. ASSUME NEW g \in Gens, Run(g) PROVE UNCHANGED <<pc, arg>>
  BY <1>1 DEF Run, RunReceive, RunDeliver, RunKeepalive, RunKeptAlive, RunReturn, RunPanic
<1>2. ASSUME NEW l \in Listeners, Listen(l) \/ Leave(l) PROVE UNCHANGED <<pc, arg>>
  BY <1>2 DEF Listen, Leave
<1>3. CASE Exit \/ ScannerRestart \/ Terminated \/ UNCHANGED vars
  BY <1>3 DEF Exit, ScannerRestart, Terminated, vars
<1>. QED BY Zenon, <1>1, <1>2, <1>3 DEF Next

\* Every step brings the end of the calls nearer.
LEMMA StepNearer ==
    ASSUME TypeOK, TypeOK', [Next]_vars
    PROVE  EndNearer
<1>. SUFFICES ASSUME NEW t \in Threads, pc[t] # "idle"
              PROVE  /\ Left(t)' <= Left(t)
                     /\ Call(t) /\ Alive' => Left(t)' < Left(t)
  BY DEF EndNearer
<1>1. Left(t) \in Nat /\ Left(t)' \in Nat
  <2>1. Left(t) \in 0..MaxSteps
    BY LeftBound
  <2>2. Left(t)' \in 0..MaxSteps
    <3>1. Rank(pc'[t]) \in 0..8
      BY DEF TypeOK, Rank
    <3>. HIDE DEF Rank
    <3>. QED BY <3>1 DEF Left, MaxSteps
  <2>. QED BY <2>1, <2>2 DEF MaxSteps
<1>2. CASE Call(t)
  <2>1. /\ pc[t] \notin {"idle", "exit"}
        /\ \/ ~Alive' /\ UNCHANGED <<pc, arg>>
           \/ Return(t)
           \/ UNCHANGED arg /\ \E l \in Later(pc[t]) : Goto(t, l)
    BY Zenon, <1>2, CallGoes
  <2>2. CASE ~Alive' /\ UNCHANGED <<pc, arg>>
    <3>1. Left(t)' = Left(t)
      BY <2>2 DEF Left
    <3>. QED BY <1>1, <2>2, <3>1
  <2>3. CASE Return(t)
    BY <1>1, <2>1, <2>3, ReturnNearer
  <2>4. CASE UNCHANGED arg /\ \E l \in Later(pc[t]) : Goto(t, l)
    BY <1>1, <2>1, <2>4, LaterNearer
  <2>. QED BY <2>1, <2>2, <2>3, <2>4
<1>3. CASE ~Call(t)
  <2>1. pc'[t] = pc[t] /\ arg'[t] = arg[t]
    <3>1. CASE Shutdown
      BY <3>1 DEF Shutdown, Step, Goto, TypeOK
    <3>2. CASE \E u \in Threads : Requests(u) \/ Call(u)
      <4>1. PICK u \in Threads : Requests(u) \/ Call(u)
        BY <3>2
      <4>2. ~Requests(t)
        BY DEF Requests, WebStart, WebStop, RecordStart, RecordStop, Request, Step
      <4>3. u # t
        BY Zenon, <1>3, <4>1, <4>2
      <4>. QED BY Zenon, <4>1, <4>3, OthersLeave
    <3>. QED BY Zenon, <3>1, <3>2, Still
  <2>2. Left(t)' = Left(t)
    BY <2>1 DEF Left
  <2>. QED BY <1>1, <1>3, <2>2
<1>. QED BY <1>2, <1>3

\* Every call of the hub, and App.Close, is over after at most MaxSteps steps of
\* its own, whichever requests are lost and whatever the others do; with the
\* fairness of FairSpec that is why the shutdown ends.
THEOREM CallsEnd ==
    Spec => /\ [](\A t \in Threads : Left(t) \in 0..MaxSteps)
            /\ [][EndNearer]_vars
<1>1. IInv => TypeOK
  BY DEF IInv
<1>2. TypeOK => \A t \in Threads : Left(t) \in 0..MaxSteps
  BY LeftBound
<1>3. TypeOK /\ TypeOK' /\ [Next]_vars => EndNearer
  BY StepNearer
<1>. QED BY Invariance, <1>1, <1>2, <1>3, PTL DEF Spec
=============================================================================
