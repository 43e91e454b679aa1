------------------------------ MODULE AudioHub ------------------------------
(***************************************************************************)
(* The web application's AudioHub and RTSPClient (src/audio.go) against    *)
(* the scanner's RTSP server, which holds at most one session.             *)
(*                                                                         *)
(* A thread is the goroutine of one HTTP request, or Main, which runs      *)
(* App.Close at shutdown.  startMu is held over a whole start or stop; mu  *)
(* only over one action here, so it needs no variable.  Each start makes a *)
(* new generation: an RTSP client, a UDP socket, stop and done channels    *)
(* and, after PLAY, a run goroutine.  Values of the hub's fields that only *)
(* the status page reads (stage, url, ports, byte counts) are left out;    *)
(* packets is kept as "a packet has been counted".                         *)
(***************************************************************************)
EXTENDS Integers, FiniteSets

CONSTANTS Threads,      \* goroutines: the HTTP requests' and Main
          Main,         \* the goroutine that runs App.Close
          Listeners,    \* browsers reading /api/audio/live.wav
          NoThread,     \* startMu is free
          MaxGen        \* bound: how many sessions are started

ASSUME AudioAssumption ==
    /\ Main \in Threads
    /\ NoThread \notin Threads
    /\ MaxGen \in Nat

Owners == {"web", "record"}
Gens == 1..MaxGen

VARIABLES
    pc,         \* where each thread is
    arg,        \* the owner its call is for ("all" for ForceStop)
    startMu,    \* the thread that holds h.startMu
    running, starting, owners, subs,
    packets,    \* h.packets > 0
    gen,        \* the current generation; 0 before the first start
    conn,       \* generations whose TCP connection and RTP socket are open
    known,      \* generations whose client has read a Session from SETUP
    torn,       \* generations for which TEARDOWN has been written
    stopCh,     \* generations whose stop channel is closed
    cut,        \* generations whose stop a recovered panic cut short
    runPc,      \* where each run goroutine is
    srv,        \* the generation whose session the scanner holds; 0: none
    proc,       \* the process: "up", "closing", "exited" or "crashed"
    panicked    \* the generation whose use brought the process down; 0: none

hubVars == <<startMu, running, starting, owners, packets, gen>>
rtspVars == <<conn, known, torn, stopCh, cut, srv>>
procVars == <<proc, panicked>>
vars == <<pc, arg, subs, runPc, hubVars, rtspVars, procVars>>

-----------------------------------------------------------------------------
(* Types.                                                                  *)

\* Points of a thread that holds startMu.
Locked == {"local", "connect", "setup", "play", "cleanup", "first",
           "stop", "teardown", "reply", "close", "wait"}
PCs == Locked \cup {"idle", "acquire", "release", "force", "existing",
                    "subscribe", "exit"}
RunPCs == {"none", "read", "deliver", "keep", "exited"}

TypeOK ==
    /\ pc \in [Threads -> PCs]
    /\ arg \in [Threads -> Owners \cup {"all", "none"}]
    /\ startMu \in Threads \cup {NoThread}
    /\ running \in BOOLEAN /\ starting \in BOOLEAN /\ packets \in BOOLEAN
    /\ owners \in SUBSET Owners
    /\ subs \in SUBSET Listeners
    /\ gen \in 0..MaxGen
    /\ conn \in SUBSET Gens /\ known \in SUBSET Gens
    /\ torn \in SUBSET Gens /\ stopCh \in SUBSET Gens /\ cut \in SUBSET Gens
    /\ runPc \in [Gens -> RunPCs]
    /\ srv \in 0..MaxGen
    /\ proc \in {"up", "closing", "exited", "crashed"}
    /\ panicked \in 0..MaxGen

Init ==
    /\ pc = [t \in Threads |-> "idle"]
    /\ arg = [t \in Threads |-> "none"]
    /\ startMu = NoThread
    /\ running = FALSE /\ starting = FALSE /\ packets = FALSE
    /\ owners = {} /\ subs = {}
    /\ gen = 0
    /\ conn = {} /\ known = {} /\ torn = {} /\ stopCh = {} /\ cut = {}
    /\ runPc = [g \in Gens |-> "none"]
    /\ srv = 0
    /\ proc = "up" /\ panicked = 0

-----------------------------------------------------------------------------
(* Control flow.                                                           *)

Alive == proc \in {"up", "closing"}

At(labels) == \E t \in Threads : pc[t] \in labels
Goto(t, l) == pc' = [pc EXCEPT ![t] = l]
Step(t, from, to) == Alive /\ pc[t] = from /\ Goto(t, to)

\* A call returns: a handler answers its request; App.Close goes on from
\* Recorder.Stop's Release to ForceStop, and from that to the exit.
Return(t) ==
    IF t # Main
    THEN Goto(t, "idle") /\ arg' = [arg EXCEPT ![t] = "none"]
    ELSE Goto(t, IF arg[t] = "all" THEN "exit" ELSE "force") /\ arg' = [arg EXCEPT ![t] = "all"]
Unlock(t) == startMu' = NoThread /\ Return(t)

\* A request arrives; the HTTP server accepts none once Shutdown has begun.
Request(t, entry, owner) ==
    /\ proc = "up" /\ t # Main
    /\ Step(t, "idle", entry)
    /\ arg' = [arg EXCEPT ![t] = owner]
    /\ UNCHANGED <<subs, runPc, hubVars, rtspVars, procVars>>

WebStart(t) == Request(t, "acquire", "web")
WebStop(t) == Request(t, "release", "web")
RecordStart(t) == Request(t, "existing", "record")
RecordStop(t) == Request(t, "release", "record")

\* SIGTERM: ListenAndServe returns as soon as Shutdown is called, without
\* waiting for the requests in progress, and main's deferred App.Close runs.
Shutdown ==
    /\ proc = "up" /\ proc' = "closing"
    /\ Step(Main, "idle", "release")
    /\ arg' = [arg EXCEPT ![Main] = "record"]
    /\ UNCHANGED <<subs, runPc, hubVars, rtspVars, panicked>>

Exit ==
    /\ Alive /\ pc[Main] = "exit"
    /\ proc' = "exited"
    /\ UNCHANGED <<pc, arg, subs, runPc, hubVars, rtspVars, panicked>>

-----------------------------------------------------------------------------
(* Acquire.                                                                *)

AcquireRunning(t) ==
    /\ Alive /\ pc[t] = "acquire"
    /\ running /\ startMu = NoThread
    /\ owners' = owners \cup {arg[t]}
    /\ Return(t)
    /\ UNCHANGED <<subs, runPc, startMu, running, starting, packets, gen,
                   rtspVars, procVars>>

\* The code also refuses with 409 while starting; StartingIsLocked says that
\* a thread which holds startMu never sees that.
AcquireStart(t) ==
    /\ ~running /\ ~starting /\ startMu = NoThread
    /\ Step(t, "acquire", "local")
    /\ startMu' = t
    /\ starting' = TRUE
    /\ owners' = owners \cup {arg[t]}
    /\ packets' = FALSE
    /\ UNCHANGED <<arg, subs, runPc, running, gen, rtspVars, procVars>>

\* Mutant of AcquireLocalFails: setFailure forgets starting.
FaultyLocalFails(t) ==
    /\ Alive /\ pc[t] = "local"
    /\ running' = FALSE /\ UNCHANGED starting
    /\ Unlock(t)
    /\ UNCHANGED <<subs, runPc, owners, packets, gen, rtspVars, procVars>>

\* No scanner selected, no route to it, or no UDP socket: setFailure, which
\* leaves the owner in place.
AcquireLocalFails(t) ==
    /\ Alive /\ pc[t] = "local"
    /\ running' = FALSE /\ starting' = FALSE
    /\ Unlock(t)
    /\ UNCHANGED <<subs, runPc, owners, packets, gen, rtspVars, procVars>>

AcquireLocal(t) ==
    /\ gen < MaxGen
    /\ Step(t, "local", "connect")
    /\ gen' = gen + 1
    /\ UNCHANGED <<arg, subs, runPc, startMu, running, starting, owners,
                   packets, rtspVars, procVars>>

\* TCP connect, OPTIONS and DESCRIBE.  The scanner's port refuses while it
\* holds a session.
RtspConnect(t) ==
    /\ srv = 0
    /\ Step(t, "connect", "setup")
    /\ conn' = conn \cup {gen}
    /\ UNCHANGED <<arg, subs, runPc, hubVars, known, torn, stopCh, cut, srv, procVars>>

\* SETUP: the request is lost or refused; or the scanner opens a session and
\* the reply is lost; or the client reads the Session.
RtspSetup(t) ==
    /\ \/ Step(t, "setup", "cleanup") /\ UNCHANGED <<known, srv>>
       \/ Step(t, "setup", "cleanup") /\ srv' = gen /\ UNCHANGED known
       \/ Step(t, "setup", "play") /\ srv' = gen /\ known' = known \cup {gen}
    /\ UNCHANGED <<arg, subs, runPc, hubVars, conn, torn, stopCh, cut, procVars>>

\* Any step of Start may fail; so may the Transport header or PLAY.
RtspFails(t) ==
    /\ pc[t] \in {"connect", "play"}
    /\ Step(t, pc[t], "cleanup")
    /\ UNCHANGED <<arg, subs, runPc, hubVars, rtspVars, procVars>>

\* TEARDOWN is sent for a known session only; whether it reaches the scanner,
\* the client cannot tell.
SendTeardown(g) ==
    \/ g \notin known /\ UNCHANGED <<torn, srv>>
    \/ /\ g \in known
       /\ torn' = torn \cup {g}
       /\ UNCHANGED srv \/ (srv = g /\ srv' = 0)

\* Mutant of RtspCleanup: the connection is closed without TEARDOWN.
FaultyCleanup(t) ==
    /\ Alive /\ pc[t] = "cleanup"
    /\ conn' = conn \ {gen}
    /\ owners' = owners \ {arg[t]}
    /\ running' = FALSE /\ starting' = FALSE
    /\ Unlock(t)
    /\ UNCHANGED <<subs, runPc, packets, gen, known, torn, stopCh, cut, srv, procVars>>

\* cleanup in Start, then Acquire's failure path: TEARDOWN if a session is
\* known, close, drop the owner, setFailure.
RtspCleanup(t) ==
    /\ Alive /\ pc[t] = "cleanup"
    /\ SendTeardown(gen)
    /\ conn' = conn \ {gen}
    /\ owners' = owners \ {arg[t]}
    /\ running' = FALSE /\ starting' = FALSE
    /\ Unlock(t)
    /\ UNCHANGED <<subs, runPc, packets, gen, known, stopCh, cut, procVars>>

RtspPlay(t) ==
    /\ srv = gen
    /\ Step(t, "play", "first")
    /\ running' = TRUE /\ starting' = FALSE
    /\ runPc' = [runPc EXCEPT ![gen] = "read"]
    /\ UNCHANGED <<arg, subs, startMu, owners, packets, gen, rtspVars, procVars>>

\* The first packet, or five seconds without one: Acquire returns either way.
AcquireReturn(t) ==
    /\ Alive /\ pc[t] = "first"
    /\ Unlock(t)
    /\ UNCHANGED <<subs, runPc, running, starting, owners, packets, gen,
                   rtspVars, procVars>>

-----------------------------------------------------------------------------
(* Release, ForceStop and stopSession.                                     *)

\* Mutant of Release: the last owner's release does not stop the session.
FaultyRelease(t) ==
    /\ Alive /\ pc[t] = "release" /\ startMu = NoThread
    /\ owners' = owners \ {arg[t]}
    /\ Return(t)
    /\ UNCHANGED <<subs, runPc, startMu, running, starting, packets, gen,
                   rtspVars, procVars>>

Release(t) ==
    /\ Alive /\ pc[t] = "release" /\ startMu = NoThread
    /\ owners' = owners \ {arg[t]}
    /\ IF owners' = {} THEN Goto(t, "stop") /\ startMu' = t /\ UNCHANGED arg
                       ELSE Return(t) /\ UNCHANGED startMu
    /\ UNCHANGED <<subs, runPc, running, starting, packets, gen, rtspVars,
                   procVars>>

\* Mutant of ForceStop: its reason is entered as an owner.
FaultyForceStop(t) ==
    /\ startMu = NoThread
    /\ Step(t, "force", "stop")
    /\ startMu' = t
    /\ owners' = {arg[t]}
    /\ UNCHANGED <<arg, subs, runPc, running, starting, packets, gen, rtspVars,
                   procVars>>

ForceStop(t) ==
    /\ startMu = NoThread
    /\ Step(t, "force", "stop")
    /\ startMu' = t
    /\ owners' = {}
    /\ UNCHANGED <<arg, subs, runPc, running, starting, packets, gen, rtspVars,
                   procVars>>

StopNothing(t) ==
    /\ Alive /\ pc[t] = "stop" /\ ~running /\ ~starting
    /\ Unlock(t)
    /\ UNCHANGED <<subs, runPc, running, starting, owners, packets, gen,
                   rtspVars, procVars>>

\* Mutant of StopBegin: the session is closed without TEARDOWN.
FaultyStopBegin(t) ==
    /\ running \/ starting
    /\ Step(t, "stop", "close")
    /\ running' = FALSE /\ starting' = FALSE
    /\ UNCHANGED <<arg, subs, runPc, startMu, owners, packets, gen, rtspVars,
                   procVars>>

StopBegin(t) ==
    /\ running \/ starting
    /\ Step(t, "stop", "teardown")
    /\ running' = FALSE /\ starting' = FALSE
    /\ UNCHANGED <<arg, subs, runPc, startMu, owners, packets, gen, rtspVars,
                   procVars>>

\* Mutant of StopTeardown: Close comes before Teardown.
FaultyStopTeardown(t) ==
    /\ Step(t, "teardown", "reply")
    /\ conn' = conn \ {gen}
    /\ UNCHANGED <<arg, subs, runPc, hubVars, known, torn, stopCh, cut, srv, procVars>>

StopTeardown(t) ==
    /\ Step(t, "teardown", "reply")
    /\ SendTeardown(gen)
    /\ UNCHANGED <<arg, subs, runPc, hubVars, conn, known, stopCh, cut, procVars>>

\* The reply, an error, or the five-second deadline.
StopReply(t) ==
    /\ Step(t, "reply", "close")
    /\ UNCHANGED <<arg, subs, runPc, hubVars, rtspVars, procVars>>

\* The keepalive reads the same bufio.Reader without a lock, and the race may
\* panic here: net/http recovers a handler's panic, which drops the rest of
\* stopSession and, by defer, startMu; a panic of main is the process's end.
StopPanic(t) ==
    /\ Alive /\ pc[t] = "reply" /\ runPc[gen] = "keep"
    /\ cut' = cut \cup {gen}
    /\ \/ t # Main /\ Unlock(t) /\ UNCHANGED procVars
       \/ t = Main /\ proc' = "crashed" /\ panicked' = gen /\ UNCHANGED <<pc, arg, startMu>>
    /\ UNCHANGED <<subs, runPc, running, starting, owners, packets, gen, conn,
                   known, torn, stopCh, srv>>

\* Mutant of StopClose: only the channel is closed, not the connection.
FaultyStopClose(t) ==
    /\ Step(t, "close", "wait")
    /\ stopCh' = stopCh \cup {gen}
    /\ UNCHANGED <<arg, subs, runPc, hubVars, conn, known, torn, cut, srv, procVars>>

StopClose(t) ==
    /\ Step(t, "close", "wait")
    /\ stopCh' = stopCh \cup {gen}
    /\ conn' = conn \ {gen}
    /\ UNCHANGED <<arg, subs, runPc, hubVars, known, torn, cut, srv, procVars>>

\* Mutant of StopReturn: it waits for the goroutine without the deadline.
FaultyStopReturn(t) ==
    /\ Alive /\ pc[t] = "wait"
    /\ runPc[gen] \notin {"read", "deliver", "keep"}
    /\ Unlock(t)
    /\ UNCHANGED <<subs, runPc, running, starting, owners, packets, gen,
                   rtspVars, procVars>>

\* The run goroutine is done, or 1.5 s have passed without it.
StopReturn(t) ==
    /\ Alive /\ pc[t] = "wait"
    /\ Unlock(t)
    /\ UNCHANGED <<subs, runPc, running, starting, owners, packets, gen,
                   rtspVars, procVars>>

-----------------------------------------------------------------------------
(* AcquireExisting and Subscribe: they take mu, not startMu.               *)

AcquireExisting(t) ==
    /\ Alive /\ pc[t] = "existing"
    /\ IF running /\ packets
       THEN Goto(t, "subscribe") /\ owners' = owners \cup {arg[t]} /\ UNCHANGED arg
       ELSE Return(t) /\ UNCHANGED owners
    /\ UNCHANGED <<subs, runPc, startMu, running, starting, packets, gen,
                   rtspVars, procVars>>

\* Recorder.Start: on a failure of Subscribe, or of creating the file after
\* it, the owner is released again.
RecordSubscribe(t) ==
    /\ Alive /\ pc[t] = "subscribe"
    /\ \/ running /\ packets /\ Return(t)
       \/ Goto(t, "release") /\ UNCHANGED arg
    /\ UNCHANGED <<subs, runPc, hubVars, rtspVars, procVars>>

\* A browser opens the WAV stream; when it goes, only its subscription does.
Listen(l) ==
    /\ Alive /\ running /\ packets
    /\ l \notin subs /\ subs' = subs \cup {l}
    /\ UNCHANGED <<pc, arg, runPc, hubVars, rtspVars, procVars>>
Leave(l) ==
    /\ Alive /\ l \in subs /\ subs' = subs \ {l}
    /\ UNCHANGED <<pc, arg, runPc, hubVars, rtspVars, procVars>>

-----------------------------------------------------------------------------
(* The run goroutine of generation g.                                      *)

RunStep(g, from, to) ==
    /\ Alive /\ runPc[g] = from
    /\ runPc' = [runPc EXCEPT ![g] = to]

\* A datagram is read; the hub's counters are updated later, under mu.
RunReceive(g) ==
    /\ g \in conn /\ srv = g
    /\ RunStep(g, "read", "deliver")
    /\ UNCHANGED <<pc, arg, subs, hubVars, rtspVars, procVars>>
RunDeliver(g) ==
    /\ RunStep(g, "deliver", "read")
    /\ packets' = TRUE
    /\ UNCHANGED <<pc, arg, subs, startMu, running, starting, owners, gen,
                   rtspVars, procVars>>

\* Every 15 s: GET_PARAMETER on the client that stopSession also uses.
RunKeepalive(g) ==
    /\ RunStep(g, "read", "keep")
    /\ UNCHANGED <<pc, arg, subs, hubVars, rtspVars, procVars>>
RunKeptAlive(g) ==
    /\ g \in conn /\ srv = g
    /\ RunStep(g, "keep", "read")
    /\ UNCHANGED <<pc, arg, subs, hubVars, rtspVars, procVars>>

\* The goroutine returns: stop is closed, the socket failed or was closed, or
\* the keepalive failed.  Nothing tells the hub: running stays as it is.
RunReturn(g) ==
    /\ RunStep(g, "read", "exited") \/ RunStep(g, "keep", "exited")
    /\ UNCHANGED <<pc, arg, subs, hubVars, rtspVars, procVars>>

\* The other side of that race: two readers of br, or a conn or br that Close
\* has set to nil, and nothing recovers a panic of this goroutine.
RunPanic(g) ==
    /\ Alive /\ runPc[g] = "keep"
    /\ g \notin conn \/ (g = gen /\ At({"reply"}))
    /\ proc' = "crashed" /\ panicked' = g
    /\ UNCHANGED <<pc, arg, subs, runPc, hubVars, rtspVars>>

\* The scanner is power-cycled.
ScannerRestart ==
    /\ srv # 0 /\ srv' = 0
    /\ UNCHANGED <<pc, arg, subs, runPc, hubVars, conn, known, torn, stopCh,
                   cut, procVars>>

-----------------------------------------------------------------------------
Acquire(t) ==
    \/ AcquireRunning(t) \/ AcquireStart(t)
    \/ AcquireLocalFails(t) \/ AcquireLocal(t)
    \/ RtspConnect(t) \/ RtspSetup(t) \/ RtspFails(t) \/ RtspCleanup(t)
    \/ RtspPlay(t) \/ AcquireReturn(t)

StopSession(t) ==
    \/ StopNothing(t) \/ StopBegin(t) \/ StopTeardown(t) \/ StopReply(t)
    \/ StopPanic(t) \/ StopClose(t) \/ StopReturn(t)

Requests(t) == WebStart(t) \/ WebStop(t) \/ RecordStart(t) \/ RecordStop(t)

Run(g) ==
    \/ RunReceive(g) \/ RunDeliver(g) \/ RunKeepalive(g) \/ RunKeptAlive(g)
    \/ RunReturn(g) \/ RunPanic(g)

Call(t) ==
    \/ Acquire(t) \/ Release(t) \/ ForceStop(t) \/ StopSession(t)
    \/ AcquireExisting(t) \/ RecordSubscribe(t)

Terminated == ~Alive /\ UNCHANGED vars

Next ==
    \/ \E t \in Threads : Requests(t) \/ Call(t)
    \/ \E g \in Gens : Run(g)
    \/ \E l \in Listeners : Listen(l) \/ Leave(l)
    \/ Shutdown \/ Exit \/ ScannerRestart \/ Terminated

Spec == Init /\ [][Next]_vars

\* Every wait in a call has a deadline, so a call that can go on does; and
\* Go's mutex hands startMu to a waiter it has kept waiting, so App.Close gets
\* it although handlers still take it.
FairSpec ==
    /\ Spec
    /\ \A t \in Threads : WF_vars(Call(t))
    /\ SF_vars(Call(Main)) /\ WF_vars(Exit)

-----------------------------------------------------------------------------
(* Properties.                                                             *)

\* The 409 "audio start already in progress" of Acquire cannot be returned:
\* starting is only ever seen by the thread that holds startMu.
StartingIsLocked == starting => startMu # NoThread

\* A session the client knows of is never dropped without a TEARDOWN: until
\* one is written it is the hub's current generation, and it is either running
\* or in the hands of the one thread that is starting or stopping it.
NoSessionAbandoned ==
    \A g \in known \ torn :
        /\ g = gen
        /\ running \/ At({"play", "cleanup", "teardown"})

\* The scanner's port 554 is never connected to twice: only the current
\* generation has a connection, and no run goroutine of an earlier generation
\* is left without its stop signal, unless a panic cut its stop short.
OneConnection ==
    /\ conn \subseteq {gen} \cup cut
    /\ \A g \in Gens : runPc[g] \in {"read", "deliver", "keep"} => g = gen \/ g \in stopCh \cup cut

\* A running session always has an owner whose Release will stop it, however
\* Release, AcquireExisting and ForceStop interleave.
SessionHasOwner == running /\ startMu = NoThread => owners # {}

\* If the unlocked keepalive brings the process down, or cuts a stop short, the
\* scanner has already been sent that session's TEARDOWN.
PanicAfterTeardown == (panicked # 0 => panicked \in torn) /\ cut \subseteq torn

\* Shutdown ends: App.Close is not kept for ever from startMu by a handler
\* that waits for the scanner, a packet or a goroutine.
ShutdownEnds == proc = "closing" ~> ~Alive

-----------------------------------------------------------------------------
(* The hub keeps the promise of OneSession.                                *)

Phase == IF running THEN "live"
         ELSE IF At({"connect", "setup", "play"}) THEN "opening"
         ELSE IF At({"cleanup", "teardown", "reply", "close"}) THEN "closing"
         ELSE "closed"

Promise == INSTANCE OneSession
           WITH phase <- Phase, held <- gen \in known, told <- gen \in torn

\* Seen from the scanner, the hub opens one session after another and tears
\* each one down before it closes the connection.
ImplementsOneSession == Promise!Spec

=============================================================================
