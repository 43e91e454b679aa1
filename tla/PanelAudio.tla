----------------------------- MODULE PanelAudio -----------------------------
(***************************************************************************)
(* Live audio on the touch panel (firmware/jc8012p4a1/main/audio.c): the   *)
(* task that keeps the RTSP session, the playback task, and the three      *)
(* tasks that start and stop them: the UI, the network events and the      *)
(* reboot (main.c, ui.c, net.c).                                           *)
(*                                                                         *)
(* They meet in an event group whose operations are atomic one by one, and *)
(* in s_st and the ring, under s_lock.  A request to the scanner is one    *)
(* action, which takes up to RTSP_TIMEOUT_MS; time is otherwise left out.  *)
(* The ring is counted in chunks of CHUNK samples.                         *)
(***************************************************************************)
EXTENDS Integers

CONSTANTS Prebuffer, MaxBuffer, Ring,   \* PREBUFFER, MAX_BUFFER, RING_SAMPLES
          MaxCalls,                     \* bound: presses, drops of Wi-Fi, reboot
          MaxPacket                     \* bound: chunks in an RTP packet

ASSUME PanelAudioAssumption ==
    /\ Prebuffer \in Nat /\ MaxBuffer \in Nat /\ Ring \in Nat /\ MaxPacket \in Nat
    /\ MaxCalls \in Nat
    /\ 0 < Prebuffer /\ Prebuffer <= MaxBuffer /\ MaxBuffer <= Ring

VARIABLES
    ev,         \* s_ev: the bits that are set
    task,       \* where rtsp_task is
    state,      \* s_st.state
    wantPlay,   \* s_want_play
    sock,       \* sockets of the attempt that are open
    session,    \* c->session: the id of the scanner's session is known
    over,       \* this attempt's session was ended: TEARDOWN was sent, or the
                \* scanner closed the connection
    player,     \* where playback_task is
    codec,      \* its open: the codec runs
    buffering,  \* its buffering
    count,      \* s_count
    ui, net, boot,  \* where the calling tasks are
    configured, \* a scanner's address is set
    link,       \* Wi-Fi is up
    calls,      \* the bound's counter
    srv         \* the scanner holds a session

taskVars == <<task, sock, session, over>>
playVars == <<player, codec, buffering>>
callVars == <<ui, net, boot, configured, link, calls>>
vars == <<ev, taskVars, state, wantPlay, playVars, count, callVars, srv>>

-----------------------------------------------------------------------------
Opening == {"rtp", "connect", "options", "describe", "setup", "play"}
Streaming == {"stream", "select"}
Closing == {"quit", "stopping", "teardown", "close"}
AtRest == {"top", "wait", "wake", "config", "settle"}
StopPCs == {"stop", "stopSet"}

TypeOK ==
    /\ ev \in SUBSET {"START", "STOP", "IDLE"}
    /\ task \in AtRest \cup Opening \cup Streaming \cup Closing
    /\ state \in {"IDLE", "CONNECTING", "BUFFERING", "PLAYING", "STOPPING", "ERROR"}
    /\ sock \in SUBSET {"rtp", "tcp"}
    /\ wantPlay \in BOOLEAN /\ session \in BOOLEAN /\ over \in BOOLEAN
    /\ codec \in BOOLEAN /\ buffering \in BOOLEAN
    /\ configured \in BOOLEAN /\ link \in BOOLEAN /\ srv \in BOOLEAN
    /\ player \in {"check", "open", "mix"}
    /\ count \in 0..Ring /\ calls \in 0..MaxCalls
    /\ ui \in {"idle", "start", "clear", "startSet", "save", "saveStop", "saveStopSet"}
              \cup StopPCs
    /\ net \in {"idle"} \cup StopPCs
    /\ boot \in {"none", "wait", "shutdown", "done"} \cup StopPCs

\* After audio_init; the address may have been saved before.
Init ==
    /\ ev = {"IDLE"} /\ task = "top" /\ state = "IDLE"
    /\ wantPlay = FALSE /\ sock = {} /\ session = FALSE /\ over = FALSE
    /\ player = "check" /\ codec = FALSE /\ buffering = TRUE /\ count = 0
    /\ ui = "idle" /\ net = "idle" /\ boot = "none"
    /\ calls = 0 /\ configured \in BOOLEAN /\ link = FALSE /\ srv = FALSE

Running == boot # "done"
Goto(from, to) == Running /\ task = from /\ task' = to

-----------------------------------------------------------------------------
(* rtsp_task between sessions.                                             *)

TaskIdle ==
    /\ Goto("top", "wait") /\ ev' = ev \cup {"IDLE"}
    /\ UNCHANGED <<sock, session, over, state, wantPlay, playVars, count, callVars, srv>>

TaskStart ==
    /\ "START" \in ev /\ Goto("wait", "wake") /\ ev' = ev \ {"START"}
    /\ UNCHANGED <<sock, session, over, state, wantPlay, playVars, count, callVars, srv>>

\* Mutant of TaskWake: EV_IDLE is left set.
FaultyWake ==
    /\ Goto("wake", "config") /\ ev' = ev \ {"STOP"}
    /\ UNCHANGED <<sock, session, over, state, wantPlay, playVars, count, callVars, srv>>

TaskWake ==
    /\ Goto("wake", "config") /\ ev' = ev \ {"STOP", "IDLE"}
    /\ UNCHANGED <<sock, session, over, state, wantPlay, playVars, count, callVars, srv>>

TaskUnset ==
    /\ ~configured /\ Goto("config", "top") /\ state' = "ERROR"
    /\ UNCHANGED <<ev, sock, session, over, wantPlay, playVars, count, callVars, srv>>

TaskOpen ==
    /\ configured /\ Goto("config", "rtp")
    /\ state' = "CONNECTING" /\ over' = FALSE
    /\ UNCHANGED <<ev, sock, session, wantPlay, playVars, count, callVars, srv>>

-----------------------------------------------------------------------------
(* run_session: the requests.  STOP is not looked at before the stream.    *)

\* Any step may fail; open_rtp and tcp_connect may leave their socket.
Fails ==
    /\ task \in Opening /\ Goto(task, "quit") /\ state' = "ERROR"
    /\ \/ UNCHANGED sock
       \/ task = "rtp" /\ sock' = sock \cup {"rtp"}
       \/ task = "connect" /\ sock' = sock \cup {"tcp"}
    /\ UNCHANGED <<ev, session, over, wantPlay, playVars, count, callVars, srv>>

OpenRtp ==
    /\ Goto("rtp", "connect") /\ sock' = sock \cup {"rtp"}
    /\ UNCHANGED <<ev, session, over, state, wantPlay, playVars, count, callVars, srv>>

Connect ==
    /\ link /\ Goto("connect", "options") /\ sock' = sock \cup {"tcp"}
    /\ UNCHANGED <<ev, session, over, state, wantPlay, playVars, count, callVars, srv>>

\* request: sent, and answered with 200 in time.
Request(from, to) == link /\ Goto(from, to)

Options ==
    /\ Request("options", "describe")
    /\ UNCHANGED <<ev, sock, session, over, state, wantPlay, playVars, count, callVars, srv>>

\* DESCRIBE and the SDP, with the track's address.
Describe ==
    /\ Request("describe", "setup")
    /\ UNCHANGED <<ev, sock, session, over, state, wantPlay, playVars, count, callVars, srv>>

Setup ==
    /\ Request("setup", "play") /\ session' = TRUE
    /\ ~srv /\ srv' = TRUE
    /\ UNCHANGED <<ev, sock, over, state, wantPlay, playVars, count, callVars>>

\* The scanner grants the session but its reply or the Session line is lost.
SetupLost ==
    /\ link /\ ~srv /\ srv' = TRUE
    /\ Goto("setup", "quit") /\ state' = "ERROR"
    /\ UNCHANGED <<ev, sock, session, over, wantPlay, playVars, count, callVars>>

RingClear == count' = 0

Play ==
    /\ Request("play", "stream")
    /\ RingClear /\ state' = "BUFFERING" /\ wantPlay' = TRUE
    /\ UNCHANGED <<ev, sock, session, over, playVars, callVars, srv>>

-----------------------------------------------------------------------------
(* run_session: the stream.                                                *)

\* Mutant of StreamTest: the stream goes on whatever is requested.
FaultyTest ==
    /\ Goto("stream", "select")
    /\ UNCHANGED <<ev, sock, session, over, state, wantPlay, playVars, count, callVars, srv>>

StreamTest ==
    /\ Goto("stream", IF "STOP" \in ev THEN "quit" ELSE "select")
    /\ UNCHANGED <<ev, sock, session, over, state, wantPlay, playVars, count, callVars, srv>>

\* Mutant of RingPush: a full ring takes more.
FaultyPush(n) == count' = count + n

\* n chunks arrive (0: none); ring_push drops the oldest of a full ring.
RingPush(n) == count' = IF count + n > Ring THEN Ring ELSE count + n

StreamPacket(n) ==
    /\ n > 0 => link
    /\ Goto("select", "stream") /\ RingPush(n)
    /\ UNCHANGED <<ev, sock, session, over, state, wantPlay, playVars, callVars, srv>>

\* The connection is closed by the scanner, which drops the session, or broken.
StreamClosed ==
    /\ Goto("select", "quit") /\ state' = "ERROR"
    /\ session' = FALSE /\ over' = TRUE
    /\ srv' \in {srv, FALSE}
    /\ UNCHANGED <<ev, sock, wantPlay, playVars, count, callVars>>

\* RTP_SILENCE_MS without a packet.
StreamSilent ==
    /\ Goto("select", "quit") /\ state' = "ERROR"
    /\ UNCHANGED <<ev, sock, session, over, wantPlay, playVars, count, callVars, srv>>

-----------------------------------------------------------------------------
(* rtsp_task after a session, whatever ended it.                           *)

TaskQuit ==
    /\ Goto("quit", "stopping") /\ wantPlay' = FALSE
    /\ UNCHANGED <<ev, sock, session, over, state, playVars, count, callVars, srv>>

\* Mutant of TaskStopping: after an error the connection is closed at once.
FaultyStopping ==
    /\ Goto("stopping", IF state = "ERROR" THEN "close" ELSE "teardown")
    /\ state' = IF state = "ERROR" THEN "ERROR" ELSE "STOPPING"
    /\ UNCHANGED <<ev, sock, session, over, wantPlay, playVars, count, callVars, srv>>

TaskStopping ==
    /\ Goto("stopping", "teardown")
    /\ state' = IF state = "ERROR" THEN "ERROR" ELSE "STOPPING"
    /\ UNCHANGED <<ev, sock, session, over, wantPlay, playVars, count, callVars, srv>>

\* TEARDOWN is sent if a session is known; the answer does not matter.
TaskTeardown ==
    /\ Goto("teardown", "close")
    /\ session' = FALSE
    /\ IF "tcp" \in sock /\ session
       THEN over' = TRUE /\ srv' \in (IF link THEN {srv, FALSE} ELSE {srv})
       ELSE UNCHANGED <<over, srv>>
    /\ UNCHANGED <<ev, sock, state, wantPlay, playVars, count, callVars>>

\* close_all, ring_clear, and IDLE unless there was an error.
TaskClose ==
    /\ Goto("close", "settle")
    /\ sock' = {} /\ RingClear
    /\ state' = IF state = "ERROR" THEN "ERROR" ELSE "IDLE"
    /\ UNCHANGED <<ev, session, over, wantPlay, playVars, callVars, srv>>

TaskSettle ==
    /\ Goto("settle", "top") /\ ev' = ev \ {"START"}
    /\ UNCHANGED <<sock, session, over, state, wantPlay, playVars, count, callVars, srv>>

-----------------------------------------------------------------------------
(* playback_task.                                                          *)

\* Mutant of PlayerCheck: the codec is left open when there is nothing to play.
FaultyCheck ==
    /\ Running /\ player = "check"
    /\ player' = IF ~wantPlay THEN "check" ELSE IF codec THEN "mix" ELSE "open"
    /\ UNCHANGED <<ev, taskVars, state, wantPlay, codec, buffering, count, callVars, srv>>

\* board_audio_stop; board_audio_start, which may fail.
CodecStops == codec' = FALSE
CodecStarts == codec' \in BOOLEAN

PlayerCheck ==
    /\ Running /\ player = "check"
    /\ IF wantPlay THEN UNCHANGED codec ELSE CodecStops
    /\ player' = IF ~wantPlay THEN "check" ELSE IF codec THEN "mix" ELSE "open"
    /\ UNCHANGED <<ev, taskVars, state, wantPlay, buffering, count, callVars, srv>>

PlayerOpen ==
    /\ Running /\ player = "open" /\ CodecStarts
    /\ player' = IF codec' THEN "mix" ELSE "check"
    /\ buffering' = (buffering \/ codec')
    /\ UNCHANGED <<ev, taskVars, state, wantPlay, count, callVars, srv>>

\* The prebuffer is reached or still awaited; once it is, a chunk is taken from
\* what MAX_BUFFER leaves, and an empty ring makes playback buffer again.
Waiting == buffering /\ count < Prebuffer
Trimmed == IF count > MaxBuffer THEN MaxBuffer ELSE count

\* Mutant of PlayerMix: an underrun is not shown.
FaultyMix ==
    /\ Running /\ player = "mix" /\ player' = "check"
    /\ \/ Waiting /\ UNCHANGED <<buffering, count, state>>
       \/ /\ ~Waiting /\ Trimmed > 0
          /\ buffering' = FALSE /\ count' = Trimmed - 1
          /\ state' = IF buffering /\ state = "BUFFERING" THEN "PLAYING" ELSE state
       \/ /\ ~Waiting /\ Trimmed = 0
          /\ buffering' = TRUE /\ UNCHANGED <<count, state>>
    /\ UNCHANGED <<ev, taskVars, wantPlay, codec, callVars, srv>>

PlayerMix ==
    /\ Running /\ player = "mix" /\ player' = "check"
    /\ \/ Waiting /\ UNCHANGED <<buffering, count, state>>
       \/ /\ ~Waiting /\ Trimmed > 0
          /\ buffering' = FALSE /\ count' = Trimmed - 1
          /\ state' = IF buffering /\ state = "BUFFERING" THEN "PLAYING" ELSE state
       \/ /\ ~Waiting /\ Trimmed = 0
          /\ buffering' = TRUE /\ UNCHANGED count
          /\ state' = IF state = "PLAYING" THEN "BUFFERING" ELSE state
    /\ UNCHANGED <<ev, taskVars, wantPlay, codec, callVars, srv>>

-----------------------------------------------------------------------------
(* The callers.  audio_start and audio_stop read the bits and then write.  *)

quietVars == <<taskVars, state, wantPlay, playVars, count, srv>>

Begins == calls < MaxCalls /\ calls' = calls + 1

\* The Listen button starts or stops by the state it shows.
PressListen ==
    /\ Begins /\ Running /\ ui = "idle"
    /\ ui' = IF state \in {"IDLE", "ERROR"} THEN "start" ELSE "stop"
    /\ UNCHANGED <<ev, net, boot, configured, link, quietVars>>

StartTest ==
    /\ Running /\ ui = "start"
    /\ ui' = IF "IDLE" \in ev THEN "clear" ELSE "idle"
    /\ UNCHANGED <<ev, net, boot, configured, link, calls, quietVars>>
StartClear ==
    /\ Running /\ ui = "clear" /\ ui' = "startSet" /\ ev' = ev \ {"STOP"}
    /\ UNCHANGED <<net, boot, configured, link, calls, quietVars>>
StartSet ==
    /\ Running /\ ui = "startSet" /\ ui' = "idle" /\ ev' = ev \cup {"START"}
    /\ UNCHANGED <<net, boot, configured, link, calls, quietVars>>

\* A new address: audio_stop, then scanner_set_ip.
PressSave ==
    /\ Begins /\ Running /\ ui = "idle" /\ ui' = "saveStop"
    /\ UNCHANGED <<ev, net, boot, configured, link, quietVars>>
SaveAddress ==
    /\ Running /\ ui = "save" /\ ui' = "idle" /\ configured' = TRUE
    /\ UNCHANGED <<ev, net, boot, link, calls, quietVars>>

\* audio_stop, called in the UI, in on_link and in audio_stop_blocking.
StopTest ==
    /\ Running
    /\ LET from == "IDLE" \in ev IN
       \/ ui = "stop" /\ ui' = (IF from THEN "idle" ELSE "stopSet") /\ UNCHANGED <<net, boot>>
       \/ ui = "saveStop" /\ ui' = (IF from THEN "save" ELSE "saveStopSet")
             /\ UNCHANGED <<net, boot>>
       \/ net = "stop" /\ net' = (IF from THEN "idle" ELSE "stopSet") /\ UNCHANGED <<ui, boot>>
       \/ boot = "stop" /\ boot' = (IF from THEN "wait" ELSE "stopSet") /\ UNCHANGED <<ui, net>>
    /\ UNCHANGED <<ev, configured, link, calls, quietVars>>
StopSet ==
    /\ Running /\ ev' = ev \cup {"STOP"}
    /\ \/ ui = "stopSet" /\ ui' = "idle" /\ UNCHANGED <<net, boot>>
       \/ ui = "saveStopSet" /\ ui' = "save" /\ UNCHANGED <<net, boot>>
       \/ net = "stopSet" /\ net' = "idle" /\ UNCHANGED <<ui, boot>>
       \/ boot = "stopSet" /\ boot' = "wait" /\ UNCHANGED <<ui, net>>
    /\ UNCHANGED <<configured, link, calls, quietVars>>

LinkDown ==
    /\ Begins /\ Running /\ link /\ net = "idle" /\ link' = FALSE /\ net' = "stop"
    /\ UNCHANGED <<ev, ui, boot, configured, quietVars>>
LinkUp ==
    /\ Running /\ ~link /\ net = "idle" /\ link' = TRUE
    /\ UNCHANGED <<ev, ui, net, boot, configured, calls, quietVars>>

\* app_reboot starts one reboot_task, however often it is asked.
PressReboot ==
    /\ Begins /\ Running /\ ui = "idle" /\ boot = "none" /\ boot' = "stop"
    /\ UNCHANGED <<ev, ui, net, configured, link, quietVars>>
\* EV_IDLE, or 5 s.
BootWaited ==
    /\ Running /\ boot = "wait" /\ boot' = "shutdown"
    /\ UNCHANGED <<ev, ui, net, configured, link, calls, quietVars>>
\* scanner_shutdown is over, and the panel restarts.
BootRestart ==
    /\ boot = "shutdown" /\ boot' = "done"
    /\ UNCHANGED <<ev, ui, net, configured, link, calls, quietVars>>

\* The scanner is power-cycled.
ScannerRestart ==
    /\ Running /\ srv /\ srv' = FALSE
    /\ UNCHANGED <<ev, taskVars, state, wantPlay, playVars, count, callVars>>

-----------------------------------------------------------------------------
Task ==
    \/ TaskIdle \/ TaskStart \/ TaskWake \/ TaskUnset \/ TaskOpen
    \/ Fails \/ OpenRtp \/ Connect \/ Options \/ Describe \/ Setup \/ SetupLost \/ Play
    \/ StreamTest \/ (\E n \in 0..MaxPacket : StreamPacket(n))
    \/ StreamClosed \/ StreamSilent
    \/ TaskQuit \/ TaskStopping \/ TaskTeardown \/ TaskClose \/ TaskSettle
Player == PlayerCheck \/ PlayerOpen \/ PlayerMix
Call ==
    \/ StartTest \/ StartClear \/ StartSet \/ SaveAddress \/ StopTest \/ StopSet

Terminated == ~Running /\ UNCHANGED vars

Next ==
    \/ Task \/ Player \/ Call
    \/ PressListen \/ PressSave \/ LinkDown \/ LinkUp
    \/ PressReboot \/ BootWaited \/ BootRestart
    \/ ScannerRestart \/ Terminated

Spec == Init /\ [][Next]_vars

\* Every wait of rtsp_task in a session has a deadline, and the scheduler runs
\* both tasks.
FairSpec == Spec /\ WF_vars(Task) /\ WF_vars(Player)

-----------------------------------------------------------------------------
(* Properties.                                                             *)

\* EV_IDLE is what audio_start and the reboot go by: while it is set nothing of
\* a session is left, and the button offers to start one.
IdleIsQuiet ==
    "IDLE" \in ev =>
        sock = {} /\ ~session /\ ~wantPlay /\ state \in {"IDLE", "ERROR"}

\* The panel shows "Playing" only while the codec runs and plays from the ring,
\* also when a session follows another faster than playback_task notices.
PlayingIsHeard == state = "PLAYING" /\ wantPlay => codec /\ ~buffering

\* A stop that reaches a session ends it, unless the UI is half-way through
\* audio_start and clears it.
StopEnds == "STOP" \in ev /\ "IDLE" \notin ev /\ ui = "idle" ~> "IDLE" \in ev \/ ~Running

\* The codec is closed once there is nothing to play.
CodecCloses == ~wantPlay ~> ~codec \/ wantPlay \/ ~Running

Promise == INSTANCE OneSession WITH
    phase <- IF task \in AtRest THEN "closed"
             ELSE IF task \in Opening THEN "opening"
             ELSE IF task \in Streaming THEN "live" ELSE "closing",
    held <- session \/ over,
    told <- over
\* The panel keeps what OneSession promises.
ImplementsOneSession == Promise!Spec
=============================================================================
