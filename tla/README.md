# Formal models of the SDS200 remote

This directory holds TLA+ models of the programs in this repository: a Go web
application (`*.go`, `static/`), the firmware of a touch panel
(`firmware/jc8012p4a1/`) and an Android app (`android/`). All three are remotes
for the same Uniden SDS200 scanner. They send it commands over UDP, one reply
for each, and listen to it over one RTSP/RTP session. The models are checked by
TLC on small instances; what matters most of them is proved by TLAPS for every
value of the constants.

## 1. The system

The scanner is outside the repository. What the code relies on: it answers a
command with a reply of the same name, possibly in several datagrams, any of
which may be lost; it holds **one** RTSP session and refuses another until
TEARDOWN, the closing of the connection by the scanner itself, or a power
cycle; commands such as `JPM,WF_MODE` change its mode until another one does.

| Component | State | Operations | Talks to |
|---|---|---|---|
| `AudioHub`, `RTSPClient` (`audio.go`) | `startMu`, `running`, `owners`, subscribers, the client's connection and session id, stop/done channels | Acquire, AcquireExisting, Release, ForceStop, Subscribe, the `run` goroutine | HTTP handlers, Recorder, `App.Close`, scanner (RTSP) |
| `Recorder` (`audio.go`) | file, stop/done channels, byte count | Start, Stop, its goroutine | AudioHub |
| `WaterfallHub` (`waterfall.go`) | `running`, stop/done channels, latest frame | Start, loop, Stop | handlers, `App.Close`, scanner (UDP) |
| Control plane (`main.go`, `handlers.go`) | selected host, configuration file, operator lease, state cache, `commandMu` | requireControl, command, readState, setHost, the control handlers | everything |
| Discovery (`handlers.go`) | `discovering`, message | startDiscovery, manual selection | control plane |
| Protocol (`protocol.go`, Kotlin `protocol/`) | none | reply assembly, fragments, parsing | control plane, Android client |
| Logger (`logger.go`) | file, ring of entries | Log, rotate | everything |
| Panel audio (`audio.c`) | event group, session, ring, state shown | `rtsp_task`, `playback_task`, audio_start/stop/stop_blocking | UI, network events, reboot, scanner (RTSP) |
| Panel scanner task (`scanner.c`) | command queue, socket, `s_st`, `wf_active`, failure counts | transact, polling, discovery, waterfall, shutdown | UI, web server, network events |
| Panel network, settings (`net.c`, `settings.c`) | link, retry timer, NVS copy | events, connect, setters | panel audio and scanner task |
| Panel UI, board, web (`ui.c`, `board.c`, `web.c`) | widgets, codec and display registers | callbacks | the panel's tasks |
| Android audio (`audio/`) | service, session worker, RTSP client, jitter buffer | start, stop, network callback, push/pull | UI, scanner (RTSP) |
| Android client (`net/`) | host, mutex, failure count | commands, hold, waterfall, discovery | UI, scanner (UDP) |

What is hard in it:

* **One session.** A leaked RTSP session locks the scanner until it is
  power-cycled, so every path that ends a session has to send TEARDOWN and no
  path may open a second connection; starts, stops, the last owner's leave,
  failures in the middle of the set-up, a shutdown or a reboot come from
  different threads. This is the most important promise of all three programs.
* **Modes.** A scanner put in waterfall mode has to be brought back, although
  the commands may fail, the loop may give up and the host may change.
* **Locks that are dropped.** Most methods of the Go program look at their state
  under a mutex, work without it for seconds, and then write.
* **Channels closed by whoever comes first**, by a test and a close in two steps.
* **Event bits** read and then written by three tasks of the panel.
* **Timeouts** that race the late answer they gave up on.

What makes each component correct:

* audio clients: sessions follow one another, each granted session is torn down
  before its connection is closed, what is shown is what plays, a stop and a
  shutdown come to an end;
* waterfall: a running hub polls, can be stopped, and restores scan mode;
* control plane: commands do not mix, the cached state is the selected
  scanner's, holds end as requested, only the operator's commands are sent;
* reply assembly: a reply is never made up of two answers or of a part;
* scanner task: the queue's commands take effect in order, going offline and
  online follows the replies, and a reboot leaves scan mode restored.

## 2. Plan

In this order, the most important behaviour first:

1. `OneSession`, `AudioHub`: the Go audio session. *Done.*
2. `WaterfallHub`: modes, loops and stop channels. *Done.*
3. `PanelAudio`: the same promise in the firmware. *Done.*
4. `AppState`: selected scanner, state cache, configuration file. *Done.*
   `Operator`: lease, FUNC pairs, holds. *Done.*
5. `CommandPipe`, `PanelScanner`: queue, transact with late replies, polling,
   waterfall, discovery, shutdown, and the callers in `ui.c` and `web.c`. *Done.*
6. `PanelNet`: start of the panel, Wi-Fi, settings and their flash. *Done.*
7. `PanelScannerProofs`, `PanelNetProofs`: every invariant of both, and that the
   task implements `CommandPipe`. *Done.*
   Bounds on the steps a call, a stop, a turn or a handler has left. *Done.*
8. `AndroidAudio`: service, session worker, RTSP client and jitter buffer;
   refines `OneSession`. Run: start, stop, network loss and the end of the
   session in any order.
9. `ReplyAssembly`: `mergeFragments` and its Kotlin and C relatives against a
   reference definition, over every order and loss of a few fragments.
10. `Recorder` on top of `AudioHub`; `Discovery`: the probes of `startDiscovery`,
   their one-place channel and the four seconds they have together.

`OneSession` is the abstract specification each audio client implements through
a refinement mapping, `CommandPipe` the one of the panel's commands.

## 3. Modules

| Module | What it is |
|---|---|
| `OneSession` | what a client promises about the scanner's session |
| `AudioHub` | `audio.go` with the handlers that call it and `App.Close` |
| `MCAudioHub` | that module for TLC, with a claim of the documentation |
| `AudioHubProofs` | theorems about `AudioHub` |
| `WaterfallHub` | `waterfall.go` with its handlers, `setHost` and `App.Close` |
| `MCWaterfall`, `MCWaterfallHost` | for TLC; the second records which scanners were put in waterfall mode |
| `WaterfallProofs` | theorems about `WaterfallHub` |
| `PanelAudio` | `audio.c` with its callers in `ui.c`, `net.c` and `main.c`, and the codec's start and stop in `board.c` |
| `MCPanelAudio` | for TLC, with a claim of the firmware's README |
| `PanelAudioProofs` | theorems about `PanelAudio` |
| `AppState` | what the requests share: `setHost`, `saveJSON`, `readState`, `command`, `startDiscovery` |
| `MCAppState` | for TLC |
| `AppStateProofs` | theorems about `AppState` |
| `Operator` | `requireControl`, the lease's handlers and the handlers that send commands under it |
| `MCOperator` | for TLC |
| `OperatorProofs` | theorems about `Operator` |
| `CommandPipe` | what the panel promises about queued commands |
| `PanelScanner` | `scanner.c` with its callers in `ui.c`, `web.c` and `main.c` |
| `MCPanelScanner` | for TLC |
| `PanelScannerProofs` | theorems about `PanelScanner` |
| `PanelNet` | `net.c`, `settings.c`, the start in `main.c` and their callers in `ui.c` and `scanner.c` |
| `MCPanelNet` | for TLC, with a claim of the firmware's README |
| `PanelNetProofs` | theorems about `PanelNet` |

**Mutants.** A definition `FaultyX` before a definition `X` is what a plausible
mistake in that code would make of it. No specification uses it; it is there to
show that the property named with it in `PROJECT.json` finds the mistake.

### AudioHub

A thread is the goroutine of one HTTP request, or `Main`, which runs
`App.Close`. `pc` is the point in `Acquire`, `Release` or `stopSession` it has
reached; `startMu` is a variable because it is held over a whole start or stop,
`mu` is not because it is held over one action. Each start makes a generation:
an RTSP client, its sockets, its channels and, after PLAY, a `run` goroutine,
so that leftovers of an earlier session run beside the next one as they do in
the program. `srv` is the scanner's side: the generation whose session it
holds. A request to the scanner is one action with all its outcomes: answered,
refused, not received, received but the reply lost. The unlocked use of the
connection by the keepalive, a data race in the code, is a nondeterministic
outcome: the reply may be lost, or a reader that was set to nil may be used and
panic. In a handler's goroutine net/http recovers a panic; elsewhere the
process dies.

`PanicAfterTeardown` says what is left of the promise when it does.

### WaterfallHub

Threads as above; loops are generations. `h.mu` is held over single actions.
Commands that change nothing the properties speak of (GST, PWF, GWF) are one
action with their neighbour. `owed` holds the scanners that acknowledged
`JPM,WF_MODE` and were sent no `JPM,SCN_MODE` since; `excused` those of them
that were deselected, or on which a loop gave up after three misses: the code
leaves both as they are. `overlapped` remembers whether two calls have ever
overlapped, or a Start has begun while a stopped loop was still polling: the loss
of a loop's stop channel takes one or the other. The second needs three loops. A
loop may outlive the 1.5 s that Stop waits, for its `select` takes the poll as
well as the closed channel; when it gives up after the next Start, it clears the
`running` of the new loop, and the Start after that replaces the new loop's
channel while it polls.

### PanelAudio

`ev` is the FreeRTOS event group; its bits are read, set and cleared in steps of
their own, as the API offers no more. `task` is where `rtsp_task` is, `player`
where `playback_task` is; `ui`, `net` and `boot` are where the three callers of
`audio_start` and `audio_stop` are. Everything under `s_lock` is one action. A
request to the scanner, which takes at most 3 s and does not look at EV_STOP, is
one action. The ring is counted in chunks of 160 samples; sample values are left
out. `link` is Wi-Fi, `srv` whether the scanner holds a session.

### AppState

A thread is the goroutine of one request. `stateMu` is a variable because
`readState` holds it over its query of the scanner; `a.mu` and `discoveryMu` are
held over single actions. `command` reads the host before it waits for
`commandMu`, so an exchange is two actions, and its host may be an old one. The
settings of a scanner are the number of changes made to them, and a selection is
numbered, so that *older* has a meaning: `told` is the newest selection that was
answered with OK, and the newest change that was so answered by a handler that
calls `invalidateState`; `CacheNotOlder` compares the cache with it. Those of
volume, squelch, recording, keys, FUNC, holds, location and navigation call it
(`WriteTakes`, `Invalidate`); those of the waterfall, the analysis, the quick
keys, the service types and the clock answer without it (`AnswerSilently`), and
the cache goes on showing the mode or the settings of before for up to
`StateCacheMS`: what the property does not promise, the code does not do. A
refused command is answered as a successful one. The reading of the host and of `Host` in the answer are two reads, so a view
has both (`from`, `shown`).

A save is as `os.WriteFile` and `os.Rename` do it: the temporary file is
truncated, filled, renamed, and `setHost` and `apiLogging` use the same one. A
thread that has it open when another renames it goes on writing in what is now
`config.json` (`refill`). The process may die between any two of these steps.
`clash` remembers whether two saves have ever overlapped: then the file may be
torn, or hold an older selection than was answered, and `DiskKeepsSelection`
speaks of the executions where none did.

### Operator

A command is one action, since `commandMu` is held over it; those of different
handlers interleave. Every command may be lost, or its reply, or refused, which
`execWrite` takes for success. The scanner is external and follows
`FUNCTION_MAP.txt`: F switches FUNC, but selects in a menu; a key is shifted by
FUNC and ends it; a key that meets a popup only dismisses it; HLD and the soft key
toggle the hold; GSI shows the hold late. Popups open and clear by themselves,
and a person may press the scanner's keys at any moment (`Touch`). A GSI that is
an error or lacks an element ends the wait for a popup (`PopupUnseen`) and is
taken for FUNC off (`FuncUnseen`).

`ended` and `sure` are history: `ended` that the lease was released or lapsed
since the handler began, `sure` that nothing has happened to it that the code
cannot tell from success. A handler loses `sure` by a cause, never by what came
of it: another handler or a person at the scanner between its steps, a hold begun
before GSI had caught up, a FUNC pair begun in a menu, a popup that outlasts
fifteen looks or opens after the last, a GSI without what it was asked for, a
refused F. In each of these the code may press a bare key, or press F with FUNC
on, or undo a hold and confirm it by a late GSI. What is left to
`FuncKeyShifted` is everything else that can have happened before: pairs that
failed half-way and left FUNC on, popups that come and go during the wait, lost
commands and replies of earlier handlers, leases that pass. `FUNCTION_MAP.txt`
says that clients press F only when GSI reports `F="Off"`; `funcActive` presses it
also when GSI reports nothing. A site hold's fallback, F and then B, is
left out; it is a FUNC pair without `apiFunc`'s look at FUNC.

### PanelScanner

`scanner_task` owns the socket. `pc` is the request it is at, `cmd` the command
it carries out, and an exchange (`transact`) is two steps: `Send`, which drains
what has arrived and sends, and `Returns`, which reads an answer or times out.
Between the two the UI, the web server, the reboot, the network and the
scanners run. `wire` holds the datagrams on their way: an answer is *prompt*,
comes *late*, after the timeout, or is *old*, of an earlier exchange, when it
answers the next request of the same name, as `find_reply` matches by name
alone. An answer that is late and then drained is a lost one; a request is lost
when Wi-Fi drops and returns about it. A document of several fragments is one
datagram, because `transact` waits for the last fragment.

`st` is `s_st` with `s_fail_count`; `ui` what `ui.c` keeps of it between two
snapshots. Time is `due`, the polls whose moment has come: an exchange that
times out takes longer than any short timer, so that it makes all of them due.
`MDL`, once answered, is asked again after ten minutes, which the model never
reaches. Volume and squelch levels, the numbers of the page, the text of
requests and replies are left out; a GSI is the popup, FUNC, and whether a
channel's index could be read. Only the selected scanner loses power or opens
popups. It shows no menus: in one F selects instead of switching FUNC, and
`SC_FUNC`, which looks for popups alone, presses a bare key; `FuncKeyTaken` says
nothing of that (`Operator` has menus).

History: `did` is what the scanner has carried out for the running command,
`hurt` that an exchange of it was lost, late or disturbed from outside. `doubt`
holds the scanners whose mode the panel cannot know: their answer to `JPM` was
lost, the address was changed in waterfall mode, or the panel restarted without
waiting for the stop. `src` is the scanner the quick keys were read from, if
the reading was that scanner's own. Where `hurt` or `doubt` holds, the code
does leave a channel moved twice, a key pressed without FUNC, or a scanner in
waterfall mode.

### PanelNet

`boot` is how far `app_main` is: `ui_init` runs before `net_init`, so net.c's
lock does not exist yet when the first screens use it. Four tasks interleave: the UI
and the scanner task (`at`), the event loop (`ev`) and the timer task (`tmr`).
What a handler does under a lock is one step; each call of the Wi-Fi driver and
each write to flash is one of its own. `drv` is the driver: it has not started,
is idle, tries, is associated or up; it refuses `esp_wifi_connect` unless it is
idle, `esp_wifi_set_config` and a scan during an attempt. Its events are queued,
so that the program's view (`net`, `told`) runs behind. `cfg` is `s_cfg`, `flash`
NVS, and a string that is read while `strlcpy` writes it is `Torn`, which a
restart may find to be no address. Power may go at any step. The growing delay
of the retry timer, the list of networks found and signal strength are left out.

History: `unsaved` are settings whose commit failed unnoticed, `crossed` that
the UI and discovery set addresses across each other, `refused` that the driver
did not take the last attempt, `raced` that an attempt of the timer's kept
`net_connect` from configuring the driver. The code does nothing about any of
them, and the properties except them by name.

### Outcomes the models keep and no property speaks of

A SETUP whose reply is lost leaves a session nobody can tear down; the `run`
goroutine that ends by itself leaves `running` set, so that new owners join a
dead session; a browser that is closed does not give up the owner `web`,
although `README.md` says TEARDOWN follows when the last listener leaves; a lost
reply to `JPM,WF_MODE` leaves a scanner in waterfall mode; a waterfall, analysis,
quick key, service type or clock request is answered with OK while the older
state stays cached; `apiFunc` presses F with FUNC on when GSI has no `Property`,
and the key after an F that was refused; a hold is confirmed falsely after a
soft key pressed blindly. A session that `AcquireExisting` joins while
`stopSession` is about to begin is stopped under its new owner, and a `run`
goroutine may outlive `stopSession` and run beside the next session.

## 4. Runs

| Run | Instance | Shows |
|---|---|---|
| `audio_hub` | two handlers and `App.Close`, two sessions, one browser (1.3 million states) | the invariants of the hub and that it implements `OneSession` |
| `audio_shutdown_ends` | the same with one session, fairness | shutdown comes to an end |
| `audio_shutdown_teardown` | the same | **violated**: the process may exit without TEARDOWN |
| `waterfall` | two handlers and `App.Close`, two scanners, two loops, symmetry of handlers (2.9 million states) | a running hub polls, scan mode is restored, a loop that cannot be stopped takes overlapping calls or a stopped loop that still polls |
| `waterfall_host` | two scanners | **violated**: shutdown sends scan mode to a scanner the application never put in waterfall mode |
| `panel_audio` | a ring of three chunks with both thresholds at two, packets of up to two, three calls, fairness (0.14 million states) | the panel's invariants, its stop, its codec, and that it implements `OneSession` |
| `app_state` | two requests, two scanners, two selections, one change of settings of each scanner, one crash (5.3 million states) | the cache is never older than the last selection, or the last command of a handler that invalidates it, that was answered; the file keeps the selection |
| `operator` | two clients, three requests, loops of three turns, with menus, popups, refusals and a person at the scanner (1.9 million states) | one operator, FUNC pairs whole but for the causes named, true confirmations |
| `panel_reboot` | the same as `panel_audio` | **violated**: the panel may restart without TEARDOWN |
| `panel_scanner` | two scanners, one of them no SDS, one quick key, a queue of one, any saved address, two events (calls or faults), fairness (0.18 million states) | no press is repeated, FUNC and its key belong together, waterfall mode is left, the quick keys shown are the scanner's, an absent scanner is noticed, and the task implements `CommandPipe` |
| `panel_net` | two networks, two addresses, two calls, two faults, fairness (0.5 million states) | a restart finds what was set, a chosen network is never forgotten and is found again, everyone is told of the link |
| `panel_first_start` | nothing saved, no calls, no faults | **violated**: the setup screen's scan panics before the Wi-Fi is set up |

The four violated runs (`audio_shutdown_teardown`, `waterfall_host`,
`panel_reboot`, `panel_first_start`) each check one sentence of the documentation against
what the code does; `PROJECT.json`, "findings", quotes them.

**Bounds.** Two handlers and `Main` are the fewest threads that give every pair
of calls and a shutdown on top; a third handler repeats one of them. Two
generations let one session's leftovers meet its successor; more would only
repeat that, since no code holds a reference to more than its own and the
current one. (The one thing that takes a third loop is described under
WaterfallHub; `NoOrphanLoop` is proved for any number of them.) `MaxGen` stops
new starts, never a step of a call that has begun otherwise. Two scanners are what a change of host needs. A ring of three chunks
overflows, is trimmed and runs dry; three calls are a start, a stop or a drop of
Wi-Fi, and the next start or the reboot, with Wi-Fi returning, requests failing
and scanners restarting as often as they may. The proofs hold for every value of these.

Two requests are what an overlap needs, two selections what an older one needs;
a third request at a time is needed in `operator` alone, for two of one client
next to one of another. `MaxPicks`, `MaxWrites` and `MaxCrashes` end what may
begin, never a step of a call that has begun: a write that is over the bound
changes nothing. `Polls` stands for fifteen looks and for 3.5 s; three turns let a loop
begin, go on and give up.

In `panel_scanner` one place in the queue lets a command wait behind another and
the next one be dropped; two events are a press in the middle of another's
exchange, or with one loss, delay, popup or switch-off, or two of these; limits
of two (failures, missed frames, readings of a popup) are the fewest that are
not reached at once. In `panel_net` two calls set the same or different settings
from two tasks, and two faults are, say, a lost link and a restart. `MaxEvents`,
`MaxCalls` and `MaxFaults` end what may begin, never a step of what has begun.

**Symmetry** is used in `waterfall`, `app_state` and `operator`, over threads,
clients and scanners that the specification does not tell apart, and for
invariants alone.

**Fairness.** `audio_shutdown_ends`: every wait in the code has a deadline (dial
and RTSP requests, the first packet, the wait for the goroutine), so a call that
can go on does (WF); Go's mutex enters starvation mode after a millisecond and
hands the lock to the waiter, so `App.Close` gets `startMu` although handlers
take it again and again (SF for `Main` alone). `panel_audio`: `rtsp_task` waits at most 3 s for an answer and 100 ms for
a packet, and `playback_task` never blocks for long: WF for each, none for the
user, the network and the scanner. `panel_scanner`: the task waits for no more
than a timeout (WF), a discovery ends at its deadline though answers keep
coming (WF of its own), LVGL's timer runs (WF of `Refresh`). `panel_net`: each
of the four tasks runs and the driver ends what it began (WF each); power,
users, access points and faults are under no fairness.

## 5. Proofs

All from the constants' assumptions alone (`AudioAssumption`,
`WaterfallAssumption`, `PanelAudioAssumption`, `AppStateAssumption`,
`FileAssumption`, `OperatorAssumption`, `PanelScannerAssumption`,
`PanelNetAssumption`), checked to the last leaf. Each
`*Proofs` module follows the same argument: the properties are not inductive by
themselves, so `IInv` adds what they rest on; `Initially` and one lemma per part
of `IInv`, with one step per action, show that it is preserved; the theorems
follow.

* `AudioHubProofs`: `IInv` adds mutual exclusion (only the holder of `startMu` is
  at a point of `Locked`), what `running`, `starting` and `owners` mean at each
  of its points, and that sessions, connections and goroutines of past
  generations are over. From it: `TypeCorrect`, `StartingLocked`, `NoneAbandoned`,
  `AtMostOneConnection`, `RunningIsOwned`, `PanicIsLate`, and `Implementation`,
  the refinement. For the refinement the phase of the abstract session is read
  off the point of the thread that holds `startMu`.
* `WaterfallProofs`: `LoopInv` says that generations are handed out in order and
  that no Stop holds the channel of the one that runs; `RestoreInv` that an owed
  scanner is the selected one and the hub or a call in progress answers for it.
  From them `RunningIsPolled` and `ModeRestored`. `OrphanInv` is about the time
  before the first overlap: one call is in progress at most, no stopped loop
  polls beside a running or starting one, and a loop with an open channel is the
  hub's, running or about to be stopped; it gives `LoopsStoppable`.
* `PanelAudioProofs`: `SessionInv` ties bits, sockets and session id to the point
  `rtsp_task` is at, `ShownInv` the state shown and the codec to both tasks. From
  them `IdleQuiet`, `PlayingHeard` and `Implementation`.
* `AppStateProofs`: `LockInv` ties `stateMu` to the steps of `readState`,
  `NumberInv` orders selections, `TargetInv` and `FreshInv` say what a reader has
  in hand at each step; that nothing is told while the lock is held then gives
  `CacheSafety`, for selections and for the commands that end in `invalidateState`.
  The silent handlers change settings and tell nothing. `DiskInv` says what each step of a save may rely on when saves do
  not overlap, and gives `DiskSafety` for a crash at any step.
* `OperatorProofs`: `LeaseInv` (a handler whose lease has not ended belongs to the
  owner), `AloneInv`, and `FuncInv` and `HoldInv`, which say at each step of
  `apiFunc` and `apiHold` what is known of the scanner while the handler is `sure`;
  from them `OperatorSafety`, `FuncSafety` and `HoldSafety`. Every step that may
  upset that knowledge is an action of the model and has its case in the proof.

* `PanelScannerProofs`: `PlaceInv` says which places of the task belong to which
  command, `WireInv` that an answer in time is the running exchange's, and
  `BootInv` that a reboot which got its answer finds waterfall mode left. On them
  rest `ModeInv` (a scanner in waterfall mode is the one being asked, and has
  left it when its own answer to `JPM,SCN_MODE` comes), `QuickInv` (an answer on
  its way has the quick keys as they still are), `StepInv` (after an accepted NXT no place
  leads to the rotary) and `FuncInv` (no popup, and FUNC on, at the step of
  `SC_FUNC` that presses the key): none of the properties is inductive, for each
  speaks of the end of an exchange whose middle may be disturbed. They give
  `StepMovesOnce`, `FuncKeyMeetsFunc`, `ModeKnown`, `RebootLeavesScan`,
  `KeysKnown`. `OnceInv` bounds what a command may have had done by the place it
  is at, so that a request never repeats an effect; that is the step of
  `Implementation`, the refinement of `CommandPipe`, which needs an argument.
* `PanelNetProofs`: `BootInv` (nothing of the Wi-Fi exists before `net_init`),
  `ArgInv` (what a caller has in hand), `SavedInv` (a setting no caller still owes
  is in the flash as it is in `s_cfg`), `AddressInv` (scanner.c's address, which
  one caller at most has yet to copy), `LinkInv` (in the queue of events every
  loss of the link is followed by its return if the driver is up, and every
  return by a loss if it is not). From them `SettingsWritten`,
  `LinkTold` and `NetworkSought`.

Every invariant and every refinement that a passing run checks is so proved for
every value of the constants. Three more theorems state what no run lists:
`EffectsOnce` draws from the refinement of `CommandPipe` what it is for, that no
effect of a command is carried out twice by the scanner; `NoDoubleClose` says that
before two calls of the waterfall hub overlap its `Stop`, which looks at a channel
and closes it in two steps outside `h.mu`, cannot close it twice.

Four theorems are the safety half of termination. Each defines `Left`, the steps
that are left at most, read off the program counter (and, where the code loops,
off the turns left), and proves that it stays within its bound, that every step
of the one who is counted lowers it, and that no step of another raises it:

* `CallsEnd` (`AudioHubProofs`): a call of the hub or of `App.Close` takes at most
  `MaxSteps` = 14 steps of its own, whichever requests are lost; a crash of the
  process is the one step that is not so counted. Behind `ShutdownEnds`.
* `StopHeard` (`PanelAudioProofs`): while `EV_STOP` is set `rtsp_task` needs at most
  15 steps to `EV_IDLE`, from every place of a session. Behind `StopEnds`. Before
  the stop only the stream may go on without an end.
* `TurnsEnd` (`PanelScannerProofs`): a command, or a round of polls, takes at most
  `MaxTurn` = 2 * (7 + `PopupTries`) + 1 steps of `scanner_task`; a search is left
  out, for it waits for the clock. Behind `QueueServed`.
* `HandlersAnswer` (`OperatorProofs`): a control request is answered after at most
  `MaxSteps` = `Polls` + 3 steps of its handler. No run checks liveness of this
  component.

That a task which can step does step is fairness, and that it can is ENABLED; both
are out of the proof system's reach. So the liveness properties themselves
(`ShutdownEnds`, `StopEnds`, `CodecCloses`, `OfflineNoticed`, `QueueServed`,
`QuickKeysShown`, `Reconnects`) are only model-checked, and of `CodecCloses`,
`OfflineNoticed`, `QuickKeysShown` and `Reconnects`, which wait for several tasks or
for the scanner, no part is proved. No model has a recursive definition. The
violated runs are counterexamples and need no proof.

## 6. What is not modelled

Sample values, RTP headers, SDP and XML text, STS rows, GWF bins, counters and
texts that only a page shows; widgets and layout of the panel, its mirrored
display and the registers of display, touch and codec; the list of networks a
scan finds; discovery's probes one by one; the components marked so in `PROJECT.json`, with the reason or the
module planned for them. The Go memory model beyond the outcomes named above:
a racing read gives one of the values written. FreeRTOS priorities: any task
may run next, so that a property that holds does not rest on them.
