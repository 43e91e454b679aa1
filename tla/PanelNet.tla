------------------------------ MODULE PanelNet ------------------------------
(***************************************************************************)
(* The panel's Wi-Fi (firmware/jc8012p4a1/main/net.c) and its settings     *)
(* (settings.c), with the start of the panel (main.c) and the callers that *)
(* change them: the UI's overlay and settings page (ui.c), and discovery,  *)
(* which saves the address it found (scanner.c).                           *)
(*                                                                         *)
(* Four tasks run at once: the UI, the scanner task, the event loop        *)
(* (on_event) and the timer task (retry_cb).  A task's calls into the      *)
(* Wi-Fi driver and into flash are steps of their own; what a handler does *)
(* under net.c's lock is one step.  The driver, the access points and the  *)
(* flash are external.                                                     *)
(***************************************************************************)
EXTENDS Integers, SequencesExt

CONSTANTS
    Entries,        \* names and passwords the user enters, all of them right
    Addresses,      \* scanner addresses
    Bytes,          \* the values a setting of a byte may have, by settings_init
    DefaultByte, BadByte,   \* what an absent or an impossible one becomes; such
    None,           \* the empty string
    Torn,           \* a string read while it is written
    MaxCalls,       \* bound: presses and discoveries
    MaxFaults       \* bound: refusals, lost links, failed commits, restarts

ASSUME PanelNetAssumption ==
    /\ \A e \in Entries : e = <<e[1], e[2]>> /\ e[1] # None
    /\ None \notin Addresses /\ Torn \notin Addresses \cup {None}
    /\ DefaultByte \in Bytes /\ BadByte \notin Bytes
    /\ MaxCalls \in Nat /\ MaxFaults \in Nat

VARIABLES
    boot,               \* how far app_main is
    cfg, flash,         \* s_cfg and NVS
    ip,                 \* scanner.c: s_st.ip
    at, arg,            \* where the two callers are, and with what
    net,                \* s_st: ssid, connecting, connected; s_scan_busy
    told,               \* what the link callback was told last
    retry,              \* the retry timer is armed
    tmr, ev,            \* where the timer task and the event loop are
    events,             \* the event loop's queue
    drv, conf, scanning,    \* the driver, and the configuration it has
    aps,                \* names of the access points in reach
    calls, faults,      \* the bounds' counters
    unsaved, crossed, refused, raced    \* history, see below

\* unsaved: settings whose last commit failed.
\* crossed: an address was set before the one set last had reached s_cfg.
\* refused: the driver did not take the last attempt, though it was idle.
\* raced: an attempt of the timer's, or of the start, kept net_connect from
\*        configuring the driver.
historyVars == <<unsaved, crossed, refused, raced>>
settingVars == <<cfg, flash, ip, at, arg, unsaved, crossed>>
driverVars == <<drv, conf, scanning, aps, events, refused, raced>>
eventVars == <<net, told, retry, tmr, ev, driverVars>>
vars == <<boot, settingVars, eventVars, calls, faults>>

Names == {e[1] : e \in Entries}
Passwords == {e[2] : e \in Entries} \cup {None}
Fields == {"ssid", "pass", "ip", "byte"}
Callers == {"ui", "scanner"}

TypeOK ==
    /\ boot \in {"ui", "net", "up", "reboot", "panic"}
    /\ cfg \in [ssid : Names \cup {None}, pass : Passwords,
                ip : Addresses \cup {None, Torn}, byte : Bytes]
    /\ flash \in [ssid : Names \cup {None}, pass : Passwords,
                  ip : Addresses \cup {None, Torn}, byte : Bytes \cup {BadByte}]
    /\ ip \in Addresses \cup {None, Torn}
    /\ at \in [Callers -> Fields \cup {"idle", "tear", "copy", "stop", "drop", "conf",
                                       "conn", "scan"}]
    /\ arg \in [Callers -> Entries \cup Addresses \cup {None}]
    /\ net \in [ssid : Names \cup {None}, connecting : BOOLEAN, connected : BOOLEAN,
                busy : BOOLEAN]
    /\ told \in BOOLEAN /\ retry \in BOOLEAN /\ scanning \in BOOLEAN
    /\ tmr \in {"idle", "conn"} /\ ev \in {"idle", "conn", "down", "arm", "up"}
    /\ events \in Seq({"start", "disc", "ip", "scan"})
    /\ drv \in {"off", "starting", "idle", "trying", "assoc", "up"}
    /\ conf \in (Names \cup {None}) \X Passwords
    /\ aps \subseteq Names
    /\ calls \in 0..MaxCalls /\ faults \in 0..MaxFaults
    /\ unsaved \subseteq Fields /\ crossed \in BOOLEAN
    /\ refused \in BOOLEAN /\ raced \in BOOLEAN

\* Mutant of Loaded: a byte is taken as it is.
FaultyLoaded(f) == f
\* settings_init: what a start makes of the flash.
Loaded(f) == [f EXCEPT !.byte = IF @ \in Bytes THEN @ ELSE DefaultByte]
\* scanner_init: a torn address is one nobody has, or none if it is not one.
Readings(a) == IF a = Torn THEN {None, Torn} ELSE {a}

AtRest == [t \in Callers |-> "idle"]
NoArg == [t \in Callers |-> None]
NoNet == [ssid |-> None, connecting |-> FALSE, connected |-> FALSE, busy |-> FALSE]

\* app_main after settings_init and scanner_init.  The flash: a first start, or
\* credentials and an impossible byte.
Init ==
    /\ flash \in {[ssid |-> None, pass |-> None, ip |-> None, byte |-> DefaultByte]}
              \cup {[ssid |-> e[1], pass |-> e[2], ip |-> None, byte |-> BadByte] :
                       e \in Entries}
    /\ cfg = Loaded(flash) /\ ip \in Readings(flash.ip)
    /\ at = AtRest /\ arg = NoArg /\ net = NoNet /\ boot = "ui" /\ told = FALSE
    /\ retry = FALSE /\ tmr = "idle" /\ ev = "idle" /\ events = <<>>
    /\ drv = "off" /\ conf = <<None, None>> /\ scanning = FALSE
    /\ crossed = FALSE /\ refused = FALSE /\ raced = FALSE /\ unsaved = {}
    /\ aps = Names /\ calls = 0 /\ faults = 0

Fault == faults < MaxFaults /\ faults' = faults + 1
Call(t) == boot \in {"up", "reboot"} /\ at[t] = "idle" /\ calls < MaxCalls /\ calls' = calls + 1
Goes(t, pc) == at' = [at EXCEPT ![t] = pc]

-----------------------------------------------------------------------------
(* The start of the panel, and its end.                                    *)

\* ui_init: without a network it opens the overlay, whose scan takes net.c's
\* lock, which net_init has yet to create: xSemaphoreTake of NULL aborts.
UiInit ==
    /\ boot = "ui" /\ boot' = IF cfg.ssid = None THEN "panic" ELSE "net"
    /\ UNCHANGED <<settingVars, eventVars, calls, faults>>

\* The UI's timer (refresh_cb reads net_status) or a touch comes before net_init.
EarlyUse ==
    /\ boot = "net" /\ Fault /\ boot' = "panic"
    /\ UNCHANGED <<settingVars, eventVars, calls>>

NetInit ==
    /\ boot = "net" /\ boot' = "up" /\ drv' = "starting"
    /\ net' = [net EXCEPT !.ssid = cfg.ssid] /\ conf' = <<cfg.ssid, cfg.pass>>
    /\ UNCHANGED <<settingVars, told, retry, tmr, ev, scanning, aps, events, refused, raced,
                   calls, faults>>

\* The panel restarts: after a panic, when app_reboot has been called, which
\* rev_apply_cb does after its commit, or without power, anywhere.
Begins ==
    /\ cfg' = Loaded(flash) /\ ip' \in Readings(flash.ip)
    /\ at' = AtRest /\ arg' = NoArg /\ net' = NoNet /\ boot' = "ui" /\ told' = FALSE
    /\ retry' = FALSE /\ tmr' = "idle" /\ ev' = "idle" /\ events' = <<>>
    /\ drv' = "off" /\ conf' = <<None, None>> /\ scanning' = FALSE
    /\ crossed' = FALSE /\ refused' = FALSE /\ raced' = FALSE /\ unsaved' = {}
    /\ UNCHANGED <<flash, aps, calls>>
Reboots ==
    /\ boot = "panic" \/ (boot = "reboot" /\ at["ui"] # "byte")
    /\ Begins /\ UNCHANGED faults
PowerLost == Fault /\ Begins

-----------------------------------------------------------------------------
(* The settings: a setter changes s_cfg under the lock, and commit writes  *)
(* what s_cfg holds by then, without it.                                   *)

\* Mutant of Commit: the password is not written.
FaultyCommit(t, k) ==
    /\ at[t] = k /\ Goes(t, CASE k = "ssid" -> "stop" [] OTHER -> "idle")
    /\ flash' = [flash EXCEPT ![k] = cfg[k]] /\ unsaved' = unsaved \ {k} /\ UNCHANGED faults
    /\ UNCHANGED <<boot, cfg, ip, arg, crossed, net, told, retry, tmr, ev, driverVars, calls>>

\* An error of NVS goes unnoticed.
Commit(t, k) ==
    /\ at[t] = k
    /\ Goes(t, CASE k = "ssid" -> "pass" [] k = "pass" -> "stop" [] OTHER -> "idle")
    /\ \/ /\ flash' = [flash EXCEPT ![k] = cfg[k]] /\ unsaved' = unsaved \ {k}
          /\ UNCHANGED faults
       \/ Fault /\ unsaved' = unsaved \cup {k} /\ UNCHANGED flash
    /\ UNCHANGED <<boot, cfg, ip, arg, crossed, net, told, retry, tmr, ev, driverVars, calls>>

\* scanner_set_ip: first scanner.c's own copy.
SetAddress(t, a) ==
    /\ Call(t) /\ Goes(t, "tear") /\ arg' = [arg EXCEPT ![t] = a] /\ ip' = a
    /\ crossed' = \E u \in Callers : at[u] \in {"tear", "copy"}
    /\ UNCHANGED <<boot, cfg, flash, unsaved, net, told, retry, tmr, ev, driverVars, faults>>

\* settings_set_scanner_ip: strlcpy begins, under the lock, and ends.
TearAddress(t) ==
    /\ at[t] = "tear" /\ \A u \in Callers : at[u] # "copy"
    /\ Goes(t, "copy") /\ cfg' = [cfg EXCEPT !.ip = Torn]
    /\ UNCHANGED <<boot, flash, ip, arg, unsaved, crossed, net, told, retry, tmr, ev,
                   driverVars, calls, faults>>
CopyAddress(t) ==
    /\ at[t] = "copy" /\ Goes(t, "ip") /\ cfg' = [cfg EXCEPT !.ip = arg[t]]
    /\ UNCHANGED <<boot, flash, ip, arg, unsaved, crossed, net, told, retry, tmr, ev,
                   driverVars, calls, faults>>

\* ip_save_cb; do_discover's end, which needs the link.
AddressSaved == \E a \in Addresses : SetAddress("ui", a)
Discovered == net.connected /\ \E a \in Addresses : SetAddress("scanner", a)

\* settings_set_backlight, _panel_rev, _flip and _local_volume.
SetByte(v) ==
    /\ Call("ui") /\ Goes("ui", "byte") /\ cfg' = [cfg EXCEPT !.byte = v]
    /\ UNCHANGED <<flash, ip, arg, unsaved, crossed, net, told, retry, tmr, ev, driverVars,
                   faults>>

\* bl_cb, flip_cb and au_vol_cb; rev_apply_cb, which calls app_reboot; reboot_cb.
ByteSet == \E v \in Bytes : SetByte(v) /\ UNCHANGED boot
RevisionApplied == \E v \in Bytes : SetByte(v) /\ boot' = "reboot"

RebootPressed ==
    /\ Call("ui") /\ boot' = "reboot"
    /\ UNCHANGED <<settingVars, eventVars, faults>>

-----------------------------------------------------------------------------
(* The driver (external).                                                  *)

Post(e) == events' = Append(events, e)

\* esp_wifi_connect: taken when idle, unless the radio refuses; an error
\* otherwise, and no caller looks.
Connect ==
    IF drv # "idle" THEN UNCHANGED <<drv, refused, faults>>
    ELSE \/ drv' = "trying" /\ refused' = FALSE /\ UNCHANGED faults
         \/ Fault /\ refused' = TRUE /\ UNCHANGED drv

WifiStarts ==
    /\ drv = "starting" /\ drv' = "idle" /\ Post("start")
    /\ UNCHANGED <<boot, settingVars, net, told, retry, tmr, ev, conf, scanning, aps, refused,
                   raced, calls, faults>>

\* An attempt fails, or leads to an address.
AttemptEnds ==
    /\ drv = "trying"
    /\ IF conf \in Entries /\ conf[1] \in aps
       THEN drv' = "assoc" /\ UNCHANGED events
       ELSE drv' = "idle" /\ Post("disc")
    /\ UNCHANGED <<boot, settingVars, net, told, retry, tmr, ev, conf, scanning, aps, refused,
                   raced, calls, faults>>
Leased ==
    /\ drv = "assoc" /\ drv' = "up" /\ Post("ip")
    /\ UNCHANGED <<boot, settingVars, net, told, retry, tmr, ev, conf, scanning, aps, refused,
                   raced, calls, faults>>

LinkLost ==
    /\ Fault /\ drv \in {"assoc", "up"} /\ drv' = "idle" /\ Post("disc")
    /\ aps' \in {aps, aps \ {conf[1]}}
    /\ UNCHANGED <<boot, settingVars, net, told, retry, tmr, ev, conf, scanning, refused, raced,
                   calls>>
Returns == \E s \in Names \ aps :
    /\ aps' = aps \cup {s}
    /\ UNCHANGED <<boot, settingVars, net, told, retry, tmr, ev, drv, conf, scanning, events,
                   refused, raced, calls, faults>>

ScanFinishes ==
    /\ scanning /\ scanning' = FALSE /\ Post("scan")
    /\ UNCHANGED <<boot, settingVars, net, told, retry, tmr, ev, drv, conf, aps, refused, raced,
                   calls, faults>>

-----------------------------------------------------------------------------
(* on_event, in the event loop, and retry_cb, in the timer task.           *)

Handles(e) == ev = "idle" /\ events # <<>> /\ Head(events) = e /\ events' = Tail(events)
NetOnly == <<boot, settingVars, told, retry, tmr, drv, conf, scanning, aps, refused, raced,
             calls, faults>>

StaStart ==
    /\ Handles("start") /\ net' = [net EXCEPT !.connecting = net.ssid # None]
    /\ ev' = IF net.ssid # None THEN "conn" ELSE "idle"
    /\ UNCHANGED NetOnly
StaStartConnects ==
    /\ ev = "conn" /\ ev' = "idle" /\ Connect
    /\ UNCHANGED <<boot, settingVars, net, told, retry, tmr, conf, scanning, aps, events, raced,
                   calls>>

\* Mutant of Disconnected: was_up is looked at when connected has gone.
FaultyDisconnected ==
    /\ Handles("disc") /\ net' = [net EXCEPT !.connected = FALSE]
    /\ ev' = "arm"
    /\ UNCHANGED NetOnly

\* Mutant of Disconnected: only a link that was up is sought again.
IdleDisconnected ==
    /\ Handles("disc") /\ net' = [net EXCEPT !.connected = FALSE]
    /\ ev' = IF net.connected THEN "down" ELSE "idle"
    /\ UNCHANGED NetOnly

Disconnected ==
    /\ Handles("disc") /\ net' = [net EXCEPT !.connected = FALSE]
    /\ ev' = IF net.connected THEN "down" ELSE "arm"
    /\ UNCHANGED NetOnly

\* s_link_cb(false), then schedule_retry.
LinkDown ==
    /\ ev = "down" /\ ev' = "arm" /\ told' = FALSE
    /\ UNCHANGED <<boot, settingVars, net, retry, tmr, driverVars, calls, faults>>
Arm ==
    /\ ev = "arm" /\ ev' = "idle" /\ retry' = TRUE
    /\ UNCHANGED <<boot, settingVars, net, told, tmr, driverVars, calls, faults>>

GotIp ==
    /\ Handles("ip") /\ net' = [net EXCEPT !.connected = TRUE, !.connecting = FALSE]
    /\ ev' = "up"
    /\ UNCHANGED NetOnly
LinkUp ==
    /\ ev = "up" /\ ev' = "idle" /\ told' = TRUE
    /\ UNCHANGED <<boot, settingVars, net, retry, tmr, driverVars, calls, faults>>

\* Whether or not the records can be had.
ScanDone ==
    /\ Handles("scan") /\ net' = [net EXCEPT !.busy = FALSE]
    /\ UNCHANGED <<NetOnly, ev>>

RetryFires ==
    /\ retry /\ tmr = "idle" /\ retry' = FALSE
    /\ net' = [net EXCEPT !.connecting = net.ssid # None]
    /\ tmr' = IF net.ssid # None THEN "conn" ELSE "idle"
    /\ UNCHANGED <<boot, settingVars, told, ev, driverVars, calls, faults>>
RetryConnects ==
    /\ tmr = "conn" /\ tmr' = "idle" /\ Connect
    /\ UNCHANGED <<boot, settingVars, net, told, retry, ev, conf, scanning, aps, events, raced,
                   calls>>

-----------------------------------------------------------------------------
(* The overlay: wifi_connect_cb, open_wifi_overlay and wifi_scan_cb.       *)

\* net_connect begins with settings_set_wifi.
ConnectPressed == \E e \in Entries :
    /\ Call("ui") /\ Goes("ui", "ssid") /\ arg' = [arg EXCEPT !.ui = e]
    /\ cfg' = [cfg EXCEPT !.ssid = e[1], !.pass = e[2]]
    /\ UNCHANGED <<boot, flash, ip, unsaved, crossed, net, told, retry, tmr, ev, driverVars,
                   faults>>

UiOnly == <<boot, cfg, flash, ip, arg, unsaved, crossed, told, tmr, ev>>

\* The timer is stopped, its callback may be running.
StopRetry ==
    /\ at["ui"] = "stop" /\ Goes("ui", "drop") /\ retry' = FALSE
    /\ net' = [net EXCEPT !.ssid = arg["ui"][1], !.connecting = TRUE]
    /\ UNCHANGED <<UiOnly, driverVars, calls, faults>>

\* esp_wifi_disconnect: a link or an attempt ends with an event.
Drop ==
    /\ at["ui"] = "drop" /\ Goes("ui", "conf")
    /\ IF drv \in {"trying", "assoc", "up"} THEN drv' = "idle" /\ Post("disc")
                                            ELSE UNCHANGED <<drv, events>>
    /\ UNCHANGED <<UiOnly, net, retry, conf, scanning, aps, refused, raced, calls, faults>>

\* Mutant of Configure: only for another name, which it no longer is.
FaultyConfigure ==
    /\ at["ui"] = "conf" /\ Goes("ui", "conn")
    /\ conf' = (IF net.ssid = arg["ui"][1] THEN conf ELSE arg["ui"]) /\ raced' = FALSE
    /\ UNCHANGED <<UiOnly, net, retry, drv, scanning, aps, events, refused, calls, faults>>

\* esp_wifi_set_config is refused during an attempt.
Configure ==
    /\ at["ui"] = "conf" /\ Goes("ui", "conn")
    /\ IF drv = "trying" THEN raced' = TRUE /\ UNCHANGED conf
                         ELSE raced' = FALSE /\ conf' = arg["ui"]
    /\ UNCHANGED <<UiOnly, net, retry, drv, scanning, aps, events, refused, calls, faults>>

ConnectNow ==
    /\ at["ui"] = "conn" /\ Goes("ui", "idle") /\ Connect
    /\ UNCHANGED <<UiOnly, net, retry, conf, scanning, aps, events, raced, calls>>

\* net_scan_start: nothing when a scan is under way.
ScanAsked ==
    /\ Call("ui") /\ Goes("ui", IF net.busy THEN "idle" ELSE "scan")
    /\ net' = [net EXCEPT !.busy = TRUE]
    /\ UNCHANGED <<UiOnly, retry, driverVars, faults>>

\* wifi_scan_cb, and open_wifi_overlay by the button of the settings page.
ScanPressed == ScanAsked
OverlayOpened == ScanAsked

\* The driver does not scan during an attempt, nor before it has started.
ScanStarts ==
    /\ at["ui"] = "scan" /\ Goes("ui", "idle")
    /\ LET starts == drv \notin {"starting", "trying"}
       IN scanning' = starts /\ net' = [net EXCEPT !.busy = starts]
    /\ UNCHANGED <<UiOnly, retry, drv, conf, aps, events, refused, raced, calls, faults>>

-----------------------------------------------------------------------------
Startup == UiInit \/ NetInit \/ Reboots
Settings == \E t \in Callers :
                TearAddress(t) \/ CopyAddress(t) \/ \E k \in Fields : Commit(t, k)
Ui == StopRetry \/ Drop \/ Configure \/ ConnectNow \/ ScanStarts
EventLoop == \/ StaStart \/ StaStartConnects \/ Disconnected \/ LinkDown \/ Arm
             \/ GotIp \/ LinkUp \/ ScanDone
Timer == RetryFires \/ RetryConnects
Driver == WifiStarts \/ AttemptEnds \/ Leased \/ ScanFinishes
User == AddressSaved \/ Discovered \/ ByteSet \/ ConnectPressed \/ ScanPressed
        \/ OverlayOpened
Next == Settings \/ Ui \/ EventLoop \/ Timer \/ Driver \/ User \/ Startup
        \/ RevisionApplied \/ RebootPressed
        \/ LinkLost \/ Returns \/ EarlyUse \/ PowerLost

Spec == Init /\ [][Next]_vars

\* Each task runs, and the driver ends what it began.
FairSpec == /\ Spec /\ WF_vars(Startup) /\ WF_vars(Settings) /\ WF_vars(Ui)
            /\ WF_vars(EventLoop) /\ WF_vars(Timer) /\ WF_vars(Driver)

-----------------------------------------------------------------------------
(* Properties.                                                             *)

Setting == \E t \in Callers : at[t] \in Fields \cup {"tear", "copy"}

\* settings.c: "All setters write through immediately".  Once no setter is
\* under way a restart would find the settings as they are, and the scanner's
\* address is the saved one, save for a commit that failed, or two addresses
\* set across each other; an address torn by a restart stays torn.
WritesThrough ==
    ~Setting => /\ \A k \in Fields \ unsaved : Loaded(flash)[k] = cfg[k]
                /\ ip = cfg.ip \/ cfg.ip = Torn \/ crossed

Trying == \/ drv \in {"starting", "trying", "assoc", "up"} \/ retry \/ tmr = "conn"
          \/ ev \in {"conn", "down", "arm"} \/ at["ui"] \in {"drop", "conf", "conn"}
          \/ Contains(events, "start") \/ Contains(events, "disc")

\* "Wi-Fi station management with automatic reconnection": with a network
\* chosen there is always an attempt, a timer or an event to come that leads to
\* one, unless the driver refused the last; and a scan in progress ends.
NothingForgotten ==
    /\ net.ssid # None => Trying \/ refused
    /\ net.busy => scanning \/ at["ui"] = "scan" \/ Contains(events, "scan")

\* The scanner and the audio are told of a link that comes and goes; it is up
\* when the driver's is, but for the events on their way.
LinkAgrees ==
    /\ ev \notin {"down", "up"} => told = net.connected
    /\ net.connected => drv = "up" \/ Contains(events, "disc")
    /\ drv = "up" => net.connected \/ Contains(events, "ip")

\* The network chosen is found again when it is in reach, unless the driver
\* refused an attempt or its configuration.
Reconnects ==
    []<>(<<cfg.ssid, cfg.pass>> \in Entries /\ cfg.ssid \in aps /\ ~refused /\ ~raced
         => net.connected /\ conf = <<cfg.ssid, cfg.pass>>)
=============================================================================
