------------------------------ MODULE AppState ------------------------------
(***************************************************************************)
(* The web application's shared state (src/main.go, src/handlers.go): the  *)
(* selected scanner, the cache of its state, the configuration file and    *)
(* discovery, as the goroutines of HTTP requests use them.                 *)
(*                                                                         *)
(* a.mu, leaseMu and discoveryMu are held over single actions; stateMu is  *)
(* held over a whole readState and so is a variable.  commandMu is taken   *)
(* after the host has been read: reading it and the exchange under         *)
(* commandMu are two actions.  A selection is a scanner with the number of *)
(* the selection, and a scanner's settings are the number of changes made  *)
(* to them, so that what is older and what is newer can be told.           *)
(***************************************************************************)
EXTENDS Naturals, FiniteSets

CONSTANTS Scanners,   \* addresses of scanners on the network
          Threads,    \* goroutines of requests
          None, Torn, \* no value; a file that is not completely written
          MaxPicks,   \* bound: selections
          MaxWrites,  \* bound: changes of one scanner's settings
          MaxCrashes  \* bound: deaths of the process

ASSUME AppStateAssumption ==
    /\ MaxPicks \in Nat /\ MaxWrites \in Nat /\ MaxCrashes \in Nat
    /\ None \notin Scanners \cup Threads

Picks == [scanner : Scanners \cup {None}, no : 0..MaxPicks]
NoPick == [scanner |-> None, no |-> 0]
Views == [shown : 0..MaxPicks, from : Picks, level : 0..MaxWrites]
ASSUME FileAssumption == None \notin Picks \cup Views /\ Torn \notin Picks \cup {None}

VARIABLES
    pc, op,     \* where each thread is, and what it is doing
    pick,       \* the selection the thread holds: to send to, or to save
    view,       \* what its readState is making
    host,       \* a.cfg.Host
    picks,      \* selections so far
    stateMu,    \* who holds it
    cache,      \* a.stateCache while it may be used; None: stateAt is zero or
                \* too long ago
    tmp, disk,  \* config.json.tmp and config.json
    level,      \* the settings of each scanner
    told,       \* the latest selection that was answered, and the latest changes that
                \* were answered by a handler that invalidates the cache
    clash,      \* two saves have been in progress at the same time
    searching,  \* a.discovering
    crashes     \* deaths of the process so far

threadVars == <<pc, op, pick, view>>
fileVars == <<tmp, disk, clash>>
vars == <<threadVars, host, picks, stateMu, cache, fileVars, level, told,
          searching, crashes>>

-----------------------------------------------------------------------------
PCs == {"idle", "lock", "query", "wire", "store",        \* readState
        "set", "invalidate",                             \* control handlers
        "search", "open", "fill", "refill", "rename", "clear"} \* selections
Ops == {"none", "poll", "force", "write", "select", "logging", "discover"}
Saving == {"open", "fill", "refill", "rename"}

TypeOK ==
    /\ pc \in [Threads -> PCs] /\ op \in [Threads -> Ops]
    /\ pick \in [Threads -> Picks] /\ view \in [Threads -> Views \cup {None}]
    /\ host \in Picks /\ picks \in 0..MaxPicks
    /\ stateMu \in Threads \cup {None}
    /\ cache \in Views \cup {None}
    /\ tmp \in Picks \cup {None, Torn} /\ disk \in Picks \cup {Torn}
    /\ level \in [Scanners -> 0..MaxWrites]
    /\ told \in [pick : 0..MaxPicks, level : [Scanners -> 0..MaxWrites]]
    /\ clash \in BOOLEAN /\ searching \in BOOLEAN
    /\ crashes \in 0..MaxCrashes

Init ==
    /\ pc = [t \in Threads |-> "idle"] /\ op = [t \in Threads |-> "none"]
    /\ pick = [t \in Threads |-> NoPick] /\ view = [t \in Threads |-> None]
    /\ host \in [scanner : Scanners \cup {None}, no : {0}] /\ disk = host
    /\ picks = 0 /\ stateMu = None /\ cache = None /\ tmp = None
    /\ level = [s \in Scanners |-> 0]
    /\ told = [pick |-> 0, level |-> level]
    /\ clash = FALSE /\ searching = FALSE /\ crashes = 0

Max2(i, j) == IF i < j THEN j ELSE i
Goto(t, l) == pc' = [pc EXCEPT ![t] = l]
Step(t, from, to) == pc[t] = from /\ Goto(t, to)
Begin(t, o, entry) == Step(t, "idle", entry) /\ op' = [op EXCEPT ![t] = o]

\* The request is answered; a search is over, as its deferred function says.
End(t) ==
    /\ Goto(t, "idle") /\ op' = [op EXCEPT ![t] = "none"]
    /\ pick' = [pick EXCEPT ![t] = NoPick] /\ view' = [view EXCEPT ![t] = None]
    /\ searching' = (searching /\ op[t] # "discover")

-----------------------------------------------------------------------------
(* readState, of /api/state with and without force, of the diagnostics and  *)
(* of the handlers that look before they act.                               *)

Poll(t) ==
    /\ \E o \in {"poll", "force"} : Begin(t, o, "lock")
    /\ UNCHANGED <<pick, view, host, picks, stateMu, cache, fileVars, level, told,
                   searching, crashes>>

\* The cache answers, or there is no scanner to ask.
AnswerAtOnce(t) ==
    /\ pc[t] = "lock" /\ stateMu = None
    /\ (op[t] = "poll" /\ cache # None) \/ host.scanner = None
    /\ End(t)
    /\ UNCHANGED <<host, picks, stateMu, cache, fileVars, level, told, crashes>>

\* Mutant of LockState: the lock is taken for the map alone, not for the query.
FaultyLock(t) ==
    /\ host.scanner # None
    /\ op[t] = "force" \/ cache = None
    /\ Step(t, "lock", "query")
    /\ pick' = [pick EXCEPT ![t] = host]
    /\ UNCHANGED <<op, view, host, picks, stateMu, cache, fileVars, level, told,
                   searching, crashes>>

\* Whether it was forced no longer matters.
LockState(t) ==
    /\ stateMu = None /\ host.scanner # None
    /\ op[t] = "force" \/ cache = None
    /\ Step(t, "lock", "query")
    /\ stateMu' = t
    /\ pick' = [pick EXCEPT ![t] = host] /\ op' = [op EXCEPT ![t] = "poll"]
    /\ UNCHANGED <<view, host, picks, cache, fileVars, level, told, searching, crashes>>

\* command reads the host again before it waits for commandMu.
QueryState(t) ==
    /\ Step(t, "query", "wire")
    /\ view' = [view EXCEPT ![t] =
                   [shown |-> pick[t].no, from |-> host, level |-> 0]]
    /\ UNCHANGED <<op, pick, host, picks, stateMu, cache, fileVars, level, told,
                   searching, crashes>>

\* GSI, and MDL and VER if model and firmware are not known yet.
ReadLevel(t) ==
    /\ Step(t, "wire", "store")
    /\ view' = [view EXCEPT ![t].level = level[view[t].from.scanner]]
    /\ UNCHANGED <<op, pick, host, picks, stateMu, cache, fileVars, level, told,
                   searching, crashes>>

\* No reply: the answer says offline, the cache stays as it is.
ReadFails(t) ==
    /\ pc[t] = "wire" /\ End(t)
    /\ stateMu' = None
    /\ UNCHANGED <<host, picks, cache, fileVars, level, told, crashes>>

StoreState(t) ==
    /\ pc[t] = "store" /\ End(t)
    /\ cache' = view[t] /\ stateMu' = None
    /\ UNCHANGED <<host, picks, fileVars, level, told, crashes>>

\* StateCacheMS have passed.
ExpireCache ==
    /\ cache # None /\ cache' = None
    /\ UNCHANGED <<threadVars, host, picks, stateMu, fileVars, level, told,
                   searching, crashes>>

-----------------------------------------------------------------------------
(* The control handlers, here by what they share: one command that may      *)
(* change what GSI reports.  Those of volume, squelch, recording, keys,     *)
(* FUNC, holds, location and navigation then call invalidateState.  Those   *)
(* of the waterfall, the analysis, the quick keys, the service types and    *)
(* the clock do not: the cache may be older than what they have changed     *)
(* until StateCacheMS have passed.  The two kinds differ in what they make  *)
(* of a reply alone.                                                        *)

Write(t) ==
    /\ host.scanner # None /\ Begin(t, "write", "set")
    /\ pick' = [pick EXCEPT ![t] = host]
    /\ UNCHANGED <<view, host, picks, stateMu, cache, fileVars, level, told,
                   searching, crashes>>

\* The scanner obeys, or it refuses or hears nothing.
Reaches(s) ==
    \/ level[s] < MaxWrites /\ level' = [level EXCEPT ![s] = @ + 1]
    \/ UNCHANGED level

\* A reply arrives.  execWrite takes any, a refusal too, for success.
WriteTakes(t) ==
    LET s == pick[t].scanner IN
    /\ Step(t, "set", "invalidate")
    /\ Reaches(s)
    /\ view' = [view EXCEPT ![t] = [shown |-> pick[t].no, from |-> pick[t],
                                    level |-> level'[s]]]
    /\ UNCHANGED <<op, pick, host, picks, stateMu, cache, fileVars, told,
                   searching, crashes>>

\* A handler that does not invalidate answers with OK; WaterfallHub.Stop makes
\* that of a lost reply too.
AnswerSilently(t) ==
    /\ pc[t] = "set" /\ End(t)
    /\ Reaches(pick[t].scanner)
    /\ UNCHANGED <<host, picks, stateMu, cache, fileVars, told, crashes>>

\* The command or its reply is lost: the handler answers with an error.
WriteFails(t) ==
    /\ pc[t] = "set" /\ End(t)
    /\ Reaches(pick[t].scanner)
    /\ UNCHANGED <<host, picks, stateMu, cache, fileVars, told, crashes>>

Invalidate(t) ==
    LET s == view[t].from.scanner IN
    /\ pc[t] = "invalidate" /\ stateMu = None /\ End(t)
    /\ cache' = None
    /\ told' = [told EXCEPT !.level[s] = Max2(@, view[t].level)]
    /\ UNCHANGED <<host, picks, stateMu, fileVars, level, crashes>>

-----------------------------------------------------------------------------
(* setHost and saveJSON.                                                    *)

BeginSave(t) == clash' = (clash \/ \E u \in Threads \ {t} : pc[u] \in Saving)

Choose(t, s) ==
    LET p == [scanner |-> s, no |-> picks + 1] IN
    /\ picks < MaxPicks /\ picks' = picks + 1
    /\ host' = p /\ pick' = [pick EXCEPT ![t] = p]
    /\ BeginSave(t)

\* The probe that has identified the scanner shares nothing and is left out.
Select(t, s) ==
    /\ Begin(t, "select", "open") /\ Choose(t, s)
    /\ UNCHANGED <<view, stateMu, cache, tmp, disk, level, told, searching, crashes>>

\* apiLogging saves the configuration too, with the host of that moment.
ChangeLogging(t) ==
    /\ Begin(t, "logging", "open") /\ BeginSave(t)
    /\ pick' = [pick EXCEPT ![t] = host]
    /\ UNCHANGED <<view, host, picks, stateMu, cache, tmp, disk, level, told,
                   searching, crashes>>

\* Mutant of OpenFile: the configuration is written in place.
FaultyOpen(t) ==
    /\ Step(t, "open", "refill") /\ disk' = Torn
    /\ UNCHANGED <<op, pick, view, host, picks, stateMu, cache, tmp, clash, level, told,
                   searching, crashes>>

\* os.WriteFile: the file is created or truncated, then written.
OpenFile(t) ==
    /\ Step(t, "open", "fill") /\ tmp' = Torn
    /\ UNCHANGED <<op, pick, view, host, picks, stateMu, cache, disk, clash, level, told,
                   searching, crashes>>

\* Over the text of another save a shorter one leaves the other's end.
Written(t, old) == {pick[t]} \cup (IF old = Torn THEN {} ELSE {Torn})

FillFile(t) ==
    /\ \/ Step(t, "fill", "rename") /\ tmp' \in Written(t, tmp) /\ UNCHANGED disk
       \/ Step(t, "refill", "rename") /\ disk' \in Written(t, disk) /\ UNCHANGED tmp
    /\ UNCHANGED <<op, pick, view, host, picks, stateMu, cache, clash, level, told,
                   searching, crashes>>

\* Mutant of RenameFile: that there is no file to rename goes unnoticed.
FaultyRename(t) ==
    /\ pc[t] = "rename" /\ End(t)
    /\ disk' = tmp /\ tmp' = None
    /\ UNCHANGED <<host, picks, stateMu, cache, clash, level, told, crashes>>

\* Whoever has the file open goes on in the renamed one; what a rename
\* replaces is gone.
RenameFile(t) ==
    /\ pc[t] = "rename" /\ tmp # None
    /\ disk' = tmp /\ tmp' = None
    /\ pc' = [u \in Threads |->
                 CASE u = t -> IF op[t] = "logging" THEN "idle" ELSE "clear"
                   [] pc[u] = "fill" -> "refill"
                   [] pc[u] = "refill" -> "rename"
                   [] OTHER -> pc[u]]
    /\ op' = IF op[t] = "logging" THEN [op EXCEPT ![t] = "none"] ELSE op
    /\ pick' = IF op[t] = "logging" THEN [pick EXCEPT ![t] = NoPick] ELSE pick
    /\ UNCHANGED <<view, host, picks, stateMu, cache, clash, level, told, searching,
                   crashes>>

\* The write or the rename fails, or another save has taken the file away:
\* setHost returns the error, and the cache stays as it is.
SaveFails(t) ==
    /\ pc[t] \in Saving /\ End(t)
    /\ UNCHANGED <<host, picks, stateMu, cache, fileVars, level, told, crashes>>

ClearCache(t) ==
    /\ pc[t] = "clear" /\ stateMu = None /\ End(t)
    /\ cache' = None
    /\ told' = [told EXCEPT !.pick = Max2(@, pick[t].no)]
    /\ UNCHANGED <<host, picks, stateMu, fileVars, level, crashes>>

-----------------------------------------------------------------------------
(* Discovery, by what it shares: one search at a time, which selects a      *)
(* scanner that has answered a probe, or gives up.                          *)

Discover(t) ==
    /\ ~searching /\ Begin(t, "discover", "search")
    /\ searching' = TRUE
    /\ UNCHANGED <<pick, view, host, picks, stateMu, cache, fileVars, level, told,
                   crashes>>

Receive(t, s) ==
    /\ Step(t, "search", "open") /\ Choose(t, s)
    /\ UNCHANGED <<op, view, stateMu, cache, tmp, disk, level, told, searching,
                   crashes>>

SearchTimeout(t) ==
    /\ pc[t] = "search" /\ End(t)
    /\ UNCHANGED <<host, picks, stateMu, cache, fileVars, level, told, crashes>>

-----------------------------------------------------------------------------
\* The process ends, and comes back with what the file says.  That it can
\* read the file is what DiskKeepsSelection is about.
Restart ==
    /\ crashes < MaxCrashes /\ crashes' = crashes + 1
    /\ disk # Torn /\ host' = disk
    /\ pc' = [t \in Threads |-> "idle"] /\ op' = [t \in Threads |-> "none"]
    /\ pick' = [t \in Threads |-> NoPick] /\ view' = [t \in Threads |-> None]
    /\ stateMu' = None /\ cache' = None /\ searching' = FALSE
    /\ told' = [told EXCEPT !.pick = IF disk.no < @ THEN disk.no ELSE @]
    /\ UNCHANGED <<picks, fileVars, level>>

-----------------------------------------------------------------------------
Going(t) ==
    \/ AnswerAtOnce(t) \/ LockState(t) \/ Invalidate(t) \/ ClearCache(t)
    \/ QueryState(t) \/ ReadLevel(t) \/ ReadFails(t) \/ StoreState(t)
    \/ WriteTakes(t) \/ AnswerSilently(t) \/ WriteFails(t)
    \/ OpenFile(t) \/ FillFile(t) \/ RenameFile(t) \/ SaveFails(t)
    \/ SearchTimeout(t) \/ \E s \in Scanners : Receive(t, s)
Request(t) ==
    \/ Poll(t) \/ Write(t) \/ ChangeLogging(t) \/ Discover(t)
    \/ \E s \in Scanners : Select(t, s)

Next ==
    \/ \E t \in Threads : Request(t) \/ Going(t)
    \/ ExpireCache \/ Restart

Spec == Init /\ [][Next]_vars

-----------------------------------------------------------------------------
(* Properties.                                                              *)

\* What the cache answers is not of a scanner selected before the last selection
\* that was answered, and not from before the last command that was answered by a
\* handler that invalidates: it shows what that command, and every one before it,
\* changed, although commands, selections and invalidations overlap.  What was
\* changed since then and answered silently it may well miss.
CacheNotOlder ==
    cache # None =>
        /\ cache.shown >= told.pick /\ cache.from.no >= told.pick
        /\ cache.level >= told.level[cache.from.scanner]

\* As long as no two saves overlap, the file can be read at any moment a crash
\* may come, and has the last selection that was answered.
DiskKeepsSelection == clash \/ (disk # Torn /\ disk.no >= told.pick)
=============================================================================
