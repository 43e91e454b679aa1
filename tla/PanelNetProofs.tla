--------------------------- MODULE PanelNetProofs ---------------------------
(***************************************************************************)
(* Theorems about PanelNet, for every set of networks, addresses and       *)
(* settings and any number of calls and faults: its invariants.            *)
(***************************************************************************)
EXTENDS PanelNet, TLAPS

\* Before net_init nothing of the Wi-Fi is there, and after it the driver is.
BootInv ==
    /\ boot \in {"ui", "net", "panic"} =>
          /\ drv = "off" /\ net = NoNet /\ events = <<>> /\ at = AtRest
          /\ retry = FALSE /\ tmr = "idle" /\ ev = "idle" /\ scanning = FALSE
    /\ boot \in {"up", "reboot"} => drv # "off"

\* What a caller has to work with at each of its points.
ArgInv ==
    /\ at["scanner"] \in {"idle", "tear", "copy", "ip"}
    /\ \A t \in Callers : at[t] \in {"tear", "copy"} => arg[t] \in Addresses
    /\ at["ui"] \in {"ssid", "pass", "stop", "drop", "conf", "conn"} => arg["ui"] \in Entries

\* A setting is in the flash as it is in s_cfg, unless its commit failed or a
\* caller still has to write it.
Owed(k) == CASE k = "ip" -> {"copy", "ip"} [] k = "pass" -> {"ssid", "pass"} [] OTHER -> {k}
SavedInv == \A k \in Fields \ unsaved :
    (\A t \in Callers : at[t] \notin Owed(k)) => Loaded(flash)[k] = cfg[k]

\* scanner.c's address is the last one set, which one caller at most has yet to
\* copy to s_cfg, unless two were set across each other.
Copying == {t \in Callers : at[t] \in {"tear", "copy"}}
AddressInv == ~crossed =>
    /\ \A t, u \in Copying : t = u
    /\ \A t \in Copying : ip = arg[t]
    /\ Copying = {} => ip = cfg.ip \/ cfg.ip = Torn

\* Of the events on their way the last that is about the link says how it is;
\* what on_event has handled of them is what it has told.
Followed(s, e, f) == \A i \in 1..Len(s) :
    s[i] = e => \E j \in 1..Len(s) : i < j /\ s[j] = f
LinkInv ==
    /\ drv = "up" \/ Followed(events, "ip", "disc")
    /\ drv = "up" => Followed(events, "disc", "ip")
    /\ ev = "up" => net.connected
    /\ ev = "down" => ~net.connected
    /\ LinkAgrees

IInv == TypeOK /\ BootInv /\ ArgInv /\ SavedInv /\ AddressInv /\ LinkInv /\ NothingForgotten

TypeSettings ==
    /\ cfg \in [ssid : Names \cup {None}, pass : Passwords,
                ip : Addresses \cup {None, Torn}, byte : Bytes]
    /\ flash \in [ssid : Names \cup {None}, pass : Passwords,
                  ip : Addresses \cup {None, Torn}, byte : Bytes \cup {BadByte}]
    /\ ip \in Addresses \cup {None, Torn}
    /\ at \in [Callers -> Fields \cup {"idle", "tear", "copy", "stop", "drop", "conf",
                                       "conn", "scan"}]
    /\ arg \in [Callers -> Entries \cup Addresses \cup {None}]
    /\ unsaved \subseteq Fields
TypeWifi ==
    /\ boot \in {"ui", "net", "up", "reboot", "panic"}
    /\ tmr \in {"idle", "conn"} /\ ev \in {"idle", "conn", "down", "arm", "up"}
    /\ events \in Seq({"start", "disc", "ip", "scan"})
    /\ drv \in {"off", "starting", "idle", "trying", "assoc", "up"}
    /\ conf \in (Names \cup {None}) \X Passwords
    /\ aps \subseteq Names
    /\ calls \in 0..MaxCalls /\ faults \in 0..MaxFaults
Flags ==
    /\ net \in [ssid : Names \cup {None}, connecting : BOOLEAN, connected : BOOLEAN,
                busy : BOOLEAN]
    /\ told \in BOOLEAN /\ retry \in BOOLEAN /\ scanning \in BOOLEAN
    /\ crossed \in BOOLEAN /\ refused \in BOOLEAN /\ raced \in BOOLEAN

USE PanelNetAssumption
USE DEF Fault, Call, Goes, Post, Handles, historyVars, settingVars, driverVars, eventVars,
    NetOnly, UiOnly, Begins, Callers, Fields

-----------------------------------------------------------------------------
\* No events; what is left of them when the first is taken.
LEMMA Nothing == ASSUME NEW e, NEW f PROVE Followed(<<>>, e, f) /\ ~Contains(<<>>, e)
BY DEF Followed, Contains

LEMMA Taken ==
    ASSUME NEW S, NEW s \in Seq(S), s # <<>>, NEW e, NEW f
    PROVE  /\ Followed(s, e, f) => Followed(Tail(s), e, f)
           /\ Followed(s, e, f) /\ Head(s) = e => Contains(Tail(s), f)
           /\ Contains(s, e) => Head(s) = e \/ Contains(Tail(s), e)
<1>1. /\ Tail(s) \in Seq(S) /\ Len(Tail(s)) = Len(s) - 1 /\ Len(s) \in Nat \ {0}
      /\ Head(s) = s[1] /\ \A i \in 1..Len(s) - 1 : Tail(s)[i] = s[i + 1]
  OBVIOUS
<1>2. ASSUME NEW i \in 2..Len(s) PROVE i - 1 \in 1..Len(Tail(s)) /\ Tail(s)[i - 1] = s[i]
  BY <1>1
<1>3. ASSUME NEW i \in 1..Len(Tail(s)) PROVE i + 1 \in 2..Len(s) /\ Tail(s)[i] = s[i + 1]
  BY <1>1
<1>4. Followed(s, e, f) => Followed(Tail(s), e, f)
  <2> SUFFICES ASSUME Followed(s, e, f), NEW i \in 1..Len(Tail(s)), Tail(s)[i] = e
               PROVE  \E j \in 1..Len(Tail(s)) : i < j /\ Tail(s)[j] = f
    BY DEF Followed
  <2>1. PICK j \in 1..Len(s) : i + 1 < j /\ s[j] = f
    BY <1>1, <1>3 DEF Followed
  <2>2. j - 1 \in 1..Len(Tail(s)) /\ i < j - 1 /\ Tail(s)[j - 1] = f
    BY <1>2, <2>1
  <2>. QED BY <2>2
<1>5. ASSUME Followed(s, e, f), Head(s) = e PROVE Contains(Tail(s), f)
  <2>1. PICK j \in 1..Len(s) : 1 < j /\ s[j] = f
    BY <1>1, <1>5 DEF Followed
  <2>2. j - 1 \in 1..Len(Tail(s)) /\ Tail(s)[j - 1] = f
    BY <1>2, <2>1
  <2>. QED BY <2>2 DEF Contains
<1>6. ASSUME Contains(s, e), Head(s) # e PROVE Contains(Tail(s), e)
  <2>1. PICK j \in 1..Len(s) : s[j] = e
    BY <1>6 DEF Contains
  <2>2. j - 1 \in 1..Len(Tail(s)) /\ Tail(s)[j - 1] = e
    BY <1>1, <1>2, <1>6, <2>1
  <2>. QED BY <2>2 DEF Contains
<1>. QED BY <1>4, <1>5, <1>6

\* What is there when one more is posted.
LEMMA Posted ==
    ASSUME NEW S, NEW s \in Seq(S), NEW x \in S, NEW e, NEW f
    PROVE  /\ Append(s, x) \in Seq(S)
           /\ Contains(Append(s, x), x)
           /\ Contains(s, e) => Contains(Append(s, x), e)
           /\ Contains(Append(s, x), e) => Contains(s, e) \/ e = x
           /\ e # x => Followed(Append(s, x), e, x)
           /\ e # x /\ Followed(s, e, f) => Followed(Append(s, x), e, f)
<1>1. /\ Len(Append(s, x)) = Len(s) + 1 /\ Len(s) \in Nat
      /\ Append(s, x)[Len(s) + 1] = x /\ \A i \in 1..Len(s) : Append(s, x)[i] = s[i]
  OBVIOUS
<1>2. Append(s, x) \in Seq(S)
  OBVIOUS
<1>. QED BY <1>1, <1>2 DEF Contains, Followed

\* TypeOK is its three parts.
LEMMA TypeParts == TypeOK <=> TypeSettings /\ TypeWifi /\ Flags
BY Zenon DEF TypeOK, TypeSettings, TypeWifi, Flags

\* The same of the event loop's queue.
EventNames == {"start", "disc", "ip", "scan"}
LEMMA EventTaken ==
    ASSUME TypeWifi, events # <<>>, events' = Tail(events)
    PROVE  /\ \A e, f \in EventNames : Followed(events, e, f) =>
                  Followed(events', e, f) /\ (Head(events) = e => Contains(events', f))
           /\ \A e \in EventNames : Contains(events, e) =>
                  Head(events) = e \/ Contains(events', e)
BY Taken DEF TypeWifi, EventNames

LEMMA EventPosted ==
    ASSUME TypeWifi, NEW x \in EventNames, events' = Append(events, x)
    PROVE  /\ Contains(events', x)
           /\ \A e \in EventNames : Contains(events, e) => Contains(events', e)
           /\ \A e \in EventNames : Contains(events', e) => Contains(events, e) \/ e = x
           /\ \A e \in EventNames \ {x} : Followed(events', e, x)
           /\ \A e \in EventNames \ {x}, f \in EventNames :
                  Followed(events, e, f) => Followed(events', e, f)
<1>. events \in Seq(EventNames)
  BY DEF TypeWifi, EventNames
<1>1. ASSUME NEW e \in EventNames, NEW f \in EventNames
      PROVE  LET later == Append(events, x)
             IN  /\ Contains(later, x)
                 /\ Contains(events, e) => Contains(later, e)
                 /\ Contains(later, e) => Contains(events, e) \/ e = x
                 /\ e # x => Followed(later, e, x)
                 /\ e # x /\ Followed(events, e, f) => Followed(later, e, f)
  BY Zenon, Posted
<1>. QED BY <1>1 DEF EventNames

\* Every step keeps the types of the network's variables.
LEMMA WifiStep == ASSUME TypeWifi, TypeSettings, Flags, ArgInv, [Next]_vars PROVE TypeWifi'
<1>. USE DEF TypeWifi
<1>1. CASE UiInit
  BY <1>1 DEF UiInit
<1>2. CASE EarlyUse
  BY <1>2 DEF EarlyUse
<1>3. CASE NetInit
  BY <1>3 DEF NetInit, TypeSettings
<1>4. CASE Reboots
  BY <1>4 DEF Reboots, Passwords
<1>5. CASE PowerLost
  BY <1>5 DEF PowerLost, Passwords
<1>6. ASSUME NEW t \in Callers, NEW k \in Fields, Commit(t, k) PROVE TypeWifi'
  BY <1>6 DEF Commit
<1>7. ASSUME NEW t \in Callers, TearAddress(t) PROVE TypeWifi'
  BY <1>7 DEF TearAddress
<1>8. ASSUME NEW t \in Callers, CopyAddress(t) PROVE TypeWifi'
  BY <1>8 DEF CopyAddress
<1>9. CASE AddressSaved
  BY <1>9 DEF AddressSaved, SetAddress
<1>10. CASE Discovered
  BY <1>10 DEF Discovered, SetAddress
<1>11. CASE ByteSet
  BY <1>11 DEF ByteSet, SetByte
<1>12. CASE RevisionApplied
  BY <1>12 DEF RevisionApplied, SetByte
<1>13. CASE RebootPressed
  BY <1>13 DEF RebootPressed
<1>14. CASE WifiStarts
  BY <1>14 DEF WifiStarts
<1>15. CASE AttemptEnds
  <2>1. CASE conf \in Entries /\ conf[1] \in aps
    BY <1>15, <2>1 DEF AttemptEnds
  <2>2. CASE ~(conf \in Entries /\ conf[1] \in aps)
    BY <1>15, <2>2 DEF AttemptEnds
  <2>. QED BY <2>1, <2>2
<1>16. CASE Leased
  BY <1>16 DEF Leased
<1>17. CASE LinkLost
  BY <1>17 DEF LinkLost
<1>18. CASE Returns
  BY <1>18 DEF Returns
<1>19. CASE ScanFinishes
  BY <1>19 DEF ScanFinishes
<1>20. CASE StaStart
  BY <1>20 DEF StaStart
<1>21. CASE StaStartConnects
  BY <1>21 DEF StaStartConnects, Connect
<1>22. CASE Disconnected
  BY <1>22 DEF Disconnected
<1>23. CASE LinkDown
  BY <1>23 DEF LinkDown
<1>24. CASE Arm
  BY <1>24 DEF Arm
<1>25. CASE GotIp
  BY <1>25 DEF GotIp
<1>26. CASE LinkUp
  BY <1>26 DEF LinkUp
<1>27. CASE ScanDone
  BY <1>27 DEF ScanDone
<1>28. CASE RetryFires
  BY <1>28 DEF RetryFires
<1>29. CASE RetryConnects
  BY <1>29 DEF RetryConnects, Connect
<1>30. CASE ConnectPressed
  BY <1>30 DEF ConnectPressed
<1>31. CASE StopRetry
  BY <1>31 DEF StopRetry
<1>32. CASE Drop
  <2>1. drv' = drv \/ drv' = "idle"
    BY <1>32 DEF Drop
  <2>2. events' = events \/ events' = Append(events, "disc")
    BY <1>32 DEF Drop
  <2>3. events' \in Seq({"start", "disc", "ip", "scan"})
    <3>1. events \in Seq(EventNames) /\ "disc" \in EventNames
      BY DEF EventNames
    <3>2. Append(events, "disc") \in Seq(EventNames)
      BY Zenon, <3>1, Posted
    <3>. QED BY <2>2, <3>1, <3>2 DEF EventNames
  <2>4. UNCHANGED <<boot, tmr, ev, conf, aps, calls, faults>>
    BY <1>32 DEF Drop
  <2>. QED BY <2>1, <2>3, <2>4
<1>33. CASE Configure
  BY <1>33 DEF Configure, ArgInv, Names, Passwords
<1>34. CASE ConnectNow
  BY <1>34 DEF ConnectNow, Connect
<1>35. CASE ScanPressed
  BY <1>35 DEF ScanPressed, ScanAsked
<1>36. CASE OverlayOpened
  BY <1>36 DEF OverlayOpened, ScanAsked
<1>37. CASE ScanStarts
  BY <1>37 DEF ScanStarts
<1>38. CASE UNCHANGED vars
  BY <1>38 DEF vars
<1>. QED BY Zenon, <1>1, <1>2, <1>3, <1>4, <1>5, <1>6, <1>7, <1>8, <1>9, <1>10, <1>11,
    <1>12, <1>13, <1>14, <1>15, <1>16, <1>17, <1>18, <1>19, <1>20, <1>21, <1>22, <1>23,
    <1>24, <1>25, <1>26, <1>27, <1>28, <1>29, <1>30, <1>31, <1>32, <1>33, <1>34, <1>35,
    <1>36, <1>37, <1>38
    DEF Next, Settings, Ui, EventLoop, Timer, Driver, User, Startup

\* Every step keeps the flags.
LEMMA FlagStep == ASSUME TypeWifi, TypeSettings, Flags, ArgInv, [Next]_vars PROVE Flags'
<1>. USE DEF Flags
<1>1. CASE UiInit
  BY <1>1 DEF UiInit
<1>2. CASE EarlyUse
  BY <1>2 DEF EarlyUse
<1>3. CASE NetInit
  BY <1>3 DEF NetInit, TypeSettings
<1>4. CASE Reboots
  BY <1>4 DEF Reboots, NoNet
<1>5. CASE PowerLost
  BY <1>5 DEF PowerLost, NoNet
<1>6. ASSUME NEW t \in Callers, NEW k \in Fields, Commit(t, k) PROVE Flags'
  BY <1>6 DEF Commit
<1>7. ASSUME NEW t \in Callers, TearAddress(t) PROVE Flags'
  BY <1>7 DEF TearAddress
<1>8. ASSUME NEW t \in Callers, CopyAddress(t) PROVE Flags'
  BY <1>8 DEF CopyAddress
<1>9. CASE AddressSaved
  BY <1>9 DEF AddressSaved, SetAddress
<1>10. CASE Discovered
  BY <1>10 DEF Discovered, SetAddress
<1>11. CASE ByteSet
  BY <1>11 DEF ByteSet, SetByte
<1>12. CASE RevisionApplied
  BY <1>12 DEF RevisionApplied, SetByte
<1>13. CASE RebootPressed
  BY <1>13 DEF RebootPressed
<1>14. CASE WifiStarts
  BY <1>14 DEF WifiStarts
<1>15. CASE AttemptEnds
  BY <1>15 DEF AttemptEnds
<1>16. CASE Leased
  BY <1>16 DEF Leased
<1>17. CASE LinkLost
  BY <1>17 DEF LinkLost
<1>18. CASE Returns
  BY <1>18 DEF Returns
<1>19. CASE ScanFinishes
  BY <1>19 DEF ScanFinishes
<1>20. CASE StaStart
  BY <1>20 DEF StaStart
<1>21. CASE StaStartConnects
  BY <1>21 DEF StaStartConnects, Connect
<1>22. CASE Disconnected
  BY <1>22 DEF Disconnected
<1>23. CASE LinkDown
  BY <1>23 DEF LinkDown
<1>24. CASE Arm
  BY <1>24 DEF Arm
<1>25. CASE GotIp
  BY <1>25 DEF GotIp
<1>26. CASE LinkUp
  BY <1>26 DEF LinkUp
<1>27. CASE ScanDone
  BY <1>27 DEF ScanDone
<1>28. CASE RetryFires
  BY <1>28 DEF RetryFires
<1>29. CASE RetryConnects
  BY <1>29 DEF RetryConnects, Connect
<1>30. CASE ConnectPressed
  BY <1>30 DEF ConnectPressed
<1>31. CASE StopRetry
  BY <1>31 DEF StopRetry, ArgInv, Names
<1>32. CASE Drop
  BY <1>32 DEF Drop
<1>33. CASE Configure
  BY <1>33 DEF Configure
<1>34. CASE ConnectNow
  BY <1>34 DEF ConnectNow, Connect
<1>35. CASE ScanPressed
  BY <1>35 DEF ScanPressed, ScanAsked
<1>36. CASE OverlayOpened
  BY <1>36 DEF OverlayOpened, ScanAsked
<1>37. CASE ScanStarts
  BY <1>37 DEF ScanStarts
<1>38. CASE UNCHANGED vars
  BY <1>38 DEF vars
<1>. QED BY Zenon, <1>1, <1>2, <1>3, <1>4, <1>5, <1>6, <1>7, <1>8, <1>9, <1>10, <1>11,
    <1>12, <1>13, <1>14, <1>15, <1>16, <1>17, <1>18, <1>19, <1>20, <1>21, <1>22, <1>23,
    <1>24, <1>25, <1>26, <1>27, <1>28, <1>29, <1>30, <1>31, <1>32, <1>33, <1>34, <1>35,
    <1>36, <1>37, <1>38
    DEF Next, Settings, Ui, EventLoop, Timer, Driver, User, Startup

\* The steps that change the settings or what their callers do.
LEMMA SettingKinds == ASSUME [Next]_vars PROVE
    \/ UNCHANGED settingVars
    \/ Reboots
    \/ PowerLost
    \/ \E t \in Callers, k \in Fields : Commit(t, k)
    \/ \E t \in Callers : TearAddress(t)
    \/ \E t \in Callers : CopyAddress(t)
    \/ AddressSaved
    \/ Discovered
    \/ ByteSet
    \/ RevisionApplied
    \/ ConnectPressed
    \/ StopRetry
    \/ Drop
    \/ Configure
    \/ ConnectNow
    \/ ScanPressed
    \/ OverlayOpened
    \/ ScanStarts
BY Zenon DEF Next, Settings, Ui, EventLoop, Timer, Driver, User, Startup, vars, UiInit,
    EarlyUse, NetInit, RebootPressed, WifiStarts, AttemptEnds, Leased, LinkLost, Returns,
    ScanFinishes, StaStart, StaStartConnects, Connect, Disconnected, LinkDown, Arm, GotIp,
    LinkUp, ScanDone, RetryFires, RetryConnects

\* Every step keeps the types of the settings and their callers.
LEMMA SettingStep == ASSUME TypeSettings, ArgInv, [Next]_vars PROVE TypeSettings'
<1>. USE DEF TypeSettings
<1>1. CASE Reboots
  BY <1>1 DEF Reboots, Loaded, AtRest, NoArg, Readings
<1>2. CASE PowerLost
  BY <1>2 DEF PowerLost, Loaded, AtRest, NoArg, Readings
<1>3. ASSUME NEW t \in Callers, NEW k \in Fields, Commit(t, k) PROVE TypeSettings'
  BY <1>3 DEF Commit
<1>4. ASSUME NEW t \in Callers, TearAddress(t) PROVE TypeSettings'
  BY <1>4 DEF TearAddress
<1>5. ASSUME NEW t \in Callers, CopyAddress(t) PROVE TypeSettings'
  BY <1>5 DEF CopyAddress, ArgInv
<1>6. CASE AddressSaved
  BY <1>6 DEF AddressSaved, SetAddress
<1>7. CASE Discovered
  BY <1>7 DEF Discovered, SetAddress
<1>8. CASE ByteSet
  BY <1>8 DEF ByteSet, SetByte
<1>9. CASE RevisionApplied
  BY <1>9 DEF RevisionApplied, SetByte
<1>10. CASE ConnectPressed
  <2>1. PICK e \in Entries :
          /\ Call("ui") /\ Goes("ui", "ssid") /\ arg' = [arg EXCEPT !["ui"] = e]
          /\ cfg' = [[cfg EXCEPT !.ssid = e[1]] EXCEPT !.pass = e[2]]
          /\ UNCHANGED <<flash, ip, unsaved>>
    BY <1>10 DEF ConnectPressed
  <2>2. e[1] \in Names /\ e[2] \in Passwords
    BY DEF Names, Passwords
  <2>. QED BY <2>1, <2>2
<1>11. CASE StopRetry
  BY <1>11 DEF StopRetry
<1>12. CASE Drop
  BY <1>12 DEF Drop
<1>13. CASE Configure
  BY <1>13 DEF Configure
<1>14. CASE ConnectNow
  BY <1>14 DEF ConnectNow, Connect
<1>15. CASE ScanPressed
  BY <1>15 DEF ScanPressed, ScanAsked
<1>16. CASE OverlayOpened
  BY <1>16 DEF OverlayOpened, ScanAsked
<1>17. CASE ScanStarts
  BY <1>17 DEF ScanStarts
<1>18. CASE UNCHANGED settingVars
  BY <1>18
<1>. QED BY Zenon, SettingKinds, <1>1, <1>2, <1>3, <1>4, <1>5, <1>6, <1>7, <1>8, <1>9,
    <1>10, <1>11, <1>12, <1>13, <1>14, <1>15, <1>16, <1>17, <1>18

\* Every step keeps what the callers work with.
LEMMA ArgStep == ASSUME TypeSettings, ArgInv, [Next]_vars PROVE ArgInv'
<1>. USE DEF TypeSettings, ArgInv
<1>1. CASE Reboots
  BY <1>1 DEF Reboots, AtRest
<1>2. CASE PowerLost
  BY <1>2 DEF PowerLost, AtRest
<1>3. ASSUME NEW t \in Callers, NEW k \in Fields, Commit(t, k) PROVE ArgInv'
  BY <1>3 DEF Commit
<1>4. ASSUME NEW t \in Callers, TearAddress(t) PROVE ArgInv'
  BY <1>4 DEF TearAddress
<1>5. ASSUME NEW t \in Callers, CopyAddress(t) PROVE ArgInv'
  BY <1>5 DEF CopyAddress
<1>6. CASE AddressSaved
  BY <1>6 DEF AddressSaved, SetAddress
<1>7. CASE Discovered
  BY <1>7 DEF Discovered, SetAddress
<1>8. CASE ByteSet
  BY <1>8 DEF ByteSet, SetByte
<1>9. CASE RevisionApplied
  BY <1>9 DEF RevisionApplied, SetByte
<1>10. CASE ConnectPressed
  BY <1>10 DEF ConnectPressed
<1>11. CASE StopRetry
  BY <1>11 DEF StopRetry
<1>12. CASE Drop
  BY <1>12 DEF Drop
<1>13. CASE Configure
  BY <1>13 DEF Configure
<1>14. CASE ConnectNow
  BY <1>14 DEF ConnectNow, Connect
<1>15. CASE ScanPressed
  BY <1>15 DEF ScanPressed, ScanAsked
<1>16. CASE OverlayOpened
  BY <1>16 DEF OverlayOpened, ScanAsked
<1>17. CASE ScanStarts
  BY <1>17 DEF ScanStarts
<1>18. CASE UNCHANGED settingVars
  BY <1>18
<1>. QED BY Zenon, SettingKinds, <1>1, <1>2, <1>3, <1>4, <1>5, <1>6, <1>7, <1>8, <1>9,
    <1>10, <1>11, <1>12, <1>13, <1>14, <1>15, <1>16, <1>17, <1>18

\* Every step keeps what the flash has of s_cfg.
LEMMA SavedStep == ASSUME TypeSettings, ArgInv, SavedInv, [Next]_vars PROVE SavedInv'
<1>. USE DEF TypeSettings, SavedInv, Owed, Loaded
<1>1. CASE Reboots
  BY <1>1 DEF Reboots, AtRest
<1>2. CASE PowerLost
  BY <1>2 DEF PowerLost, AtRest
<1>3. ASSUME NEW t \in Callers, NEW k \in Fields, Commit(t, k) PROVE SavedInv'
  BY <1>3 DEF Commit
<1>4. ASSUME NEW t \in Callers, TearAddress(t) PROVE SavedInv'
  BY <1>4 DEF TearAddress
<1>5. ASSUME NEW t \in Callers, CopyAddress(t) PROVE SavedInv'
  BY <1>5 DEF CopyAddress
<1>6. CASE AddressSaved
  BY <1>6 DEF AddressSaved, SetAddress
<1>7. CASE Discovered
  BY <1>7 DEF Discovered, SetAddress
<1>8. CASE ByteSet
  BY <1>8 DEF ByteSet, SetByte
<1>9. CASE RevisionApplied
  BY <1>9 DEF RevisionApplied, SetByte
<1>10. CASE ConnectPressed
  <2>1. PICK e \in Entries :
          /\ Call("ui") /\ Goes("ui", "ssid") /\ arg' = [arg EXCEPT !["ui"] = e]
          /\ cfg' = [[cfg EXCEPT !.ssid = e[1]] EXCEPT !.pass = e[2]]
          /\ UNCHANGED <<flash, ip, unsaved>>
    BY <1>10 DEF ConnectPressed
  <2>2. SUFFICES ASSUME NEW k \in Fields \ unsaved', \A t \in Callers : at'[t] \notin Owed(k)
                 PROVE  Loaded(flash')[k] = cfg'[k]
    BY DEF SavedInv
  <2>3. k \in {"ip", "byte"} /\ \A t \in Callers : at[t] \notin Owed(k)
    BY <2>1, <2>2
  <2>4. cfg'[k] = cfg[k]
    BY <2>1, <2>3
  <2>. QED BY <2>1, <2>3, <2>4
<1>11. CASE StopRetry
  BY <1>11 DEF StopRetry
<1>12. CASE Drop
  BY <1>12 DEF Drop
<1>13. CASE Configure
  BY <1>13 DEF Configure
<1>14. CASE ConnectNow
  BY <1>14 DEF ConnectNow, Connect
<1>15. CASE ScanPressed
  BY <1>15 DEF ScanPressed, ScanAsked
<1>16. CASE OverlayOpened
  BY <1>16 DEF OverlayOpened, ScanAsked
<1>17. CASE ScanStarts
  BY <1>17 DEF ScanStarts
<1>18. CASE UNCHANGED settingVars
  BY <1>18
<1>. HIDE DEF TypeSettings, SavedInv, Owed, Loaded
<1>. QED BY Zenon, SettingKinds, <1>1, <1>2, <1>3, <1>4, <1>5, <1>6, <1>7, <1>8, <1>9,
    <1>10, <1>11, <1>12, <1>13, <1>14, <1>15, <1>16, <1>17, <1>18

\* Every step keeps what scanner.c's address has to do with s_cfg's.
LEMMA AddressStep == ASSUME TypeSettings, ArgInv, AddressInv, [Next]_vars PROVE AddressInv'
<1>. USE DEF TypeSettings, ArgInv, AddressInv, Copying
<1>1. CASE Reboots
  BY <1>1 DEF Reboots, AtRest, Readings, Loaded
<1>2. CASE PowerLost
  BY <1>2 DEF PowerLost, AtRest, Readings, Loaded
<1>3. ASSUME NEW t \in Callers, NEW k \in Fields, Commit(t, k) PROVE AddressInv'
  BY <1>3 DEF Commit
<1>4. ASSUME NEW t \in Callers, TearAddress(t) PROVE AddressInv'
  BY <1>4 DEF TearAddress
<1>5. ASSUME NEW t \in Callers, CopyAddress(t) PROVE AddressInv'
  BY <1>5 DEF CopyAddress
<1>6. CASE AddressSaved
  BY <1>6 DEF AddressSaved, SetAddress
<1>7. CASE Discovered
  BY <1>7 DEF Discovered, SetAddress
<1>8. CASE ByteSet
  BY <1>8 DEF ByteSet, SetByte
<1>9. CASE RevisionApplied
  BY <1>9 DEF RevisionApplied, SetByte
<1>10. CASE ConnectPressed
  BY <1>10 DEF ConnectPressed
<1>11. CASE StopRetry
  BY <1>11 DEF StopRetry
<1>12. CASE Drop
  BY <1>12 DEF Drop
<1>13. CASE Configure
  BY <1>13 DEF Configure
<1>14. CASE ConnectNow
  BY <1>14 DEF ConnectNow, Connect
<1>15. CASE ScanPressed
  BY <1>15 DEF ScanPressed, ScanAsked
<1>16. CASE OverlayOpened
  BY <1>16 DEF OverlayOpened, ScanAsked
<1>17. CASE ScanStarts
  BY <1>17 DEF ScanStarts
<1>18. CASE UNCHANGED settingVars
  BY <1>18
<1>. HIDE DEF TypeSettings, ArgInv, AddressInv, Copying
<1>. QED BY Zenon, SettingKinds, <1>1, <1>2, <1>3, <1>4, <1>5, <1>6, <1>7, <1>8, <1>9,
    <1>10, <1>11, <1>12, <1>13, <1>14, <1>15, <1>16, <1>17, <1>18

\* Every step keeps apart what is before net_init and after it.
LEMMA BootStep == ASSUME TypeWifi, TypeSettings, Flags, BootInv, [Next]_vars PROVE BootInv'
<1>. USE DEF TypeWifi, TypeSettings, Flags, BootInv
<1>1. CASE UiInit
  BY <1>1 DEF UiInit
<1>2. CASE EarlyUse
  BY <1>2 DEF EarlyUse
<1>3. CASE NetInit
  BY <1>3 DEF NetInit
<1>4. CASE Reboots
  BY <1>4 DEF Reboots, AtRest, NoNet
<1>5. CASE PowerLost
  BY <1>5 DEF PowerLost, AtRest, NoNet
<1>6. ASSUME NEW t \in Callers, NEW k \in Fields, Commit(t, k) PROVE BootInv'
  BY <1>6 DEF Commit, AtRest
<1>7. ASSUME NEW t \in Callers, TearAddress(t) PROVE BootInv'
  BY <1>7 DEF TearAddress, AtRest
<1>8. ASSUME NEW t \in Callers, CopyAddress(t) PROVE BootInv'
  BY <1>8 DEF CopyAddress, AtRest
<1>9. CASE AddressSaved
  BY <1>9 DEF AddressSaved, SetAddress
<1>10. CASE Discovered
  BY <1>10 DEF Discovered, SetAddress
<1>11. CASE ByteSet
  BY <1>11 DEF ByteSet, SetByte
<1>12. CASE RevisionApplied
  BY <1>12 DEF RevisionApplied, SetByte
<1>13. CASE RebootPressed
  BY <1>13 DEF RebootPressed
<1>14. CASE WifiStarts
  BY <1>14 DEF WifiStarts
<1>15. CASE AttemptEnds
  BY <1>15 DEF AttemptEnds
<1>16. CASE Leased
  BY <1>16 DEF Leased
<1>17. CASE LinkLost
  BY <1>17 DEF LinkLost
<1>18. CASE Returns
  BY <1>18 DEF Returns
<1>19. CASE ScanFinishes
  BY <1>19 DEF ScanFinishes
<1>20. CASE StaStart
  BY <1>20 DEF StaStart
<1>21. CASE StaStartConnects
  BY <1>21 DEF StaStartConnects, Connect
<1>22. CASE Disconnected
  BY <1>22 DEF Disconnected
<1>23. CASE LinkDown
  BY <1>23 DEF LinkDown
<1>24. CASE Arm
  BY <1>24 DEF Arm
<1>25. CASE GotIp
  BY <1>25 DEF GotIp
<1>26. CASE LinkUp
  BY <1>26 DEF LinkUp
<1>27. CASE ScanDone
  BY <1>27 DEF ScanDone
<1>28. CASE RetryFires
  BY <1>28 DEF RetryFires
<1>29. CASE RetryConnects
  BY <1>29 DEF RetryConnects, Connect
<1>30. CASE ConnectPressed
  BY <1>30 DEF ConnectPressed
<1>31. CASE StopRetry
  BY <1>31 DEF StopRetry, AtRest
<1>32. CASE Drop
  BY <1>32 DEF Drop, AtRest
<1>33. CASE Configure
  BY <1>33 DEF Configure, AtRest
<1>34. CASE ConnectNow
  BY <1>34 DEF ConnectNow, Connect, AtRest
<1>35. CASE ScanPressed
  BY <1>35 DEF ScanPressed, ScanAsked
<1>36. CASE OverlayOpened
  BY <1>36 DEF OverlayOpened, ScanAsked
<1>37. CASE ScanStarts
  BY <1>37 DEF ScanStarts, AtRest
<1>38. CASE UNCHANGED vars
  BY <1>38 DEF vars
<1>. QED BY Zenon, <1>1, <1>2, <1>3, <1>4, <1>5, <1>6, <1>7, <1>8, <1>9, <1>10, <1>11,
    <1>12, <1>13, <1>14, <1>15, <1>16, <1>17, <1>18, <1>19, <1>20, <1>21, <1>22, <1>23,
    <1>24, <1>25, <1>26, <1>27, <1>28, <1>29, <1>30, <1>31, <1>32, <1>33, <1>34, <1>35,
    <1>36, <1>37, <1>38
    DEF Next, Settings, Ui, EventLoop, Timer, Driver, User, Startup

\* The steps that change the link or what is known of it.
LEMMA LinkKinds == ASSUME [Next]_vars PROVE
    \/ UNCHANGED <<net, told, ev, events, drv>>
    \/ NetInit
    \/ Reboots
    \/ PowerLost
    \/ WifiStarts
    \/ AttemptEnds
    \/ Leased
    \/ LinkLost
    \/ ScanFinishes
    \/ StaStart
    \/ StaStartConnects
    \/ Disconnected
    \/ LinkDown
    \/ Arm
    \/ GotIp
    \/ LinkUp
    \/ ScanDone
    \/ RetryFires
    \/ RetryConnects
    \/ StopRetry
    \/ Drop
    \/ ConnectNow
    \/ ScanPressed
    \/ OverlayOpened
    \/ ScanStarts
BY Zenon DEF Next, Settings, Ui, EventLoop, Timer, Driver, User, Startup, vars, Commit,
    TearAddress, CopyAddress, AddressSaved, SetAddress, Discovered, ByteSet, SetByte,
    RevisionApplied, RebootPressed, Returns, UiInit, EarlyUse, ConnectPressed, Configure

\* Every step keeps what is known of the link.
LEMMA LinkStep == ASSUME TypeWifi, Flags, BootInv, LinkInv, [Next]_vars PROVE LinkInv'
<1>. USE DEF EventNames, TypeWifi, Flags, LinkInv, LinkAgrees
<1>1. CASE NetInit
  BY <1>1, EventTaken, EventPosted DEF NetInit, BootInv, NoNet
<1>2. CASE Reboots
  <2>1. net'.connected = FALSE /\ told' = FALSE /\ drv' = "off" /\ ev' = "idle" /\ events' = <<>>
    BY <1>2 DEF Reboots, NoNet
  <2>. QED BY <2>1, Nothing
<1>3. CASE PowerLost
  <2>1. net'.connected = FALSE /\ told' = FALSE /\ drv' = "off" /\ ev' = "idle" /\ events' = <<>>
    BY <1>3 DEF PowerLost, NoNet
  <2>. QED BY <2>1, Nothing
<1>4. CASE WifiStarts
  BY <1>4, EventTaken, EventPosted DEF WifiStarts
<1>5. CASE AttemptEnds
  BY <1>5, EventTaken, EventPosted DEF AttemptEnds
<1>6. CASE Leased
  BY <1>6, EventTaken, EventPosted DEF Leased
<1>7. CASE LinkLost
  BY <1>7, EventTaken, EventPosted DEF LinkLost
<1>8. CASE ScanFinishes
  BY <1>8, EventTaken, EventPosted DEF ScanFinishes
<1>9. CASE StaStart
  BY <1>9, EventTaken, EventPosted DEF StaStart
<1>10. CASE StaStartConnects
  BY <1>10, EventTaken, EventPosted DEF StaStartConnects, Connect
<1>11. CASE Disconnected
  BY <1>11, EventTaken, EventPosted DEF Disconnected
<1>12. CASE LinkDown
  BY <1>12, EventTaken, EventPosted DEF LinkDown
<1>13. CASE Arm
  BY <1>13, EventTaken, EventPosted DEF Arm
<1>14. CASE GotIp
  BY <1>14, EventTaken, EventPosted DEF GotIp
<1>15. CASE LinkUp
  BY <1>15, EventTaken, EventPosted DEF LinkUp
<1>16. CASE ScanDone
  BY <1>16, EventTaken, EventPosted DEF ScanDone
<1>17. CASE RetryFires
  BY <1>17, EventTaken, EventPosted DEF RetryFires
<1>18. CASE RetryConnects
  BY <1>18, EventTaken, EventPosted DEF RetryConnects, Connect
<1>19. CASE StopRetry
  BY <1>19, EventTaken, EventPosted DEF StopRetry
<1>20. CASE Drop
  BY <1>20, EventTaken, EventPosted DEF Drop
<1>21. CASE ConnectNow
  BY <1>21, EventTaken, EventPosted DEF ConnectNow, Connect
<1>22. CASE ScanPressed
  BY <1>22, EventTaken, EventPosted DEF ScanPressed, ScanAsked
<1>23. CASE OverlayOpened
  BY <1>23, EventTaken, EventPosted DEF OverlayOpened, ScanAsked
<1>24. CASE ScanStarts
  BY <1>24, EventTaken, EventPosted DEF ScanStarts
<1>25. CASE UNCHANGED <<net, told, ev, events, drv>>
  BY <1>25
<1>. QED BY Zenon, LinkKinds, <1>1, <1>2, <1>3, <1>4, <1>5, <1>6, <1>7, <1>8, <1>9, <1>10,
    <1>11, <1>12, <1>13, <1>14, <1>15, <1>16, <1>17, <1>18, <1>19, <1>20, <1>21, <1>22,
    <1>23, <1>24, <1>25

\* Every step keeps an attempt, a timer or an event to come.
LEMMA ForgottenStep ==
    ASSUME TypeWifi, TypeSettings, Flags, ArgInv, BootInv, NothingForgotten, [Next]_vars
    PROVE  NothingForgotten'
<1>. USE DEF EventNames, TypeWifi, Flags, BootInv, NothingForgotten, Trying
<1>1. CASE UiInit
  BY <1>1, EventTaken, EventPosted DEF UiInit
<1>2. CASE EarlyUse
  BY <1>2, EventTaken, EventPosted DEF EarlyUse
<1>3. CASE NetInit
  BY <1>3, EventTaken, EventPosted DEF NetInit
<1>4. CASE Reboots
  BY <1>4, EventTaken, EventPosted DEF Reboots, NoNet
<1>5. CASE PowerLost
  BY <1>5, EventTaken, EventPosted DEF PowerLost, NoNet
<1>6. ASSUME NEW t \in Callers, NEW k \in Fields, Commit(t, k) PROVE NothingForgotten'
  BY <1>6, EventTaken, EventPosted DEF Commit
<1>7. ASSUME NEW t \in Callers, TearAddress(t) PROVE NothingForgotten'
  BY <1>7, EventTaken, EventPosted DEF TearAddress
<1>8. ASSUME NEW t \in Callers, CopyAddress(t) PROVE NothingForgotten'
  BY <1>8, EventTaken, EventPosted DEF CopyAddress
<1>9. CASE AddressSaved
  BY <1>9, EventTaken, EventPosted DEF AddressSaved, SetAddress
<1>10. CASE Discovered
  BY <1>10, EventTaken, EventPosted DEF Discovered, SetAddress
<1>11. CASE ByteSet
  BY <1>11, EventTaken, EventPosted DEF ByteSet, SetByte
<1>12. CASE RevisionApplied
  BY <1>12, EventTaken, EventPosted DEF RevisionApplied, SetByte
<1>13. CASE RebootPressed
  BY <1>13, EventTaken, EventPosted DEF RebootPressed
<1>14. CASE WifiStarts
  BY <1>14, EventTaken, EventPosted DEF WifiStarts
<1>15. CASE AttemptEnds
  BY <1>15, EventTaken, EventPosted DEF AttemptEnds
<1>16. CASE Leased
  BY <1>16, EventTaken, EventPosted DEF Leased
<1>17. CASE LinkLost
  BY <1>17, EventTaken, EventPosted DEF LinkLost
<1>18. CASE Returns
  BY <1>18, EventTaken, EventPosted DEF Returns
<1>19. CASE ScanFinishes
  BY <1>19, EventTaken, EventPosted DEF ScanFinishes
<1>20. CASE StaStart
  BY <1>20, EventTaken, EventPosted DEF StaStart
<1>21. CASE StaStartConnects
  BY <1>21, EventTaken, EventPosted DEF StaStartConnects, Connect
<1>22. CASE Disconnected
  BY <1>22, EventTaken, EventPosted DEF Disconnected
<1>23. CASE LinkDown
  BY <1>23, EventTaken, EventPosted DEF LinkDown
<1>24. CASE Arm
  BY <1>24, EventTaken, EventPosted DEF Arm
<1>25. CASE GotIp
  BY <1>25, EventTaken, EventPosted DEF GotIp
<1>26. CASE LinkUp
  BY <1>26, EventTaken, EventPosted DEF LinkUp
<1>27. CASE ScanDone
  BY <1>27, EventTaken, EventPosted DEF ScanDone
<1>28. CASE RetryFires
  BY <1>28, EventTaken, EventPosted DEF RetryFires
<1>29. CASE RetryConnects
  BY <1>29, EventTaken, EventPosted DEF RetryConnects, Connect
<1>30. CASE ConnectPressed
  BY <1>30, EventTaken, EventPosted DEF ConnectPressed
<1>31. CASE StopRetry
  <2>1. at'["ui"] = "drop" /\ at["ui"] = "stop" /\ net'.busy = net.busy
        /\ UNCHANGED <<scanning, events>>
    BY <1>31 DEF TypeSettings, StopRetry
  <2>. QED BY <2>1
<1>32. CASE Drop
  BY <1>32, EventTaken, EventPosted DEF Drop
<1>33. CASE Configure
  BY <1>33, EventTaken, EventPosted DEF Configure
<1>34. CASE ConnectNow
  <2>1. at["ui"] = "conn" /\ drv # "off" /\ Connect /\ UNCHANGED <<net, scanning, events>>
    BY <1>34 DEF ConnectNow, AtRest
  <2>. QED BY <2>1 DEF Connect
<1>35. CASE ScanPressed
  <2>1. at["ui"] = "idle" /\ (net.busy \/ at'["ui"] = "scan")
        /\ net' = [net EXCEPT !.busy = TRUE] /\ UNCHANGED <<driverVars, retry, tmr, ev>>
    BY <1>35 DEF TypeSettings, ScanPressed, ScanAsked
  <2>. QED BY <2>1
<1>36. CASE OverlayOpened
  <2>1. at["ui"] = "idle" /\ (net.busy \/ at'["ui"] = "scan")
        /\ net' = [net EXCEPT !.busy = TRUE] /\ UNCHANGED <<driverVars, retry, tmr, ev>>
    BY <1>36 DEF TypeSettings, OverlayOpened, ScanAsked
  <2>. QED BY <2>1
<1>37. CASE ScanStarts
  BY <1>37, EventTaken, EventPosted DEF ScanStarts
<1>38. CASE UNCHANGED vars
  BY <1>38 DEF vars
<1>. QED BY Zenon, <1>1, <1>2, <1>3, <1>4, <1>5, <1>6, <1>7, <1>8, <1>9, <1>10, <1>11,
    <1>12, <1>13, <1>14, <1>15, <1>16, <1>17, <1>18, <1>19, <1>20, <1>21, <1>22, <1>23,
    <1>24, <1>25, <1>26, <1>27, <1>28, <1>29, <1>30, <1>31, <1>32, <1>33, <1>34, <1>35,
    <1>36, <1>37, <1>38
    DEF Next, Settings, Ui, EventLoop, Timer, Driver, User, Startup

-----------------------------------------------------------------------------
\* The invariant holds at the start.
LEMMA Initially == Init => IInv
<1>. SUFFICES ASSUME Init PROVE IInv
  OBVIOUS
<1>. USE DEF Init
<1>1. TypeSettings
  BY DEF TypeSettings, Loaded, Readings, AtRest, NoArg, Names, Passwords
<1>2. TypeWifi
  BY DEF TypeWifi, Passwords
<1>3. Flags
  BY DEF Flags, NoNet
<1>4. BootInv /\ ArgInv
  BY DEF BootInv, ArgInv, AtRest
<1>5. SavedInv
  BY DEF SavedInv
<1>6. AddressInv
  BY DEF AddressInv, Copying, AtRest, Readings, Loaded
<1>7. LinkInv
  BY Nothing DEF LinkInv, LinkAgrees, NoNet
<1>8. NothingForgotten
  BY DEF NothingForgotten, NoNet
<1>. QED BY <1>1, <1>2, <1>3, <1>4, <1>5, <1>6, <1>7, <1>8, TypeParts DEF IInv

\* IInv is an invariant of the panel's network and settings.
THEOREM Invariance == Spec => []IInv
<1>1. IInv /\ [Next]_vars => IInv'
  <2> SUFFICES ASSUME IInv, [Next]_vars PROVE IInv'
    OBVIOUS
  <2>1. TypeSettings /\ TypeWifi /\ Flags /\ BootInv /\ ArgInv
    BY Zenon, TypeParts DEF IInv
  <2>2. SavedInv /\ AddressInv /\ LinkInv /\ NothingForgotten
    BY Zenon DEF IInv
  <2>3. TypeSettings' /\ TypeWifi' /\ Flags'
    BY Zenon, <2>1, SettingStep, WifiStep, FlagStep
  <2>4. BootInv' /\ ArgInv' /\ SavedInv' /\ AddressInv' /\ LinkInv' /\ NothingForgotten'
    BY Zenon, <2>1, <2>2, BootStep, ArgStep, SavedStep, AddressStep, LinkStep, ForgottenStep
  <2>5. TypeOK'
    BY Zenon, <2>3 DEF TypeOK, TypeSettings, TypeWifi, Flags
  <2>. QED BY Zenon, <2>4, <2>5 DEF IInv
<1>. QED BY Initially, <1>1, PTL DEF Spec

\* Every variable keeps its type.
THEOREM TypeCorrect == Spec => []TypeOK
<1>1. IInv => TypeOK
  BY DEF IInv
<1>. QED BY Invariance, <1>1, PTL

\* Once no setter is under way, a restart would find the settings as they are
\* (settings.c's commit, scanner_set_ip), but for a failed commit, an address
\* torn by a restart and two addresses set across each other.
THEOREM SettingsWritten == Spec => []WritesThrough
<1>1. IInv => WritesThrough
  <2> SUFFICES ASSUME IInv, ~Setting PROVE
               /\ \A k \in Fields \ unsaved : Loaded(flash)[k] = cfg[k]
               /\ ip = cfg.ip \/ cfg.ip = Torn \/ crossed
    BY DEF WritesThrough
  <2>1. \A t \in Callers : at[t] \notin Fields \cup {"tear", "copy"}
    BY DEF Setting
  <2>2. ASSUME NEW k \in Fields \ unsaved PROVE Loaded(flash)[k] = cfg[k]
    <3>1. \A t \in Callers : at[t] \notin Owed(k)
      BY <2>1 DEF Owed
    <3>. QED BY <3>1 DEF IInv, SavedInv
  <2>3. ip = cfg.ip \/ cfg.ip = Torn \/ crossed
    BY <2>1 DEF IInv, AddressInv, Copying
  <2>. QED BY <2>2, <2>3
<1>. QED BY Invariance, <1>1, PTL

\* With a network chosen there is always an attempt, a timer or an event that
\* leads to one, unless the driver refused the last; and a scan of which the
\* page waits for the result is under way (net.c's retries and its scan_busy).
THEOREM NetworkSought == Spec => []NothingForgotten
<1>1. IInv => NothingForgotten
  BY DEF IInv
<1>. QED BY Invariance, <1>1, PTL

\* What on_event told the scanner and the audio of the link is what net.c knows,
\* and that is what the driver's is, but for the events on their way.
THEOREM LinkTold == Spec => []LinkAgrees
<1>1. IInv => LinkAgrees
  BY DEF IInv, LinkInv
<1>. QED BY Invariance, <1>1, PTL
=============================================================================
