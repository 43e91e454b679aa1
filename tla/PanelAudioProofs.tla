-------------------------- MODULE PanelAudioProofs --------------------------
(***************************************************************************)
(* Theorems about PanelAudio, for every size of the ring and of packets:   *)
(* its invariants, and that the panel keeps the promise of OneSession.     *)
(***************************************************************************)
EXTENDS PanelAudio, TLAPS

\* TypeOK in two parts: the provers that know arithmetic do badly with flags.
Flags ==
    /\ wantPlay \in BOOLEAN /\ session \in BOOLEAN /\ over \in BOOLEAN
    /\ codec \in BOOLEAN /\ buffering \in BOOLEAN
    /\ configured \in BOOLEAN /\ link \in BOOLEAN /\ srv \in BOOLEAN
Values ==
    /\ ev \in SUBSET {"START", "STOP", "IDLE"}
    /\ task \in AtRest \cup Opening \cup Streaming \cup Closing
    /\ state \in {"IDLE", "CONNECTING", "BUFFERING", "PLAYING", "STOPPING", "ERROR"}
    /\ sock \in SUBSET {"rtp", "tcp"}
    /\ player \in {"check", "open", "mix"}
    /\ count \in 0..Ring /\ calls \in 0..MaxCalls
    /\ ui \in {"idle", "start", "clear", "startSet", "save", "saveStop", "saveStopSet"}
              \cup StopPCs
    /\ net \in {"idle"} \cup StopPCs
    /\ boot \in {"none", "wait", "shutdown", "done"} \cup StopPCs

\* What belongs to a session is there only where rtsp_task is in one.
SessionInv ==
    /\ "IDLE" \in ev => task \in {"top", "wait", "wake"}
    /\ wantPlay => task \in Streaming \cup {"quit"}
    /\ task \in AtRest => sock = {}
    /\ task \in {"options", "describe", "setup"} => "tcp" \in sock
    /\ session => "tcp" \in sock /\ ~over
                   /\ task \in {"play", "stream", "select", "quit", "stopping", "teardown"}
    /\ task \in Opening => ~over
    /\ task \in {"play"} \cup Streaming => session

\* What the panel shows follows the task, and the codec playback_task.
ShownInv ==
    /\ task \in AtRest => state \in {"IDLE", "ERROR"}
    /\ task \in Opening => state = "CONNECTING"
    /\ player = "open" => ~codec
    /\ player = "mix" => codec
    /\ PlayingIsHeard

IInv == TypeOK /\ SessionInv /\ ShownInv

USE PanelAudioAssumption
USE DEF Opening, Streaming, Closing, AtRest, StopPCs, Running, Goto,
        taskVars, playVars, callVars, quietVars, Request, RingClear, CodecStops, CodecStarts, Begins

-----------------------------------------------------------------------------
\* TypeOK is its parts.
LEMMA TypeParts == TypeOK <=> Flags /\ Values
BY Zenon DEF TypeOK, Flags, Values

\* The invariant holds at the start.
LEMMA Initially == Init => IInv
<1>1. Init => Flags
  BY Zenon DEF Init, Flags
<1>2. Init => Values
  BY DEF Init, Values
<1>3. Init => SessionInv
  BY DEF Init, SessionInv
<1>4. Init => ShownInv
  BY DEF Init, ShownInv, PlayingIsHeard
<1>. QED BY <1>1, <1>2, <1>3, <1>4, TypeParts DEF IInv

\* Every step keeps the flags Boolean.
LEMMA FlagStep ==
    ASSUME Flags, [Next]_vars
    PROVE  Flags'
<1>. USE DEF Flags
<1>1. CASE TaskIdle
  BY <1>1 DEF TaskIdle
<1>2. CASE TaskStart
  BY <1>2 DEF TaskStart
<1>3. CASE TaskWake
  BY <1>3 DEF TaskWake
<1>4. CASE TaskUnset
  BY <1>4 DEF TaskUnset
<1>5. CASE TaskOpen
  BY <1>5 DEF TaskOpen
<1>6. CASE Fails
  BY <1>6 DEF Fails
<1>39. CASE OpenRtp
  BY <1>39 DEF OpenRtp
<1>7. CASE Connect
  BY <1>7 DEF Connect
<1>40. CASE Options
  BY <1>40 DEF Options
<1>8. CASE Describe
  BY <1>8 DEF Describe
<1>9. CASE Setup
  BY <1>9 DEF Setup
<1>10. CASE SetupLost
  BY <1>10 DEF SetupLost
<1>11. CASE Play
  BY <1>11 DEF Play
<1>12. CASE StreamTest
  BY <1>12 DEF StreamTest
<1>13. ASSUME NEW n \in 0..MaxPacket, StreamPacket(n) PROVE Flags'
  BY <1>13 DEF StreamPacket
<1>14. CASE StreamClosed
  BY <1>14 DEF StreamClosed
<1>15. CASE StreamSilent
  BY <1>15 DEF StreamSilent
<1>16. CASE TaskQuit
  BY <1>16 DEF TaskQuit
<1>17. CASE TaskStopping
  BY <1>17 DEF TaskStopping
<1>18. CASE TaskTeardown
  BY <1>18 DEF TaskTeardown
<1>19. CASE TaskClose
  BY <1>19 DEF TaskClose
<1>20. CASE TaskSettle
  BY <1>20 DEF TaskSettle
<1>21. CASE PlayerCheck
  BY <1>21 DEF PlayerCheck
<1>22. CASE PlayerOpen
  BY <1>22 DEF PlayerOpen
<1>23. CASE PlayerMix
  BY <1>23 DEF PlayerMix
<1>24. CASE StartTest
  BY <1>24 DEF StartTest
<1>25. CASE StartClear
  BY <1>25 DEF StartClear
<1>26. CASE StartSet
  BY <1>26 DEF StartSet
<1>27. CASE SaveAddress
  BY <1>27 DEF SaveAddress
<1>28. CASE StopTest
  BY <1>28 DEF StopTest
<1>29. CASE StopSet
  BY <1>29 DEF StopSet
<1>30. CASE PressListen
  BY <1>30 DEF PressListen
<1>31. CASE PressSave
  BY <1>31 DEF PressSave
<1>32. CASE LinkDown
  BY <1>32 DEF LinkDown
<1>33. CASE LinkUp
  BY <1>33 DEF LinkUp
<1>34. CASE PressReboot
  BY <1>34 DEF PressReboot
<1>35. CASE BootWaited
  BY <1>35 DEF BootWaited
<1>36. CASE BootRestart
  BY <1>36 DEF BootRestart
<1>37. CASE ScannerRestart
  BY <1>37 DEF ScannerRestart
<1>38. CASE UNCHANGED vars
  BY <1>38 DEF vars
<1>. QED BY <1>1, <1>2, <1>3, <1>4, <1>5, <1>6, <1>7, <1>8, <1>9, <1>10, <1>11,
           <1>12, <1>13, <1>14, <1>15, <1>16, <1>17, <1>18, <1>19, <1>20, <1>21,
           <1>22, <1>23, <1>24, <1>25, <1>26, <1>27, <1>28, <1>29, <1>30, <1>31,
           <1>32, <1>33, <1>34, <1>35, <1>36, <1>37, <1>38, <1>39, <1>40
           DEF Next, Task, Player, Call, Terminated

\* Every step keeps the types of the other variables.
LEMMA ValueStep ==
    ASSUME Values, [Next]_vars
    PROVE  Values'
<1>. USE DEF Values
<1>1. CASE TaskIdle
  BY <1>1 DEF TaskIdle
<1>2. CASE TaskStart
  BY <1>2 DEF TaskStart
<1>3. CASE TaskWake
  BY <1>3 DEF TaskWake
<1>4. CASE TaskUnset
  BY <1>4 DEF TaskUnset
<1>5. CASE TaskOpen
  BY <1>5 DEF TaskOpen
<1>6. CASE Fails
  BY <1>6 DEF Fails
<1>39. CASE OpenRtp
  BY <1>39 DEF OpenRtp
<1>7. CASE Connect
  BY <1>7 DEF Connect
<1>40. CASE Options
  BY <1>40 DEF Options
<1>8. CASE Describe
  BY <1>8 DEF Describe
<1>9. CASE Setup
  BY <1>9 DEF Setup
<1>10. CASE SetupLost
  BY <1>10 DEF SetupLost
<1>11. CASE Play
  BY <1>11 DEF Play
<1>12. CASE StreamTest
  BY <1>12 DEF StreamTest
<1>13. ASSUME NEW n \in 0..MaxPacket, StreamPacket(n) PROVE Values'
  BY <1>13 DEF StreamPacket, RingPush
<1>14. CASE StreamClosed
  BY <1>14 DEF StreamClosed
<1>15. CASE StreamSilent
  BY <1>15 DEF StreamSilent
<1>16. CASE TaskQuit
  BY <1>16 DEF TaskQuit
<1>17. CASE TaskStopping
  BY <1>17 DEF TaskStopping
<1>18. CASE TaskTeardown
  BY <1>18 DEF TaskTeardown
<1>19. CASE TaskClose
  BY <1>19 DEF TaskClose
<1>20. CASE TaskSettle
  BY <1>20 DEF TaskSettle
<1>21. CASE PlayerCheck
  BY <1>21 DEF PlayerCheck
<1>22. CASE PlayerOpen
  BY <1>22 DEF PlayerOpen
<1>23. CASE PlayerMix
  BY <1>23 DEF PlayerMix, Waiting, Trimmed
<1>24. CASE StartTest
  BY <1>24 DEF StartTest
<1>25. CASE StartClear
  BY <1>25 DEF StartClear
<1>26. CASE StartSet
  BY <1>26 DEF StartSet
<1>27. CASE SaveAddress
  BY <1>27 DEF SaveAddress
<1>28. CASE StopTest
  BY <1>28 DEF StopTest
<1>29. CASE StopSet
  BY <1>29 DEF StopSet
<1>30. CASE PressListen
  BY <1>30 DEF PressListen
<1>31. CASE PressSave
  BY <1>31 DEF PressSave
<1>32. CASE LinkDown
  BY <1>32 DEF LinkDown
<1>33. CASE LinkUp
  BY <1>33 DEF LinkUp
<1>34. CASE PressReboot
  BY <1>34 DEF PressReboot
<1>35. CASE BootWaited
  BY <1>35 DEF BootWaited
<1>36. CASE BootRestart
  BY <1>36 DEF BootRestart
<1>37. CASE ScannerRestart
  BY <1>37 DEF ScannerRestart
<1>38. CASE UNCHANGED vars
  BY <1>38 DEF vars
<1>. QED BY <1>1, <1>2, <1>3, <1>4, <1>5, <1>6, <1>7, <1>8, <1>9, <1>10, <1>11,
           <1>12, <1>13, <1>14, <1>15, <1>16, <1>17, <1>18, <1>19, <1>20, <1>21,
           <1>22, <1>23, <1>24, <1>25, <1>26, <1>27, <1>28, <1>29, <1>30, <1>31,
           <1>32, <1>33, <1>34, <1>35, <1>36, <1>37, <1>38, <1>39, <1>40
           DEF Next, Task, Player, Call, Terminated

\* Every step keeps what ties the session to the task.
LEMMA SessionStep ==
    ASSUME Values, SessionInv, [Next]_vars
    PROVE  SessionInv'
<1>. USE DEF Values, SessionInv
<1>1. CASE TaskIdle
  BY <1>1 DEF TaskIdle
<1>2. CASE TaskStart
  BY <1>2 DEF TaskStart
<1>3. CASE TaskWake
  BY <1>3 DEF TaskWake
<1>4. CASE TaskUnset
  BY <1>4 DEF TaskUnset
<1>5. CASE TaskOpen
  BY <1>5 DEF TaskOpen
<1>6. CASE Fails
  BY <1>6 DEF Fails
<1>39. CASE OpenRtp
  BY <1>39 DEF OpenRtp
<1>7. CASE Connect
  BY <1>7 DEF Connect
<1>40. CASE Options
  BY <1>40 DEF Options
<1>8. CASE Describe
  BY <1>8 DEF Describe
<1>9. CASE Setup
  BY <1>9 DEF Setup
<1>10. CASE SetupLost
  BY <1>10 DEF SetupLost
<1>11. CASE Play
  BY <1>11 DEF Play
<1>12. CASE StreamTest
  BY <1>12 DEF StreamTest
<1>13. ASSUME NEW n \in 0..MaxPacket, StreamPacket(n) PROVE SessionInv'
  BY <1>13 DEF StreamPacket, RingPush
<1>14. CASE StreamClosed
  BY <1>14 DEF StreamClosed
<1>15. CASE StreamSilent
  BY <1>15 DEF StreamSilent
<1>16. CASE TaskQuit
  BY <1>16 DEF TaskQuit
<1>17. CASE TaskStopping
  BY <1>17 DEF TaskStopping
<1>18. CASE TaskTeardown
  BY <1>18 DEF TaskTeardown
<1>19. CASE TaskClose
  BY <1>19 DEF TaskClose
<1>20. CASE TaskSettle
  BY <1>20 DEF TaskSettle
<1>21. CASE PlayerCheck
  BY <1>21 DEF PlayerCheck
<1>22. CASE PlayerOpen
  BY <1>22 DEF PlayerOpen
<1>23. CASE PlayerMix
  BY <1>23 DEF PlayerMix, Waiting, Trimmed
<1>24. CASE StartTest
  BY <1>24 DEF StartTest
<1>25. CASE StartClear
  BY <1>25 DEF StartClear
<1>26. CASE StartSet
  BY <1>26 DEF StartSet
<1>27. CASE SaveAddress
  BY <1>27 DEF SaveAddress
<1>28. CASE StopTest
  BY <1>28 DEF StopTest
<1>29. CASE StopSet
  BY <1>29 DEF StopSet
<1>30. CASE PressListen
  BY <1>30 DEF PressListen
<1>31. CASE PressSave
  BY <1>31 DEF PressSave
<1>32. CASE LinkDown
  BY <1>32 DEF LinkDown
<1>33. CASE LinkUp
  BY <1>33 DEF LinkUp
<1>34. CASE PressReboot
  BY <1>34 DEF PressReboot
<1>35. CASE BootWaited
  BY <1>35 DEF BootWaited
<1>36. CASE BootRestart
  BY <1>36 DEF BootRestart
<1>37. CASE ScannerRestart
  BY <1>37 DEF ScannerRestart
<1>38. CASE UNCHANGED vars
  BY <1>38 DEF vars
<1>. QED BY <1>1, <1>2, <1>3, <1>4, <1>5, <1>6, <1>7, <1>8, <1>9, <1>10, <1>11,
           <1>12, <1>13, <1>14, <1>15, <1>16, <1>17, <1>18, <1>19, <1>20, <1>21,
           <1>22, <1>23, <1>24, <1>25, <1>26, <1>27, <1>28, <1>29, <1>30, <1>31,
           <1>32, <1>33, <1>34, <1>35, <1>36, <1>37, <1>38, <1>39, <1>40
           DEF Next, Task, Player, Call, Terminated

\* Every step keeps what ties the state shown and the codec to the tasks.
LEMMA ShownStep ==
    ASSUME Flags, Values, SessionInv, ShownInv, [Next]_vars
    PROVE  ShownInv'
<1>. USE DEF Flags, Values, SessionInv, ShownInv, PlayingIsHeard
<1>1. CASE TaskIdle
  BY <1>1 DEF TaskIdle
<1>2. CASE TaskStart
  BY <1>2 DEF TaskStart
<1>3. CASE TaskWake
  BY <1>3 DEF TaskWake
<1>4. CASE TaskUnset
  BY <1>4 DEF TaskUnset
<1>5. CASE TaskOpen
  BY <1>5 DEF TaskOpen
<1>6. CASE Fails
  BY <1>6 DEF Fails
<1>39. CASE OpenRtp
  BY <1>39 DEF OpenRtp
<1>7. CASE Connect
  BY <1>7 DEF Connect
<1>40. CASE Options
  BY <1>40 DEF Options
<1>8. CASE Describe
  BY <1>8 DEF Describe
<1>9. CASE Setup
  BY <1>9 DEF Setup
<1>10. CASE SetupLost
  BY <1>10 DEF SetupLost
<1>11. CASE Play
  BY <1>11 DEF Play
<1>12. CASE StreamTest
  BY <1>12 DEF StreamTest
<1>13. ASSUME NEW n \in 0..MaxPacket, StreamPacket(n) PROVE ShownInv'
  BY <1>13 DEF StreamPacket, RingPush
<1>14. CASE StreamClosed
  BY <1>14 DEF StreamClosed
<1>15. CASE StreamSilent
  BY <1>15 DEF StreamSilent
<1>16. CASE TaskQuit
  BY <1>16 DEF TaskQuit
<1>17. CASE TaskStopping
  BY <1>17 DEF TaskStopping
<1>18. CASE TaskTeardown
  BY <1>18 DEF TaskTeardown
<1>19. CASE TaskClose
  BY <1>19 DEF TaskClose
<1>20. CASE TaskSettle
  BY <1>20 DEF TaskSettle
<1>21. CASE PlayerCheck
  BY <1>21 DEF PlayerCheck
<1>22. CASE PlayerOpen
  BY <1>22 DEF PlayerOpen
<1>23. CASE PlayerMix
  BY <1>23 DEF PlayerMix, Waiting, Trimmed
<1>24. CASE StartTest
  BY <1>24 DEF StartTest
<1>25. CASE StartClear
  BY <1>25 DEF StartClear
<1>26. CASE StartSet
  BY <1>26 DEF StartSet
<1>27. CASE SaveAddress
  BY <1>27 DEF SaveAddress
<1>28. CASE StopTest
  BY <1>28 DEF StopTest
<1>29. CASE StopSet
  BY <1>29 DEF StopSet
<1>30. CASE PressListen
  BY <1>30 DEF PressListen
<1>31. CASE PressSave
  BY <1>31 DEF PressSave
<1>32. CASE LinkDown
  BY <1>32 DEF LinkDown
<1>33. CASE LinkUp
  BY <1>33 DEF LinkUp
<1>34. CASE PressReboot
  BY <1>34 DEF PressReboot
<1>35. CASE BootWaited
  BY <1>35 DEF BootWaited
<1>36. CASE BootRestart
  BY <1>36 DEF BootRestart
<1>37. CASE ScannerRestart
  BY <1>37 DEF ScannerRestart
<1>38. CASE UNCHANGED vars
  BY <1>38 DEF vars
<1>. QED BY <1>1, <1>2, <1>3, <1>4, <1>5, <1>6, <1>7, <1>8, <1>9, <1>10, <1>11,
           <1>12, <1>13, <1>14, <1>15, <1>16, <1>17, <1>18, <1>19, <1>20, <1>21,
           <1>22, <1>23, <1>24, <1>25, <1>26, <1>27, <1>28, <1>29, <1>30, <1>31,
           <1>32, <1>33, <1>34, <1>35, <1>36, <1>37, <1>38, <1>39, <1>40
           DEF Next, Task, Player, Call, Terminated

-----------------------------------------------------------------------------
\* IInv is an invariant of the panel's audio.
THEOREM Invariance == Spec => []IInv
<1>1. IInv /\ [Next]_vars => IInv'
  <2> SUFFICES ASSUME IInv, [Next]_vars PROVE IInv'
    OBVIOUS
  <2>1. Flags /\ Values /\ SessionInv /\ ShownInv
    BY Zenon, TypeParts DEF IInv
  <2>2. Flags' /\ Values' /\ SessionInv' /\ ShownInv'
    BY Zenon, <2>1, FlagStep, ValueStep, SessionStep, ShownStep
  <2>3. TypeOK'
    BY Zenon, <2>2 DEF TypeOK, Flags, Values
  <2>. QED BY Zenon, <2>2, <2>3 DEF IInv
<1>. QED BY Initially, <1>1, PTL DEF Spec

\* Every variable keeps its type; the ring never holds more than it can.
THEOREM TypeCorrect == Spec => []TypeOK
BY Invariance, PTL DEF IInv

\* While EV_IDLE is set, no socket, session or playback of a session is left.
THEOREM IdleQuiet == Spec => []IdleIsQuiet
<1>1. IInv => IdleIsQuiet
  BY DEF IInv, SessionInv, ShownInv, IdleIsQuiet
<1>. QED BY Invariance, <1>1, PTL

\* "Playing" is shown only while the codec plays from the ring.
THEOREM PlayingHeard == Spec => []PlayingIsHeard
BY Invariance, PTL DEF IInv, ShownInv

-----------------------------------------------------------------------------
Phase == IF task \in AtRest THEN "closed"
         ELSE IF task \in Opening THEN "opening"
         ELSE IF task \in Streaming THEN "live" ELSE "closing"

\* A step that leaves the attempt as it is, is a stutter of the promise.
LEMMA Stutter ==
    ASSUME UNCHANGED <<Phase, session, over>>
    PROVE  [Promise!Next]_(Promise!vars)
BY DEF Phase, Promise!vars

\* Every step of the panel is a step of OneSession or a stutter.
LEMMA KeepsPromise ==
    ASSUME IInv, IInv', [Next]_vars
    PROVE  [Promise!Next]_(Promise!vars)
<1>. USE DEF IInv, SessionInv
<1>1. CASE TaskOpen
  BY <1>1 DEF TaskOpen, Promise!Next, Promise!Open
<1>2. CASE Setup
  BY <1>2 DEF Setup, Promise!Next, Promise!Grant
<1>3. CASE Play
  BY <1>3 DEF Play, Promise!Next, Promise!Play
<1>4. CASE Fails \/ SetupLost \/ StreamSilent
  BY <1>4 DEF Fails, SetupLost, StreamSilent, Promise!Next, Promise!Stop
<1>5. CASE StreamTest
  BY <1>5 DEF StreamTest, Promise!Next, Promise!Stop, Promise!vars
<1>6. CASE StreamClosed
  BY <1>6 DEF StreamClosed, Promise!Next, Promise!Dropped
<1>7. CASE TaskTeardown
  <2>1. CASE session
    BY <1>7, <2>1 DEF TaskTeardown, Promise!Next, Promise!Teardown
  <2>2. CASE ~session
    BY <1>7, <2>2, Stutter DEF TaskTeardown, Phase, TypeOK
  <2>. QED BY <2>1, <2>2
<1>8. CASE TaskClose
  BY <1>8 DEF TaskClose, TypeOK, Promise!Next, Promise!Close
<1>9. CASE \/ TaskIdle \/ TaskStart \/ TaskWake \/ TaskUnset \/ TaskSettle
          \/ OpenRtp \/ Connect \/ Options \/ Describe \/ TaskQuit \/ TaskStopping
          \/ \E n \in 0..MaxPacket : StreamPacket(n)
  <2>1. UNCHANGED <<Phase, session, over>>
    BY <1>9 DEF TaskIdle, TaskStart, TaskWake, TaskUnset, TaskSettle, OpenRtp,
                Connect, Options, Describe, TaskQuit, TaskStopping, StreamPacket, Phase
  <2>. QED BY <2>1, Stutter
<1>10. CASE \/ Player \/ Call \/ PressListen \/ PressSave \/ LinkDown \/ LinkUp
           \/ PressReboot \/ BootWaited \/ BootRestart \/ ScannerRestart
           \/ UNCHANGED vars
  <2>1. UNCHANGED taskVars
    BY <1>10 DEF Player, PlayerCheck, PlayerOpen, PlayerMix, Call, StartTest,
                 StartClear, StartSet, SaveAddress, StopTest, StopSet, PressListen,
                 PressSave, LinkDown, LinkUp, PressReboot, BootWaited, BootRestart,
                 ScannerRestart, vars
  <2>2. UNCHANGED <<Phase, session, over>>
    BY <2>1 DEF Phase
  <2>. QED BY <2>2, Stutter
<1>. QED BY <1>1, <1>2, <1>3, <1>4, <1>5, <1>6, <1>7, <1>8, <1>9, <1>10
         DEF Next, Task, Terminated

\* Seen from the scanner the panel is a client that holds one session at a time
\* and tears each one down before it closes the connection.
THEOREM Implementation == Spec => ImplementsOneSession
<1>1. Init => Promise!Init
  BY DEF Init, Promise!Init
<1>2. IInv /\ IInv' /\ [Next]_vars => [Promise!Next]_(Promise!vars)
  BY KeepsPromise
<1>. QED BY <1>1, <1>2, Invariance, PTL DEF Spec, ImplementsOneSession, Promise!Spec

-----------------------------------------------------------------------------
(* A stop is heard: what StopEnds rests on.                                *)

\* Steps rtsp_task has left, at most, before it sets EV_IDLE once a stop is asked
\* for; the requests that open a session are made all the same.
Left ==
    CASE task = "config" -> 15 [] task = "rtp" -> 14 [] task = "connect" -> 13
      [] task = "options" -> 12 [] task = "describe" -> 11 [] task = "setup" -> 10
      [] task = "play" -> 9 [] task = "select" -> 8 [] task = "stream" -> 7
      [] task = "quit" -> 6 [] task = "stopping" -> 5 [] task = "teardown" -> 4
      [] task = "close" -> 3 [] task = "settle" -> 2 [] task = "top" -> 1
      [] OTHER -> 0

\* While EV_STOP is set every step of rtsp_task brings EV_IDLE nearer, and no
\* other task's takes it further away; without EV_STOP only the stream may go on.
IdleNearer ==
    "IDLE" \notin ev =>
        /\ Left > 0
        /\ task \notin Streaming \/ "STOP" \in ev => /\ Left' <= Left
                                                     /\ Task => Left' < Left

\* rtsp_task waits for a start with EV_IDLE set.
IdleInv == task \in {"wait", "wake"} => "IDLE" \in ev

\* A step of rtsp_task before EV_IDLE.
LEMMA TaskNearer ==
    ASSUME SessionInv, "IDLE" \notin ev, task \notin {"wait", "wake"},
           task \notin Streaming \/ "STOP" \in ev, Task
    PROVE  Left' < Left
<1>1. CASE TaskIdle
  BY <1>1 DEF TaskIdle, Left
<1>2. CASE TaskUnset \/ TaskOpen
  BY <1>2 DEF TaskUnset, TaskOpen, Left
<1>3. CASE Fails
  <2>1. task \in Opening /\ task' = "quit"
    BY <1>3 DEF Fails
  <2>. QED BY <2>1 DEF Left
<1>4. CASE OpenRtp \/ Connect \/ Options
  BY <1>4 DEF OpenRtp, Connect, Options, Left
<1>5. CASE Describe \/ Setup \/ SetupLost \/ Play
  BY <1>5 DEF Describe, Setup, SetupLost, Play, Left
<1>6. CASE StreamTest
  BY <1>6 DEF StreamTest, Left
<1>7. CASE (\E n \in 0..MaxPacket : StreamPacket(n)) \/ StreamClosed \/ StreamSilent
  <2>1. task = "select" /\ task' \in {"stream", "quit"}
    BY <1>7 DEF StreamPacket, StreamClosed, StreamSilent
  <2>. QED BY <2>1 DEF Left
<1>8. CASE TaskQuit \/ TaskStopping \/ TaskTeardown
  <2>1. \/ task = "quit" /\ task' = "stopping"
        \/ task = "stopping" /\ task' = "teardown"
        \/ task = "teardown" /\ task' = "close"
    BY <1>8 DEF TaskQuit, TaskStopping, TaskTeardown
  <2>. QED BY <2>1 DEF Left
<1>9. CASE TaskClose \/ TaskSettle
  BY <1>9 DEF TaskClose, TaskSettle, Left
<1>10. ~(TaskStart \/ TaskWake)
  BY DEF TaskStart, TaskWake
<1>. HIDE DEF Left
<1>. QED BY Zenon, <1>1, <1>2, <1>3, <1>4, <1>5, <1>6, <1>7, <1>8, <1>9, <1>10 DEF Task

\* Nobody but rtsp_task moves it.
LEMMA OthersLeave == ASSUME [Next]_vars, ~Task PROVE task' = task
<1>1. CASE Player
  BY <1>1 DEF Player, PlayerCheck, PlayerOpen, PlayerMix
<1>2. CASE Call
  BY <1>2 DEF Call, StartTest, StartClear, StartSet, SaveAddress, StopTest, StopSet
<1>3. CASE \/ PressListen \/ PressSave \/ LinkDown \/ LinkUp \/ PressReboot \/ BootWaited
           \/ BootRestart \/ ScannerRestart \/ Terminated \/ UNCHANGED vars
  BY <1>3 DEF PressListen, PressSave, LinkDown, LinkUp, PressReboot, BootWaited,
              BootRestart, ScannerRestart, Terminated, vars
<1>. QED BY Zenon, <1>1, <1>2, <1>3 DEF Next

\* Only rtsp_task clears EV_IDLE, when it goes on from its wait.
LEMMA IdleStep == ASSUME IdleInv, [Next]_vars PROVE IdleInv'
<1>. USE DEF IdleInv
<1>1. CASE Task
  <2>1. CASE TaskIdle \/ TaskStart \/ TaskWake \/ TaskSettle
    BY <2>1 DEF TaskIdle, TaskStart, TaskWake, TaskSettle
  <2>2. CASE ~(TaskIdle \/ TaskStart)
    <3>1. task' \notin {"wait", "wake"}
      <4>1. CASE TaskWake \/ TaskUnset \/ TaskOpen \/ Fails \/ OpenRtp \/ Connect
        BY <4>1 DEF TaskWake, TaskUnset, TaskOpen, Fails, OpenRtp, Connect
      <4>2. CASE Options \/ Describe \/ Setup \/ SetupLost \/ Play
        BY <4>2 DEF Options, Describe, Setup, SetupLost, Play
      <4>3. CASE StreamTest \/ (\E n \in 0..MaxPacket : StreamPacket(n)) \/ StreamClosed
                 \/ StreamSilent
        BY <4>3 DEF StreamTest, StreamPacket, StreamClosed, StreamSilent
      <4>4. CASE TaskQuit \/ TaskStopping \/ TaskTeardown \/ TaskClose \/ TaskSettle
        BY <4>4 DEF TaskQuit, TaskStopping, TaskTeardown, TaskClose, TaskSettle
      <4>. QED BY Zenon, <1>1, <2>2, <4>1, <4>2, <4>3, <4>4 DEF Task
    <3>. QED BY <3>1
  <2>. QED BY Zenon, <2>1, <2>2
<1>2. CASE ~Task
  <2>1. task' = task
    BY <1>2, OthersLeave
  <2>2. "IDLE" \in ev => "IDLE" \in ev'
    <3>1. CASE Player
      BY <3>1 DEF Player, PlayerCheck, PlayerOpen, PlayerMix
    <3>2. CASE Call
      BY <3>2 DEF Call, StartTest, StartClear, StartSet, SaveAddress, StopTest, StopSet
    <3>3. CASE \/ PressListen \/ PressSave \/ LinkDown \/ LinkUp \/ PressReboot
               \/ BootWaited \/ BootRestart \/ ScannerRestart \/ Terminated
               \/ UNCHANGED vars
      BY <3>3 DEF PressListen, PressSave, LinkDown, LinkUp, PressReboot, BootWaited,
                  BootRestart, ScannerRestart, Terminated, vars
    <3>. QED BY Zenon, <1>2, <3>1, <3>2, <3>3 DEF Next
  <2>. QED BY <2>1, <2>2
<1>. QED BY <1>1, <1>2

\* Every step brings EV_IDLE nearer, or leaves it as near.
LEMMA StepNearer == ASSUME TypeOK, SessionInv, IdleInv, [Next]_vars PROVE IdleNearer
<1>. SUFFICES ASSUME "IDLE" \notin ev
              PROVE  /\ Left > 0
                     /\ task \notin Streaming \/ "STOP" \in ev => /\ Left' <= Left
                                                                  /\ Task => Left' < Left
  BY DEF IdleNearer
<1>1. task \notin {"wait", "wake"}
  BY DEF IdleInv
<1>2. Left \in 1..15
  BY <1>1 DEF Left, TypeOK
<1>3. Left' \in 0..15
  BY DEF Left
<1>4. CASE Task
  <2>. HIDE DEF Left
  <2>. QED BY <1>1, <1>2, <1>3, <1>4, TaskNearer
<1>5. CASE ~Task
  <2>1. Left' = Left
    BY <1>5, OthersLeave DEF Left
  <2>. HIDE DEF Left
  <2>. QED BY <1>2, <1>5, <2>1
<1>. QED BY <1>4, <1>5

\* A stop that stays asked for is carried out after at most fifteen steps of
\* rtsp_task, wherever the session is when it comes and however its requests fare;
\* with the fairness of FairSpec that is why it ends.
THEOREM StopHeard == Spec => [][IdleNearer]_vars
<1>1. Init => IdleInv
  BY DEF Init, IdleInv
<1>2. IdleInv /\ [Next]_vars => IdleInv'
  BY IdleStep
<1>3. IInv => TypeOK /\ SessionInv
  BY DEF IInv
<1>4. TypeOK /\ SessionInv /\ IdleInv /\ [Next]_vars => IdleNearer
  BY StepNearer
<1>. QED BY Invariance, <1>1, <1>2, <1>3, <1>4, PTL DEF Spec
=============================================================================
