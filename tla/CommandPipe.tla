---------------------------- MODULE CommandPipe ----------------------------
(***************************************************************************)
(* What the panel promises about the commands other tasks give it for the  *)
(* scanner (scanner.h: "A single task owns the socket ... Other tasks      *)
(* queue commands"): they wait in order, one runs at a time, and a running *)
(* command asks the scanner for each of its effects at most once, however  *)
(* its replies fare.                                                       *)
(***************************************************************************)
EXTENDS SequencesExt

CONSTANTS Commands, Effects, None

VARIABLES
    waiting,    \* accepted and not yet taken, oldest first
    running,    \* the command being carried out, or None
    effects     \* what the scanner has done for it, in order
vars == <<waiting, running, effects>>

Init == waiting = <<>> /\ running = None /\ effects = <<>>

Accept(c) == waiting' = Append(waiting, c) /\ UNCHANGED <<running, effects>>

Take == /\ running = None /\ waiting # <<>>
        /\ running' = Head(waiting) /\ waiting' = Tail(waiting)
        /\ UNCHANGED effects

Perform(e) == /\ running # None /\ e \notin ToSet(effects)
              /\ effects' = Append(effects, e)
              /\ UNCHANGED <<waiting, running>>

Finish == running # None /\ running' = None /\ effects' = <<>> /\ UNCHANGED waiting

\* The panel restarts.
Crash == Init'

Next == \/ \E c \in Commands : Accept(c)
        \/ \E e \in Effects : Perform(e)
        \/ Take \/ Finish \/ Crash
Spec == Init /\ [][Next]_vars
=============================================================================
