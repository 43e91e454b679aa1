----------------------------- MODULE OneSession -----------------------------
(***************************************************************************)
(* What every client of this repository promises about the scanner's one   *)
(* RTSP session: attempts follow one another, audio plays only on a        *)
(* session the scanner has granted, and a client that has been granted a   *)
(* session does not close its connection before it has sent TEARDOWN, save *)
(* when the scanner has closed it.                                         *)
(***************************************************************************)
VARIABLES
    phase,  \* "closed", "opening", "live" or "closing"
    held,   \* this attempt was granted a session
    told    \* TEARDOWN was sent for it, or the scanner closed the connection
vars == <<phase, held, told>>

Init == phase = "closed" /\ held = FALSE /\ told = FALSE

Open == /\ phase = "closed" /\ phase' = "opening"
        /\ held' = FALSE /\ told' = FALSE

Grant == /\ phase = "opening" /\ ~held
         /\ held' = TRUE /\ UNCHANGED <<phase, told>>

Play == /\ phase = "opening" /\ held
        /\ phase' = "live" /\ UNCHANGED <<held, told>>

Stop == /\ phase \in {"opening", "live"}
        /\ phase' = "closing" /\ UNCHANGED <<held, told>>

Teardown == /\ phase = "closing" /\ held
            /\ told' = TRUE /\ UNCHANGED <<phase, held>>

\* TEARDOWN may be the last thing sent on the connection that is closed.
Close == /\ phase = "closing" /\ phase' = "closed"
         /\ told' = held /\ UNCHANGED held

\* The scanner closes the connection: there is nothing left to tear down.
Dropped == /\ phase = "live" /\ phase' = "closing"
           /\ told' = TRUE /\ UNCHANGED held

Next == Open \/ Grant \/ Play \/ Stop \/ Dropped \/ Teardown \/ Close
Spec == Init /\ [][Next]_vars
=============================================================================
