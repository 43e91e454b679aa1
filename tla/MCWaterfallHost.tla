-------------------------- MODULE MCWaterfallHost --------------------------
(* A rule of the README that WaterfallHub breaks. *)
EXTENDS WaterfallHub

VARIABLE entered    \* history: scanners that were ever sent JPM,WF_MODE

HistorySpec ==
    /\ Init /\ entered = {}
    /\ [][/\ Next
          /\ entered' = IF \E t \in Threads : StartEnter(t) THEN entered \cup {host}
                                                            ELSE entered]_<<vars, entered>>

\* README.md, "Design rules": "Shutdown only restores scan mode if the app
\* itself started the waterfall."  The scanner that App.Close is about to send
\* JPM,SCN_MODE should be one that was sent JPM,WF_MODE.
ShutdownRestoresOwn == Alive /\ pc[Main] = "restore" => host \in entered
=============================================================================
