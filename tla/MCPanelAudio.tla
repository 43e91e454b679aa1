---------------------------- MODULE MCPanelAudio ----------------------------
(* PanelAudio for TLC, and what the firmware's README says of it that the   *)
(* code does not do.                                                        *)
EXTENDS PanelAudio

\* firmware/jc8012p4a1/README.md, "Audio rules": "The panel sends TEARDOWN on
\* Stop, ... and before every reboot initiated from the UI."
RebootTearsDown == boot = "done" => ~(session /\ srv)
=============================================================================
