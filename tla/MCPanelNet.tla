----------------------------- MODULE MCPanelNet -----------------------------
(* PanelNet for TLC, and what the firmware's README says of it that the     *)
(* code does not do.                                                        *)
EXTENDS PanelNet

CONSTANTS home, shed, pw1, pw2
TwoNetworks == {<<home, pw1>>, <<shed, pw2>>}

\* firmware/jc8012p4a1/README.md, "First start": "With no saved Wi-Fi the Wi-Fi
\* setup screen opens".  ui_init opens it before there is a lock to scan with.
SetupOpens == cfg.ssid = None => boot # "panic"
=============================================================================
