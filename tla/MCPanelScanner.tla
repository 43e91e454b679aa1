--------------------------- MODULE MCPanelScanner ---------------------------
(* PanelScanner for TLC. *)
EXTENDS PanelScanner
=============================================================================
