----------------------------- MODULE MCAudioHub -----------------------------
(* AudioHub for TLC, and what README.md says of it that the code does not do. *)
EXTENDS AudioHub

\* README.md, "Audio rules": "The app always sends TEARDOWN on stop, on shutdown
\* (Ctrl+C / SIGTERM / service stop) ...".  main does not wait for the requests
\* in progress, so one of them may open a session that App.Close never sees.
ShutdownTearsDown == proc = "exited" => known \subseteq torn
=============================================================================
