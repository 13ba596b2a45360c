------------------------------- MODULE MCApp -------------------------------
(* The payloads of the event stream in a session of the TUI.               *)
EXTENDS App

CONSTANTS r1, r2

SessionRuns == {r1, r2}

SessionEvents == [run : SessionRuns, kind : {"started", "completed"}]
=============================================================================
