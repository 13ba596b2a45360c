----------------------------- MODULE MCTimeline -----------------------------
(* A small instance of Timeline: a1 may be retried once.                   *)
EXTENDS Timeline

CONSTANTS a1, n1

RetriesOfFirst == [a \in Agents |-> IF a = a1 THEN 1 ELSE 0]

(* The reader catches up before the engine goes on: what it then has on    *)
(* show does not depend on when it read the events.                        *)
CatchesUp == seen < Len(log) => seen' = seen + 1
=============================================================================
