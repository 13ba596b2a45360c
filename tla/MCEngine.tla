------------------------------ MODULE MCEngine ------------------------------
(* Small instances of Engine for TLC.                                      *)
EXTENDS Engine

CONSTANTS a1, a2

(* a1 may be retried once, any other agent not at all.                     *)
RetriesOfFirst == [a \in Agents |-> IF a = a1 THEN 1 ELSE 0]
=============================================================================
