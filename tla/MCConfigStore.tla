---------------------------- MODULE MCConfigStore ----------------------------
(* The processes are interchangeable, and so are the agents.               *)
EXTENDS ConfigStore, TLC

Symmetry == Permutations(Agents) \cup Permutations(Processes)
=============================================================================
