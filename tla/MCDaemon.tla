------------------------------ MODULE MCDaemon ------------------------------
(***************************************************************************)
(* A small instance of Daemon for TLC. Which unused id a round is given    *)
(* makes no difference to any definition, so the smallest one is enough.   *)
(* None of the actions that are scheduled fairly draws an id.              *)
(***************************************************************************)
EXTENDS Daemon

DrawnInOrder ==
  \A r \in Rounds :
    Fresh(r) /\ ~Fresh(r)' => \A q \in Rounds : q < r => ~Fresh(q)
=============================================================================
