---------------------------- MODULE RoundPromise ----------------------------
(***************************************************************************)
(* What a round promises its caller, whatever the engine does inside: each *)
(* declared member gets exactly one final outcome, the verdict is given    *)
(* once, only when every member has its outcome, and it is the quorum      *)
(* verdict over exactly those outcomes. A restart settles what was open.   *)
(***************************************************************************)
EXTENDS RoundModel

CONSTANTS Rounds, Members, Quorum, None

VARIABLES
  opened,   (* Rounds that were started.                                    *)
  outcome,  (* Final status of each member, None until it has one.          *)
  verdict   (* Verdict of each round, None until it is given.               *)

vars == <<opened, outcome, verdict>>

Init ==
  /\ opened = {}
  /\ outcome = [r \in Rounds |-> [m \in Members |-> None]]
  /\ verdict = [r \in Rounds |-> None]

Undecided == {r \in opened : verdict[r] = None}

Open(r) ==
  /\ r \notin opened
  /\ opened' = opened \cup {r}
  /\ UNCHANGED <<outcome, verdict>>

Settle(r, m) ==
  /\ r \in Undecided
  /\ outcome[r][m] = None
  /\ \E s \in SettledStatus : outcome' = [outcome EXCEPT ![r][m] = s]
  /\ UNCHANGED <<opened, verdict>>

Decide(r) ==
  /\ r \in Undecided
  /\ \A m \in Members : outcome[r][m] # None
  /\ verdict' = [verdict EXCEPT ![r] = ComputeVerdict(outcome[r], Quorum)]
  /\ UNCHANGED <<opened, outcome>>

Restart ==
  /\ outcome' = [r \in Rounds |-> [m \in Members |->
                   IF r \in Undecided /\ outcome[r][m] = None
                   THEN "interrupted" ELSE outcome[r][m]]]
  /\ verdict' = [r \in Rounds |->
                   IF r \in Undecided THEN ComputeVerdict(outcome'[r], Quorum)
                   ELSE verdict[r]]
  /\ UNCHANGED opened

Next ==
  \/ \E r \in Rounds : Open(r) \/ Decide(r)
  \/ \E r \in Rounds, m \in Members : Settle(r, m)
  \/ Restart

Spec == Init /\ [][Next]_vars
=============================================================================
