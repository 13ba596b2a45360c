---------------------------- MODULE DaemonProofs ----------------------------
(***************************************************************************)
(* Proofs about module Daemon, for any number of runs, rounds, keys and    *)
(* connections, any idle time and whether or not commits may fail.         *)
(***************************************************************************)
EXTENDS Daemon, FiniteSetTheorems, TLAPS

(***************************************************************************)
(* The inductive invariant.                                                *)
(***************************************************************************)
RoundsCoherent ==
  \A r \in Rounds :
    /\ rounds[r].state = "absent" => rounds[r] = NoRound
    /\ rounds[r].state # "absent" => rounds[r].run \in Runs

(* A reserved key names a round that is there.                             *)
KeysNameRounds ==
  \A k \in Keys : keys[k] # None => rounds[keys[k].round].run = keys[k].run

(* An answer that names a round that is there is the one its key still     *)
(* gives; only a startRound can have been answered with any other.         *)
IsCommitted(x) == rounds[x.round].run = x.run

AnswersKept ==
  \A x \in answers :
    /\ IsCommitted(x) => keys[x.key] = [run |-> x.run, round |-> x.round]
    /\ ~IsCommitted(x) => x.key \notin StartKeys

(* A round is left running only in the hands of the daemon, of a crash or  *)
(* of a failed write.                                                      *)
RunningIsTracked ==
  \A r \in Rounds \ failed : rounds[r].state = "running" =>
    /\ phase \in {"serving", "closing"} => inflight[r] # None
    /\ phase # "stopped"

(* A clock was started by a call or later.                                 *)
ClockWithinQuiet == \A n \in Runs : clock[n] # None => clock[n] <= quiet[n]

TablesInv == RoundsCoherent /\ KeysNameRounds /\ AnswersKept

CoreInv ==
  TypeOK /\ LiveRunNotParked /\ TablesInv /\ RunningIsTracked /\ ClockWithinQuiet

(***************************************************************************)
(* Types, and what each kind of step does.                                 *)
(***************************************************************************)
LEMMA Tables ==
  ASSUME TypeOK
  PROVE  /\ runs \in [Runs -> {"absent", "running", "abandoned"}]
         /\ rounds \in [Rounds -> RoundRow]
         /\ version \in [Runs -> Nat]
         /\ keys \in [Keys -> KeyEntry \cup {None}]
         /\ inflight \in [Rounds -> Dispatched \cup {None}]
         /\ clock \in [Runs -> Ticks \cup {None}]
         /\ quiet \in [Runs -> Ticks]
BY DEF TypeOK

LEMMA Values ==
  /\ \A n \in Runs, r \in Rounds : [run |-> n, round |-> r] \in KeyEntry
  /\ \A n \in Runs : [run |-> n, state |-> "running"] \in RoundRow
  /\ \A n \in Runs : [run |-> n, aborted |-> FALSE] \in Dispatched
  /\ \A row \in RoundRow : /\ [row EXCEPT !.state = "complete"] \in RoundRow
                           /\ [row EXCEPT !.state = "complete"].run = row.run
                           /\ [row EXCEPT !.state = "complete"].state = "complete"
  /\ \A d \in Dispatched : /\ [d EXCEPT !.aborted = TRUE] \in Dispatched
                           /\ [d EXCEPT !.aborted = TRUE].run = d.run
                           /\ d.run \in Runs /\ d # None
  /\ \A e \in KeyEntry : e.run \in Runs /\ e.round \in Rounds /\ e # None
  /\ 0 \in Ticks /\ Ticks \subseteq Nat /\ None \notin Ticks
<1>1. \A n \in Runs, r \in Rounds : [run |-> n, round |-> r] \in KeyEntry
  BY DEF KeyEntry
<1>2. \A n \in Runs : [run |-> n, state |-> "running"] \in RoundRow
  BY DEF RoundRow
<1>3. \A n \in Runs : [run |-> n, aborted |-> FALSE] \in Dispatched
  BY DEF Dispatched
<1>4. \A row \in RoundRow : /\ [row EXCEPT !.state = "complete"] \in RoundRow
                             /\ [row EXCEPT !.state = "complete"].run = row.run
                             /\ [row EXCEPT !.state = "complete"].state = "complete"
  BY DEF RoundRow
<1>5. \A d \in Dispatched : /\ [d EXCEPT !.aborted = TRUE] \in Dispatched
                             /\ [d EXCEPT !.aborted = TRUE].run = d.run
                             /\ d.run \in Runs
  BY DEF Dispatched
<1>6. \A e \in KeyEntry : e.run \in Runs /\ e.round \in Rounds
  BY DEF KeyEntry
<1>7. \A x \in KeyEntry \cup Dispatched \cup Ticks : x # None
  BY DaemonAssumption
<1>8. 0 \in Ticks /\ Ticks \subseteq Nat
  BY DaemonAssumption DEF Ticks
<1> QED
  BY <1>1, <1>2, <1>3, <1>4, <1>5, <1>6, <1>7, <1>8

LEMMA TouchEffect ==
  ASSUME TypeOK, NEW n \in Runs, Touch(n)
  PROVE  /\ clock' \in [Runs -> Ticks \cup {None}] /\ quiet' \in [Runs -> Ticks]
         /\ ClockWithinQuiet => ClockWithinQuiet'
<1>1. clock' = [clock EXCEPT ![n] = 0] /\ quiet' = [quiet EXCEPT ![n] = 0]
  BY DEF Touch
<1>2. clock' \in [Runs -> Ticks \cup {None}] /\ quiet' \in [Runs -> Ticks]
  BY <1>1, Tables, Values
<1>3. \A m \in Runs : IF m = n THEN clock'[m] = 0 /\ quiet'[m] = 0
                               ELSE clock'[m] = clock[m] /\ quiet'[m] = quiet[m]
  BY <1>1, Tables
<1> QED
  BY <1>2, <1>3 DEF ClockWithinQuiet

(* A start is answered from the table, commits, or fails to commit.        *)
Starts(k, n, r) ==
  \/ k \in StartKeys \cup {None} /\ StartRun(k, n, r)
  \/ k \in ({n} \X RoundKeys) \cup {None} /\ StartRound(k, n, r)

Replays(k) ==
  /\ k \in Keys /\ keys[k] \in KeyEntry
  /\ answers' = answers \cup {[key |-> k, run |-> keys[k].run, round |-> keys[k].round]}
  /\ Touch(keys[k].run)
  /\ UNCHANGED <<durable, inflight>>

Begins(k, n, r) ==
  /\ phase = "serving" /\ Fresh(r)
  /\ k # None => k \in Keys /\ keys[k] = None
  /\ Answer(k, n, r)
  /\ Track(n, r)
  /\ runs[n] # "abandoned"
  /\ runs' = [runs EXCEPT ![n] = "running"]

Commits(k, n, r) == \E events \in {1, 2} : Commit(k, n, r, events)

FailsToCommit(k) ==
  /\ k \notin StartKeys
  /\ UNCHANGED <<runs, rounds, version, keys>>

LEMMA StartEffect ==
  ASSUME TypeOK, NEW n \in Runs, NEW r \in Rounds, NEW k, Starts(k, n, r)
  PROVE  /\ phase = "serving" /\ UNCHANGED <<phase, panelOk, waiting, failed>>
         /\ \/ Replays(k)
            \/ Begins(k, n, r) /\ Commits(k, n, r)
            \/ Begins(k, n, r) /\ FailsToCommit(k)
<1>1. k # None => k \in Keys
  BY DEF Starts, Keys
<1>2. phase = "serving" /\ UNCHANGED <<phase, panelOk, waiting, failed>>
  BY DEF Starts, StartRun, StartRound
<1>3. CASE Replay(k)
  <2>1. k \in Keys /\ keys[k] \in KeyEntry
    BY <1>1, <1>3, Tables DEF Replay, Known
  <2> QED
    BY <1>2, <1>3, <2>1 DEF Replay, Replays, Known, Answer
<1>4. CASE ~Replay(k) /\ StartRun(k, n, r)
  BY <1>1, <1>2, <1>4 DEF StartRun, Begins, Commits, Known
<1>5. CASE ~Replay(k) /\ StartRound(k, n, r) /\ k \in ({n} \X RoundKeys) \cup {None}
  <2>1. k \notin StartKeys
    <3>1. None \notin StartKeys /\ StartKeys \cap (Runs \X RoundKeys) = {}
      BY DaemonAssumption
    <3> QED
      BY <1>5, <3>1
  <2>2. /\ ~Known(k) /\ runs[n] = "running" /\ Fresh(r) /\ runs' = runs
        /\ Track(n, r) /\ Answer(k, n, r)
        /\ Commit(k, n, r, 1) \/ UNCHANGED <<rounds, version, keys>>
    BY <1>5 DEF StartRound
  <2>3. runs' = [runs EXCEPT ![n] = "running"]
    BY <2>2, Tables
  <2> QED
    BY <1>1, <1>2, <2>1, <2>2, <2>3 DEF Begins, Commits, FailsToCommit, Known
<1> QED
  BY <1>3, <1>4, <1>5 DEF Starts

LEMMA BeginEffect ==
  ASSUME TypeOK, NEW n \in Runs, NEW r \in Rounds, NEW k, Begins(k, n, r)
  PROVE  /\ rounds[r].state = "absent" /\ inflight[r] = None
         /\ \A x \in answers : x.round # r
         /\ inflight' \in [Rounds -> Dispatched \cup {None}]
         /\ inflight'[r] # None /\ inflight'[r].run = n
         /\ \A q \in Rounds : q # r => inflight'[q] = inflight[q]
         /\ runs' \in [Runs -> {"absent", "running", "abandoned"}]
         /\ runs'[n] = "running" /\ runs[n] # "abandoned"
         /\ \A m \in Runs : m # n => runs'[m] = runs[m]
         /\ answers' \subseteq [key : Keys, run : Runs, round : Rounds]
         /\ \/ k = None /\ answers' = answers
            \/ /\ k # None /\ k \in Keys /\ keys[k] = None
               /\ answers' = answers \cup {[key |-> k, run |-> n, round |-> r]}
         /\ clock' \in [Runs -> Ticks \cup {None}] /\ quiet' \in [Runs -> Ticks]
         /\ ClockWithinQuiet => ClockWithinQuiet'
<1>2. rounds[r].state = "absent" /\ inflight[r] = None /\ \A x \in answers : x.round # r
  BY DEF Begins, Fresh
<1> DEFINE d == [run |-> n, aborted |-> FALSE]
<1>3. inflight' = [inflight EXCEPT ![r] = d] /\ Touch(n)
  BY DEF Begins, Track
<1>4. d \in Dispatched /\ d # None /\ d.run = n
  BY Values
<1> HIDE DEF d
<1>5. /\ inflight' \in [Rounds -> Dispatched \cup {None}]
      /\ inflight'[r] # None /\ inflight'[r].run = n
      /\ \A q \in Rounds : q # r => inflight'[q] = inflight[q]
  BY <1>3, <1>4, Tables
<1>6. /\ runs' \in [Runs -> {"absent", "running", "abandoned"}]
      /\ runs'[n] = "running" /\ runs[n] # "abandoned"
      /\ \A m \in Runs : m # n => runs'[m] = runs[m]
  BY Tables DEF Begins
<1>7. \/ k = None /\ answers' = answers
      \/ /\ k # None /\ k \in Keys /\ keys[k] = None
         /\ answers' = answers \cup {[key |-> k, run |-> n, round |-> r]}
  BY DEF Begins, Answer
<1>8. answers' \subseteq [key : Keys, run : Runs, round : Rounds]
  BY <1>7 DEF TypeOK
<1> QED
  BY <1>2, <1>3, <1>5, <1>6, <1>7, <1>8, TouchEffect

LEMMA BeginLive ==
  ASSUME TypeOK, LiveRunNotParked, NEW n \in Runs, NEW r \in Rounds, NEW k, Begins(k, n, r)
  PROVE  LiveRunNotParked'
<1>1. inflight'[r].run = n /\ \A q \in Rounds : q # r => inflight'[q] = inflight[q]
  BY BeginEffect
<1>2. runs'[n] = "running" /\ \A m \in Runs : m # n => runs'[m] = runs[m]
  BY BeginEffect
<1>3. \A q \in Rounds : inflight[q] # None => inflight[q].run \in Runs
  BY Tables, Values
<1> QED
  BY <1>1, <1>2, <1>3 DEF LiveRunNotParked

LEMMA CommitEffect ==
  ASSUME TypeOK, NEW n \in Runs, NEW r \in Rounds, NEW k, k # None => k \in Keys,
         Commits(k, n, r)
  PROVE  /\ rounds' \in [Rounds -> RoundRow]
         /\ rounds'[r].run = n /\ rounds'[r].state = "running"
         /\ \A q \in Rounds : q # r => rounds'[q] = rounds[q]
         /\ version' \in [Runs -> Nat] /\ version'[n] > version[n]
         /\ \A m \in Runs : m # n => version'[m] = version[m]
         /\ keys' \in [Keys -> KeyEntry \cup {None}]
         /\ k = None => keys' = keys
         /\ k # None => keys'[k] = [run |-> n, round |-> r]
         /\ \A l \in Keys : l # k => keys'[l] = keys[l]
<1> DEFINE row == [run |-> n, state |-> "running"]
           entry == [run |-> n, round |-> r]
<1>1. PICK events \in {1, 2} : Commit(k, n, r, events)
  BY DEF Commits
<1>2. /\ rounds' = [rounds EXCEPT ![r] = row]
      /\ version' = [version EXCEPT ![n] = version[n] + events]
      /\ keys' = IF k = None THEN keys ELSE [keys EXCEPT ![k] = entry]
  BY <1>1 DEF Commit, ReservedKeys
<1>3. row \in RoundRow /\ row.run = n /\ row.state = "running" /\ entry \in KeyEntry
  BY Values
<1> HIDE DEF row
<1>4. /\ rounds' \in [Rounds -> RoundRow]
      /\ rounds'[r].run = n /\ rounds'[r].state = "running"
      /\ \A q \in Rounds : q # r => rounds'[q] = rounds[q]
  BY <1>2, <1>3, Tables
<1>5. /\ version' \in [Runs -> Nat] /\ version'[n] > version[n]
      /\ \A m \in Runs : m # n => version'[m] = version[m]
  BY <1>2, Tables
<1> HIDE DEF entry
<1>6. /\ keys' \in [Keys -> KeyEntry \cup {None}]
      /\ k = None => keys' = keys
      /\ k # None => keys'[k] = entry
      /\ \A l \in Keys : l # k => keys'[l] = keys[l]
  BY <1>2, <1>3, Tables
<1> QED
  BY <1>4, <1>5, <1>6 DEF entry

(* The rows keep their runs, the keys and the answers stay.                *)
LEMMA TablesKept ==
  ASSUME TablesInv, keys' = keys, answers' = answers,
         \A r \in Rounds :
           \/ rounds'[r] = rounds[r]
           \/ /\ rounds'[r].run = rounds[r].run
              /\ rounds[r].state # "absent" /\ rounds'[r].state # "absent",
         TypeOK
  PROVE  TablesInv'
<1>1. \A r \in Rounds : rounds'[r].run = rounds[r].run
  OBVIOUS
<1>2. RoundsCoherent'
  BY DEF TablesInv, RoundsCoherent, NoRound
<1>3. KeysNameRounds'
  <2>1. \A k \in Keys : keys[k] # None => keys[k].round \in Rounds
    BY Tables, Values
  <2> QED
    BY <1>1, <2>1 DEF TablesInv, KeysNameRounds
<1>4. AnswersKept'
  <2>1. \A x \in answers : IsCommitted(x)' <=> IsCommitted(x)
    BY <1>1 DEF TypeOK, IsCommitted
  <2> QED
    BY <2>1 DEF TablesInv, AnswersKept
<1> QED
  BY <1>2, <1>3, <1>4 DEF TablesInv

(***************************************************************************)
(* Starting work.                                                          *)
(***************************************************************************)
LEMMA ReplayStep ==
  ASSUME CoreInv, NEW k, Replays(k), UNCHANGED <<phase, panelOk, waiting, failed>>
  PROVE  CoreInv'
<1> USE DEF CoreInv
<1> DEFINE x == [key |-> k, run |-> keys[k].run, round |-> keys[k].round]
<1>1. /\ k \in Keys /\ keys[k] \in KeyEntry /\ answers' = answers \cup {x}
      /\ Touch(keys[k].run) /\ UNCHANGED <<runs, rounds, version, keys, inflight>>
  BY DEF Replays, durable
<1>2. keys[k].run \in Runs /\ keys[k].round \in Rounds /\ keys[k] # None
  BY <1>1, Values
<1>3. x \in [key : Keys, run : Runs, round : Rounds]
  BY <1>1, <1>2
<1>4. clock' \in [Runs -> Ticks \cup {None}] /\ quiet' \in [Runs -> Ticks] /\ ClockWithinQuiet'
  BY <1>1, <1>2, TouchEffect
<1>5. TypeOK'
  BY <1>1, <1>3, <1>4 DEF TypeOK
<1>6. TablesInv'
  <2>1. x.key = k /\ keys[x.key] = [run |-> x.run, round |-> x.round] /\ IsCommitted(x)
    <3>1. keys[k] = [run |-> keys[k].run, round |-> keys[k].round]
      BY <1>1 DEF KeyEntry
    <3>2. rounds[keys[k].round].run = keys[k].run
      BY <1>1, <1>2 DEF TablesInv, KeysNameRounds
    <3> QED
      BY <3>1, <3>2 DEF IsCommitted
  <2> HIDE DEF x
  <2>2. \A y \in answers' : IsCommitted(y)' <=> IsCommitted(y)
    BY <1>1 DEF IsCommitted
  <2>3. AnswersKept'
    BY <1>1, <2>1, <2>2 DEF TablesInv, AnswersKept
  <2> QED
    BY <1>1, <2>3 DEF TablesInv, RoundsCoherent, KeysNameRounds
<1>7. LiveRunNotParked' /\ RunningIsTracked'
  BY <1>1 DEF LiveRunNotParked, RunningIsTracked
<1> QED
  BY <1>4, <1>5, <1>6, <1>7

LEMMA CommitStep ==
  ASSUME CoreInv, NEW n \in Runs, NEW r \in Rounds, NEW k, Begins(k, n, r), Commits(k, n, r),
         UNCHANGED <<phase, panelOk, waiting, failed>>
  PROVE  CoreInv'
<1>0. TypeOK /\ LiveRunNotParked /\ TablesInv /\ RunningIsTracked /\ ClockWithinQuiet
  BY DEF CoreInv
<1>1. k # None => k \in Keys /\ keys[k] = None
  BY DEF Begins
<1>2. /\ rounds' \in [Rounds -> RoundRow] /\ version' \in [Runs -> Nat]
      /\ keys' \in [Keys -> KeyEntry \cup {None}]
  BY <1>0, <1>1, CommitEffect
<1>3. rounds'[r].run = n /\ rounds'[r].state = "running"
  BY <1>0, <1>1, CommitEffect
<1>4. \A q \in Rounds : q # r => rounds'[q] = rounds[q]
  BY <1>0, Tables DEF Commits, Commit
<1>5. /\ k = None => keys' = keys
      /\ k # None => keys'[k] = [run |-> n, round |-> r]
  BY <1>0, <1>1, CommitEffect
<1>6. \A l \in Keys : l # k => keys'[l] = keys[l]
  BY <1>0, Tables DEF Commits, Commit, ReservedKeys
<1>7. rounds[r].state = "absent" /\ \A x \in answers : x.round # r
  BY DEF Begins, Fresh
<1>8. rounds[r].run \notin Runs
  BY <1>0, <1>7, DaemonAssumption DEF TablesInv, RoundsCoherent, NoRound
<1>9. \/ k = None /\ answers' = answers
      \/ k # None /\ answers' = answers \cup {[key |-> k, run |-> n, round |-> r]}
  BY DEF Begins, Answer
<1>10. TypeOK' /\ ClockWithinQuiet'
  <2>1. /\ runs' \in [Runs -> {"absent", "running", "abandoned"}]
        /\ inflight' \in [Rounds -> Dispatched \cup {None}]
        /\ clock' \in [Runs -> Ticks \cup {None}] /\ quiet' \in [Runs -> Ticks]
        /\ answers' \subseteq [key : Keys, run : Runs, round : Rounds]
        /\ ClockWithinQuiet'
    BY <1>0, BeginEffect
  <2> QED
    BY <1>0, <1>2, <2>1 DEF TypeOK
<1>11. LiveRunNotParked'
  BY <1>0, BeginLive
<1>12. RunningIsTracked'
  <2>1. \A q \in Rounds : q # r => inflight'[q] = inflight[q]
    BY <1>0, BeginEffect
  <2>2. inflight'[r] # None
    BY <1>0, BeginEffect
  <2>3. phase = "serving"
    BY DEF Begins
  <2> QED
    BY <1>0, <1>4, <2>1, <2>2, <2>3 DEF RunningIsTracked
<1>13. RoundsCoherent'
  <2> SUFFICES ASSUME NEW q \in Rounds
               PROVE  /\ rounds'[q].state = "absent" => rounds'[q] = NoRound
                      /\ rounds'[q].state # "absent" => rounds'[q].run \in Runs
    BY DEF RoundsCoherent, NoRound
  <2> QED
    BY <1>0, <1>3, <1>4 DEF TablesInv, RoundsCoherent
<1>14. KeysNameRounds'
  <2> SUFFICES ASSUME NEW l \in Keys, keys'[l] # None
               PROVE  rounds'[keys'[l].round].run = keys'[l].run
    BY DEF KeysNameRounds
  <2>1. CASE k # None /\ l = k
    BY <1>3, <1>5, <2>1
  <2>2. CASE ~(k # None /\ l = k)
    <3>1. keys'[l] = keys[l]
      BY <1>5, <1>6, <2>2
    <3>2. keys[l].run \in Runs /\ keys[l].round \in Rounds
      BY <1>0, <3>1, Tables, Values
    <3>3. rounds[keys[l].round].run = keys[l].run
      BY <1>0, <3>1 DEF TablesInv, KeysNameRounds
    <3>4. keys[l].round # r
      BY <1>8, <3>2, <3>3
    <3> QED
      BY <1>4, <3>1, <3>2, <3>3, <3>4
  <2> QED
    BY <2>1, <2>2
<1>15. AnswersKept'
  <2>1. ASSUME NEW x \in answers
        PROVE  /\ IsCommitted(x)' => keys'[x.key] = [run |-> x.run, round |-> x.round]
               /\ ~IsCommitted(x)' => x.key \notin StartKeys
    <3>1. x.round \in Rounds /\ x.round # r /\ x.key \in Keys /\ x.run \in Runs
      BY <1>0, <1>7 DEF TypeOK
    <3>2. IsCommitted(x)' <=> IsCommitted(x)
      BY <1>4, <3>1 DEF IsCommitted
    <3>3. /\ IsCommitted(x) => keys[x.key] = [run |-> x.run, round |-> x.round]
          /\ ~IsCommitted(x) => x.key \notin StartKeys
      BY <1>0 DEF TablesInv, AnswersKept
    <3>4. IsCommitted(x) => keys[x.key] # None
      BY <3>1, <3>3, Values
    <3>5. IsCommitted(x) => keys'[x.key] = keys[x.key]
      BY <1>1, <1>5, <1>6, <3>1, <3>4
    <3> QED
      BY <3>2, <3>3, <3>5
  <2>2. CASE k = None
    BY <1>9, <2>1, <2>2 DEF AnswersKept
  <2>3. CASE k # None
    <3> DEFINE y == [key |-> k, run |-> n, round |-> r]
    <3>1. answers' = answers \cup {y}
      BY <1>9, <2>3
    <3>2. keys'[y.key] = [run |-> y.run, round |-> y.round] /\ IsCommitted(y)'
      BY <1>3, <1>5, <2>3 DEF IsCommitted
    <3> HIDE DEF y
    <3> QED
      BY <2>1, <3>1, <3>2 DEF AnswersKept
  <2> QED
    BY <2>2, <2>3
<1> QED
  BY <1>10, <1>11, <1>12, <1>13, <1>14, <1>15 DEF CoreInv, TablesInv

LEMMA FailStep ==
  ASSUME CoreInv, NEW n \in Runs, NEW r \in Rounds, NEW k, Begins(k, n, r), FailsToCommit(k),
         UNCHANGED <<phase, panelOk, waiting, failed>>
  PROVE  CoreInv'
<1>0. TypeOK /\ LiveRunNotParked /\ TablesInv /\ RunningIsTracked /\ ClockWithinQuiet
  BY DEF CoreInv
<1>1. k \notin StartKeys /\ runs' = runs /\ rounds' = rounds /\ version' = version /\ keys' = keys
  BY DEF FailsToCommit
<1>2. TypeOK' /\ ClockWithinQuiet'
  <2>1. /\ inflight' \in [Rounds -> Dispatched \cup {None}]
        /\ clock' \in [Runs -> Ticks \cup {None}] /\ quiet' \in [Runs -> Ticks]
        /\ answers' \subseteq [key : Keys, run : Runs, round : Rounds]
        /\ ClockWithinQuiet'
    BY <1>0, BeginEffect
  <2> QED
    BY <1>0, <1>1, <2>1 DEF TypeOK
<1>3. LiveRunNotParked'
  BY <1>0, BeginLive
<1>4. RunningIsTracked'
  <2>1. \A q \in Rounds : q # r => inflight'[q] = inflight[q]
    BY <1>0, BeginEffect
  <2>2. inflight'[r] # None
    BY <1>0, BeginEffect
  <2> QED
    BY <1>0, <1>1, <2>1, <2>2 DEF RunningIsTracked
<1>5. AnswersKept'
  <2>1. \A x \in answers :
          /\ IsCommitted(x) => keys[x.key] = [run |-> x.run, round |-> x.round]
          /\ ~IsCommitted(x) => x.key \notin StartKeys
    BY <1>0 DEF TablesInv, AnswersKept
  <2>2. \/ k = None /\ answers' = answers
        \/ k # None /\ answers' = answers \cup {[key |-> k, run |-> n, round |-> r]}
    BY DEF Begins, Answer
  <2> DEFINE y == [key |-> k, run |-> n, round |-> r]
  <2>3. y.key \notin StartKeys /\ ~IsCommitted(y)
    <3>1. rounds[r].run \notin Runs
      BY <1>0, DaemonAssumption DEF TablesInv, RoundsCoherent, NoRound, Begins, Fresh
    <3> QED
      BY <1>1, <3>1 DEF IsCommitted
  <2>4. answers' \subseteq answers \cup {y}
    BY <2>2
  <2> HIDE DEF y
  <2>5. \A x \in answers' :
          /\ IsCommitted(x) => keys[x.key] = [run |-> x.run, round |-> x.round]
          /\ ~IsCommitted(x) => x.key \notin StartKeys
    BY <2>1, <2>3, <2>4
  <2>6. \A x \in answers' : IsCommitted(x)' <=> IsCommitted(x)
    BY <1>1 DEF IsCommitted
  <2> QED
    BY <1>1, <2>5, <2>6 DEF AnswersKept
<1>6. RoundsCoherent' /\ KeysNameRounds'
  BY <1>0, <1>1 DEF TablesInv, RoundsCoherent, KeysNameRounds
<1> QED
  BY <1>2, <1>3, <1>4, <1>5, <1>6 DEF CoreInv, TablesInv

LEMMA StartStep ==
  ASSUME CoreInv, NEW n \in Runs, NEW r \in Rounds, NEW k, Starts(k, n, r)
  PROVE  CoreInv'
<1>1. /\ UNCHANGED <<phase, panelOk, waiting, failed>>
      /\ \/ Replays(k)
         \/ Begins(k, n, r) /\ Commits(k, n, r)
         \/ Begins(k, n, r) /\ FailsToCommit(k)
  BY StartEffect DEF CoreInv
<1> QED
  BY <1>1, ReplayStep, CommitStep, FailStep

(***************************************************************************)
(* The other actions.                                                      *)
(***************************************************************************)
LEMMA RoundCompletesStep ==
  ASSUME CoreInv, NEW r \in Rounds, RoundCompletes(r)
  PROVE  CoreInv'
<1>0. TypeOK /\ LiveRunNotParked /\ TablesInv /\ RunningIsTracked /\ ClockWithinQuiet
  BY DEF CoreInv
<1>1. /\ inflight' = [inflight EXCEPT ![r] = None] /\ failed' \subseteq Rounds
      /\ UNCHANGED <<phase, panelOk, runs, keys, clock, waiting, quiet, answers>>
  BY <1>0 DEF RoundCompletes, TypeOK
<1> DEFINE row == [rounds[r] EXCEPT !.state = "complete"]
<1>2. /\ \/ /\ rounds[r].state = "running" /\ rounds' = [rounds EXCEPT ![r] = row]
            /\ version' = [version EXCEPT ![rounds[r].run] = @ + 1] /\ failed' = failed
         \/ rounds' = rounds /\ version' = version /\ failed' = failed \cup {r}
  BY DEF RoundCompletes
<1>3. row \in RoundRow /\ row.run = rounds[r].run /\ row.state = "complete"
  BY <1>0, Tables, Values
<1> HIDE DEF row
<1>4. \A q \in Rounds :
        \/ rounds'[q] = rounds[q]
        \/ /\ q = r /\ rounds'[q].run = rounds[q].run
           /\ rounds[q].state = "running" /\ rounds'[q].state = "complete"
  BY <1>0, <1>2, <1>3, Tables
<1>5. TypeOK'
  <2>1. rounds' \in [Rounds -> RoundRow] /\ version' \in [Runs -> Nat]
    BY <1>0, <1>2, <1>3, Tables
  <2>2. inflight' \in [Rounds -> Dispatched \cup {None}]
    BY <1>0, <1>1, Tables
  <2> QED
    BY <1>0, <1>1, <2>1, <2>2 DEF TypeOK
<1>6. TablesInv'
  BY <1>0, <1>1, <1>4, TablesKept
<1>7. \A q \in Rounds : inflight'[q] = IF q = r THEN None ELSE inflight[q]
  BY <1>0, <1>1, Tables
<1>8. LiveRunNotParked' /\ ClockWithinQuiet'
  BY <1>0, <1>1, <1>7 DEF LiveRunNotParked, ClockWithinQuiet
<1>9. RunningIsTracked'
  <2> SUFFICES ASSUME NEW q \in Rounds, q \notin failed', rounds'[q].state = "running"
               PROVE  /\ phase' \in {"serving", "closing"} => inflight'[q] # None
                      /\ phase' # "stopped"
    BY DEF RunningIsTracked
  <2>1. q # r /\ q \notin failed
    BY <1>2, <1>3, <1>0, Tables
  <2>2. rounds[q].state = "running"
    BY <1>4, <2>1
  <2> QED
    BY <1>0, <1>1, <1>7, <2>1, <2>2 DEF RunningIsTracked
<1> QED
  BY <1>0, <1>5, <1>6, <1>8, <1>9 DEF CoreInv

(* A call that only touches its run, may re-adopt it and marks dispatches. *)
Attends(n) ==
  /\ Touch(n)
  /\ \A m \in Runs : runs[m] = "running" => runs'[m] = "running"
  /\ \A r \in Rounds : /\ inflight[r] = None <=> inflight'[r] = None
                       /\ inflight[r] # None => inflight'[r].run = inflight[r].run
  /\ UNCHANGED <<phase, panelOk, rounds, keys, answers, failed>>

LEMMA AttendStep ==
  ASSUME CoreInv, NEW n \in Runs, Attends(n),
         runs' \in [Runs -> {"absent", "running", "abandoned"}],
         version' \in [Runs -> Nat],
         inflight' \in [Rounds -> Dispatched \cup {None}],
         waiting' \in [Clients -> LongPoll \cup {None}]
  PROVE  CoreInv'
<1>0. TypeOK /\ LiveRunNotParked /\ TablesInv /\ RunningIsTracked /\ ClockWithinQuiet
  BY DEF CoreInv
<1>1. clock' \in [Runs -> Ticks \cup {None}] /\ quiet' \in [Runs -> Ticks] /\ ClockWithinQuiet'
  BY <1>0, TouchEffect DEF Attends
<1>2. TypeOK'
  BY <1>0, <1>1 DEF TypeOK, Attends
<1>3. TablesInv'
  BY <1>0, TablesKept DEF Attends
<1>4. \A r \in Rounds : inflight[r] # None => inflight[r].run \in Runs
  <2>1. \A r \in Rounds : inflight[r] \in Dispatched \cup {None}
    BY <1>0, Tables
  <2> QED
    BY <2>1, Values
<1>5. LiveRunNotParked' /\ RunningIsTracked'
  BY <1>0, <1>4 DEF Attends, LiveRunNotParked, RunningIsTracked
<1> QED
  BY <1>1, <1>2, <1>3, <1>5 DEF CoreInv

LEMMA AbortedEffect ==
  ASSUME TypeOK, NEW S, \A q \in S : inflight[q] # None
  PROVE  /\ Aborted(S) \in [Rounds -> Dispatched \cup {None}]
         /\ \A r \in Rounds :
              inflight[r] # None => /\ Aborted(S)[r] # None
                                    /\ Aborted(S)[r].run = inflight[r].run
<1>1. \A r \in Rounds :
        IF r \in S THEN Aborted(S)[r] = [inflight[r] EXCEPT !.aborted = TRUE]
                   ELSE Aborted(S)[r] = inflight[r]
  BY DEF Aborted
<1>2. \A r \in Rounds : inflight[r] \in Dispatched \cup {None}
  BY Tables
<1>3. \A d \in Dispatched : /\ [d EXCEPT !.aborted = TRUE] \in Dispatched
                             /\ [d EXCEPT !.aborted = TRUE].run = d.run /\ d # None
  BY Values
<1>4. \A r \in Rounds : Aborted(S)[r] \in Dispatched \cup {None}
  BY <1>1, <1>2, <1>3
<1>5. Aborted(S) \in [Rounds -> Dispatched \cup {None}]
  BY <1>4 DEF Aborted
<1> QED
  BY <1>1, <1>2, <1>3, <1>5

(* No poll waits longer than the ceiling, and its timer only runs down.    *)
LEMMA WaitIsCapped ==
  ASSUME NEW r \in Rounds, NEW asked \in Waits \cup {None}
  PROVE  [round |-> r, left |-> WaitTicks(asked)] \in LongPoll
<1>1. WaitTicks(asked) \in 0..MaxWait
  BY DaemonAssumption DEF WaitTicks
<1> QED
  BY <1>1 DEF LongPoll

LEMMA NearerIsPoll ==
  ASSUME NEW w \in LongPoll \cup {None}
  PROVE  Nearer(w) \in LongPoll \cup {None}
<1>1. CASE w = None \/ w.left = 0
  BY <1>1 DEF Nearer
<1>2. CASE ~(w = None \/ w.left = 0)
  <2>1. w.round \in Rounds /\ w.left - 1 \in 0..MaxWait /\ w \in LongPoll
    BY <1>2, DaemonAssumption DEF LongPoll
  <2> QED
    BY <1>2, <2>1 DEF Nearer, LongPoll
<1> QED
  BY <1>1, <1>2

LEMMA CallStep ==
  ASSUME CoreInv, NEW n \in Runs,
         \/ \E c \in Clients, r \in Rounds : Poll(c, n, r)
         \/ \E r \in Rounds : CancelRound(n, r)
         \/ Status(n) \/ ReadRaw(n) \/ CancelRun(n)
  PROVE  CoreInv'
<1>0. TypeOK
  BY DEF CoreInv
<1>1. /\ runs \in [Runs -> {"absent", "running", "abandoned"}] /\ version \in [Runs -> Nat]
      /\ inflight \in [Rounds -> Dispatched \cup {None}]
      /\ waiting \in [Clients -> LongPoll \cup {None}]
  BY <1>0 DEF TypeOK
<1>2. ASSUME NEW c \in Clients, NEW r \in Rounds, Poll(c, n, r) PROVE CoreInv'
  <2>1. waiting' \in [Clients -> LongPoll \cup {None}]
    <3>1. PICK asked \in Waits \cup {None} :
            waiting' = IF inflight[r] = None THEN waiting
                       ELSE [waiting EXCEPT ![c] = [round |-> r, left |-> WaitTicks(asked)]]
      BY <1>2 DEF Poll
    <3>2. [round |-> r, left |-> WaitTicks(asked)] \in LongPoll
      BY WaitIsCapped
    <3> QED
      BY <1>1, <3>1, <3>2
  <2>2. Attends(n) /\ UNCHANGED <<runs, version, inflight>>
    BY <1>2 DEF Poll, Attends, durable
  <2> QED
    BY <1>1, <2>1, <2>2, AttendStep
<1>3. CASE Status(n)
  <2>1. runs' \in [Runs -> {"absent", "running", "abandoned"}] /\ version' \in [Runs -> Nat]
    BY <1>1, <1>3 DEF Status
  <2>2. Attends(n) /\ UNCHANGED <<waiting, inflight>>
    BY <1>1, <1>3 DEF Status, Attends
  <2> QED
    BY <1>1, <2>1, <2>2, AttendStep
<1>4. CASE ReadRaw(n)
  <2>1. Attends(n) /\ UNCHANGED <<runs, version, inflight, waiting>>
    BY <1>4 DEF ReadRaw, Attends, durable
  <2> QED
    BY <1>1, <2>1, AttendStep
<1>5. ASSUME NEW S, /\ Touch(n) /\ inflight' = Aborted(S)
                    /\ \A q \in S : inflight[q] # None
                    /\ UNCHANGED <<phase, panelOk, durable, waiting, answers, failed>>
      PROVE  CoreInv'
  <2>1. UNCHANGED <<phase, panelOk, runs, rounds, version, keys, waiting, answers, failed>>
    BY <1>5 DEF durable
  <2>2. \A q \in Rounds : inflight[q] = None => Aborted(S)[q] = None
    BY <1>5 DEF Aborted
  <2>3. Attends(n)
    BY <1>0, <1>5, <2>1, <2>2, AbortedEffect DEF Attends
  <2>4. inflight' \in [Rounds -> Dispatched \cup {None}]
    BY <1>0, <1>5, AbortedEffect
  <2> QED
    BY <1>1, <2>1, <2>3, <2>4, AttendStep
<1>6. CASE CancelRun(n)
  <2> DEFINE S == {q \in Rounds : inflight[q] # None /\ inflight[q].run = n}
  <2>1. \A q \in S : inflight[q] # None
    OBVIOUS
  <2>2. /\ Touch(n) /\ inflight' = Aborted(S)
        /\ UNCHANGED <<phase, panelOk, durable, waiting, answers, failed>>
    BY <1>6 DEF CancelRun
  <2> HIDE DEF S
  <2> QED
    BY <1>5, <2>1, <2>2
<1>7. ASSUME NEW r \in Rounds, CancelRound(n, r) PROVE CoreInv'
  <2>1. \A q \in {r} : inflight[q] # None
    BY <1>7 DEF CancelRound
  <2>2. /\ Touch(n) /\ inflight' = Aborted({r})
        /\ UNCHANGED <<phase, panelOk, durable, waiting, answers, failed>>
    BY <1>7 DEF CancelRound
  <2> QED
    BY <1>5, <2>1, <2>2
<1> QED
  BY <1>2, <1>3, <1>4, <1>6, <1>7

LEMMA PollReturnsStep ==
  ASSUME CoreInv, NEW c \in Clients, PollReturns(c)
  PROVE  CoreInv'
<1>0. TypeOK /\ LiveRunNotParked /\ TablesInv /\ RunningIsTracked /\ ClockWithinQuiet
  BY DEF CoreInv
<1>1. /\ waiting' \in [Clients -> LongPoll \cup {None}]
      /\ UNCHANGED <<phase, panelOk, runs, rounds, version, keys, inflight, clock, quiet,
                     answers, failed>>
  BY <1>0 DEF PollReturns, durable, TypeOK
<1>2. TypeOK'
  BY <1>0, <1>1 DEF TypeOK
<1>3. TablesInv'
  BY <1>0, <1>1, TablesKept
<1>4. LiveRunNotParked' /\ RunningIsTracked' /\ ClockWithinQuiet'
  BY <1>0, <1>1 DEF LiveRunNotParked, RunningIsTracked, ClockWithinQuiet
<1> QED
  BY <1>2, <1>3, <1>4 DEF CoreInv

LEMMA TickStep ==
  ASSUME CoreInv, Tick
  PROVE  CoreInv'
<1>0. TypeOK /\ LiveRunNotParked /\ TablesInv /\ RunningIsTracked /\ ClockWithinQuiet
  BY DEF CoreInv
<1>1. /\ clock' = [n \in Runs |-> Older(clock[n])] /\ quiet' = [n \in Runs |-> Older(quiet[n])]
      /\ waiting' = [c \in Clients |-> Nearer(waiting[c])]
      /\ UNCHANGED <<phase, panelOk, runs, rounds, version, keys, inflight, answers, failed>>
  BY DEF Tick, durable
<1>2. \A t \in Ticks : Older(t) \in Ticks /\ t # None
  BY Values, DaemonAssumption DEF Older, Ticks
<1>3. Older(None) = None
  BY DEF Older
<1>4. \A s, t \in Ticks : s <= t => Older(s) <= Older(t)
  BY Values, DaemonAssumption DEF Older, Ticks
<1>5. \A n \in Runs : /\ clock[n] \in Ticks \cup {None} /\ quiet[n] \in Ticks
                      /\ clock'[n] = Older(clock[n]) /\ quiet'[n] = Older(quiet[n])
  BY <1>0, <1>1, Tables
<1>6. clock' \in [Runs -> Ticks \cup {None}] /\ quiet' \in [Runs -> Ticks]
  BY <1>1, <1>2, <1>3, <1>5
<1>7. TypeOK'
  <2>1. \A c \in Clients : waiting[c] \in LongPoll \cup {None}
    BY <1>0 DEF TypeOK
  <2>2. waiting' \in [Clients -> LongPoll \cup {None}]
    BY <1>1, <2>1, NearerIsPoll
  <2> QED
    BY <1>0, <1>1, <1>6, <2>2 DEF TypeOK
<1>8. ClockWithinQuiet'
  BY <1>0, <1>2, <1>3, <1>4, <1>5 DEF ClockWithinQuiet
<1>9. TablesInv'
  BY <1>0, <1>1, TablesKept
<1>10. LiveRunNotParked' /\ RunningIsTracked'
  BY <1>0, <1>1 DEF LiveRunNotParked, RunningIsTracked
<1> QED
  BY <1>7, <1>8, <1>9, <1>10 DEF CoreInv

LEMMA ReapStep ==
  ASSUME CoreInv, Reap
  PROVE  CoreInv'
<1>0. TypeOK /\ LiveRunNotParked /\ TablesInv /\ RunningIsTracked /\ ClockWithinQuiet
  BY DEF CoreInv
<1>1. /\ runs' = [n \in Runs |-> ParkedState(n)] /\ version' = [n \in Runs |-> ParkedVersion(n)]
      /\ clock' = [n \in Runs |-> ClockAfterReap(n)]
      /\ UNCHANGED <<phase, panelOk, rounds, keys, inflight, waiting, quiet, answers, failed>>
  BY DEF Reap
<1>2. runs' \in [Runs -> {"absent", "running", "abandoned"}] /\ version' \in [Runs -> Nat]
  BY <1>0, <1>1, Tables DEF ParkedState, ParkedVersion
<1>3. \A n \in Runs : \/ clock'[n] = None \/ clock'[n] = 0
                      \/ clock'[n] = clock[n]
  BY <1>1 DEF ClockAfterReap
<1>4. clock' \in [Runs -> Ticks \cup {None}]
  BY <1>0, <1>1, <1>3, Tables, Values
<1>5. TypeOK'
  BY <1>0, <1>1, <1>2, <1>4 DEF TypeOK
<1>6. ClockWithinQuiet'
  <2>1. \A n \in Runs : quiet[n] \in Ticks /\ 0 <= quiet[n]
    BY <1>0, Tables, Values
  <2> QED
    BY <1>0, <1>1, <1>3, <2>1 DEF ClockWithinQuiet
<1>7. LiveRunNotParked'
  <2> SUFFICES ASSUME NEW r \in Rounds, inflight[r] # None
               PROVE  runs'[inflight[r].run] = "running"
    BY <1>1 DEF LiveRunNotParked
  <2>1. inflight[r].run \in Runs /\ runs[inflight[r].run] = "running"
    <3>1. inflight[r] \in Dispatched
      BY <1>0, Tables
    <3> QED
      BY <1>0, <3>1, Values DEF LiveRunNotParked
  <2>2. HasInflight(inflight[r].run)
    BY DEF HasInflight
  <2> QED
    BY <1>1, <2>1, <2>2 DEF ParkedState, Expired
<1>8. TablesInv'
  BY <1>0, <1>1, TablesKept
<1>9. RunningIsTracked'
  BY <1>0, <1>1 DEF RunningIsTracked
<1> QED
  BY <1>5, <1>6, <1>7, <1>8, <1>9 DEF CoreInv

LEMMA CloseStep ==
  ASSUME CoreInv, Close
  PROVE  CoreInv'
<1>0. TypeOK /\ LiveRunNotParked /\ TablesInv /\ RunningIsTracked /\ ClockWithinQuiet
  BY DEF CoreInv
<1>1. /\ phase = "serving" /\ phase' = "closing" /\ waiting' = [c \in Clients |-> None]
      /\ UNCHANGED <<panelOk, runs, rounds, version, keys, inflight, clock, quiet, answers, failed>>
  BY DEF Close, durable
<1>2. TypeOK'
  BY <1>0, <1>1 DEF TypeOK
<1>3. TablesInv'
  BY <1>0, <1>1, TablesKept
<1>4. LiveRunNotParked' /\ RunningIsTracked' /\ ClockWithinQuiet'
  BY <1>0, <1>1 DEF LiveRunNotParked, RunningIsTracked, ClockWithinQuiet
<1> QED
  BY <1>2, <1>3, <1>4 DEF CoreInv

LEMMA DownStep ==
  ASSUME CoreInv, Stop \/ Crash
  PROVE  CoreInv'
<1>0. TypeOK /\ LiveRunNotParked /\ TablesInv /\ RunningIsTracked /\ ClockWithinQuiet
  BY DEF CoreInv
<1>1. PICK how \in {"stopped", "crashed"} :
        Down(how) /\ (how = "stopped" => phase = "closing" /\ Drained)
  BY DEF Stop, Crash
<1>2. /\ phase' = how /\ inflight' = [r \in Rounds |-> None] /\ clock' = [n \in Runs |-> None]
      /\ waiting' = [c \in Clients |-> None]
      /\ UNCHANGED <<panelOk, runs, rounds, version, keys, quiet, answers, failed>>
  BY <1>1 DEF Down, durable
<1>3. TypeOK'
  BY <1>0, <1>2 DEF TypeOK
<1>4. TablesInv'
  BY <1>0, <1>2, TablesKept
<1>5. LiveRunNotParked' /\ ClockWithinQuiet'
  BY <1>0, <1>2 DEF LiveRunNotParked, ClockWithinQuiet
<1>6. RunningIsTracked'
  BY <1>0, <1>1, <1>2 DEF RunningIsTracked, Drained
<1> QED
  BY <1>3, <1>4, <1>5, <1>6 DEF CoreInv

(* A start finds as many interrupted rounds of a run as there are.         *)
LEMMA InterruptedCount ==
  ASSUME NEW n \in Runs
  PROVE  /\ Cardinality(Interrupted(n)) \in Nat
         /\ Interrupted(n) # {} => Cardinality(Interrupted(n)) > 0
<1>1. Interrupted(n) \subseteq Rounds /\ IsFiniteSet(Rounds)
  BY DaemonAssumption DEF Interrupted
<1>2. IsFiniteSet(Interrupted(n))
  BY <1>1, FS_Subset
<1>3. Cardinality(Interrupted(n)) \in Nat
  BY <1>2, FS_CardinalityType
<1>4. Cardinality(Interrupted(n)) = 0 <=> Interrupted(n) = {}
  BY <1>2, FS_EmptySet
<1> QED
  BY <1>3, <1>4

LEMMA RestartStep ==
  ASSUME CoreInv, Restart
  PROVE  CoreInv'
<1>0. TypeOK /\ LiveRunNotParked /\ TablesInv /\ RunningIsTracked /\ ClockWithinQuiet
  BY DEF CoreInv
<1> DEFINE row(r) == [rounds[r] EXCEPT !.state = "complete"]
<1>1. /\ phase' = "serving" /\ panelOk' \in BOOLEAN
      /\ rounds' = [r \in Rounds |-> IF rounds[r].state = "running" THEN row(r) ELSE rounds[r]]
      /\ version' = [n \in Runs |-> version[n] + Cardinality(Interrupted(n))]
      /\ UNCHANGED <<runs, keys, inflight, clock, waiting, quiet, answers, failed>>
  BY DEF Restart, memory
<1>2. \A r \in Rounds :
        /\ rounds[r] \in RoundRow /\ row(r) \in RoundRow
        /\ row(r).run = rounds[r].run /\ row(r).state = "complete"
  BY <1>0, Tables, Values
<1> HIDE DEF row
<1>3. \A r \in Rounds : /\ rounds'[r] \in RoundRow /\ rounds'[r].run = rounds[r].run
                        /\ rounds'[r].state # "running"
                        /\ \/ rounds'[r] = rounds[r]
                           \/ rounds[r].state = "running" /\ rounds'[r].state = "complete"
  BY <1>1, <1>2
<1>4. rounds' \in [Rounds -> RoundRow] /\ version' \in [Runs -> Nat]
  <2>1. rounds' \in [Rounds -> RoundRow]
    BY <1>1, <1>2
  <2>2. \A n \in Runs : version[n] + Cardinality(Interrupted(n)) \in Nat
    BY <1>0, Tables, InterruptedCount
  <2> QED
    BY <1>1, <2>1, <2>2
<1>5. TypeOK'
  BY <1>0, <1>1, <1>4 DEF TypeOK
<1>6. TablesInv'
  BY <1>0, <1>1, <1>3, TablesKept
<1>7. LiveRunNotParked' /\ ClockWithinQuiet'
  BY <1>0, <1>1 DEF LiveRunNotParked, ClockWithinQuiet
<1>8. RunningIsTracked'
  BY <1>3 DEF RunningIsTracked
<1> QED
  BY <1>5, <1>6, <1>7, <1>8 DEF CoreInv

(***************************************************************************)
(* The invariant.                                                          *)
(***************************************************************************)
LEMMA CoreInit == Init => CoreInv
<1> SUFFICES ASSUME Init PROVE CoreInv
  OBVIOUS
<1>1. NoRound \in RoundRow
  BY DEF NoRound, RoundRow
<1>2. TypeOK
  BY <1>1, Values DEF Init, TypeOK
<1>3. TablesInv
  BY DEF Init, TablesInv, RoundsCoherent, KeysNameRounds, AnswersKept, NoRound
<1>4. LiveRunNotParked /\ RunningIsTracked /\ ClockWithinQuiet
  BY DEF Init, LiveRunNotParked, RunningIsTracked, ClockWithinQuiet, NoRound
<1> QED
  BY <1>2, <1>3, <1>4 DEF CoreInv

(* The steps of the daemon, one disjunct for each kind above.              *)
LEMMA StepKinds ==
  ASSUME Next
  PROVE  \/ \E n \in Runs, r \in Rounds : \E k : Starts(k, n, r)
         \/ \E n \in Runs : \/ \E c \in Clients, r \in Rounds : Poll(c, n, r)
                            \/ \E r \in Rounds : CancelRound(n, r)
                            \/ Status(n) \/ ReadRaw(n) \/ CancelRun(n)
         \/ \E c \in Clients : PollReturns(c)
         \/ \E r \in Rounds : RoundCompletes(r)
         \/ Tick \/ Reap \/ Close \/ Stop \/ Crash \/ Restart
<1>1. ASSUME NEW n \in Runs, NEW r \in Rounds, Call(n, r)
      PROVE  \/ \E k : Starts(k, n, r)
             \/ \E c \in Clients : Poll(c, n, r)
             \/ CancelRound(n, r)
  <2>1. CASE \E k \in StartKeys \cup {None} : StartRun(k, n, r)
    BY <2>1 DEF Starts
  <2>2. CASE \E k \in ({n} \X RoundKeys) \cup {None} : StartRound(k, n, r)
    BY <2>2 DEF Starts
  <2> QED
    BY <1>1, <2>1, <2>2 DEF Call
<1>2. CASE \E n \in Runs, r \in Rounds : Call(n, r)
  BY <1>1, <1>2
<1>3. CASE ~\E n \in Runs, r \in Rounds : Call(n, r)
  BY <1>3 DEF Next
<1> QED
  BY <1>2, <1>3

LEMMA CoreStep == CoreInv /\ [Next]_vars => CoreInv'
<1> SUFFICES ASSUME CoreInv, [Next]_vars PROVE CoreInv'
  OBVIOUS
<1>1. CASE UNCHANGED vars
  BY <1>1 DEF CoreInv, vars, durable, memory, TypeOK, LiveRunNotParked, TablesInv,
     RoundsCoherent, KeysNameRounds, AnswersKept, IsCommitted, RunningIsTracked, ClockWithinQuiet
<1>2. CASE Next
  <2>1. CASE \E n \in Runs, r \in Rounds : \E k : Starts(k, n, r)
    BY <2>1, StartStep
  <2>2. ASSUME NEW n \in Runs,
               \/ \E c \in Clients, r \in Rounds : Poll(c, n, r)
               \/ \E r \in Rounds : CancelRound(n, r)
               \/ Status(n) \/ ReadRaw(n) \/ CancelRun(n)
        PROVE  CoreInv'
    BY <2>2, CallStep
  <2>3. CASE \E c \in Clients : PollReturns(c)
    BY <2>3, PollReturnsStep
  <2>4. CASE \E r \in Rounds : RoundCompletes(r)
    BY <2>4, RoundCompletesStep
  <2>5. CASE Tick \/ Reap \/ Close \/ Stop \/ Crash \/ Restart
    BY <2>5, TickStep, ReapStep, CloseStep, DownStep, RestartStep
  <2> QED
    BY <1>2, StepKinds, <2>1, <2>2, <2>3, <2>4, <2>5
<1> QED
  BY <1>1, <1>2

LEMMA CoreInvariant == Spec => []CoreInv
BY CoreInit, CoreStep, PTL DEF Spec

(***************************************************************************)
(* The theorems.                                                           *)
(***************************************************************************)
(* A live run is never parked, and every variable keeps its type.          *)
THEOREM RunsStayAlive == Spec => []DaemonInv
<1>1. CoreInv => DaemonInv
  BY DEF CoreInv, DaemonInv
<1> QED
  BY <1>1, CoreInvariant, PTL

(* A retried call starts no duplicate work: what one key was answered      *)
(* stays true, over restarts, parking and changes of the panel.            *)
THEOREM RetriesAgree == Spec => []OneAnswerPerKey
<1>1. CoreInv => OneAnswerPerKey
  <2> SUFFICES ASSUME CoreInv PROVE OneAnswerPerKey
    OBVIOUS
  <2>1. AnswersKept /\ answers \subseteq [key : Keys, run : Runs, round : Rounds]
    BY DEF CoreInv, TablesInv, TypeOK
  <2>2. ASSUME NEW x \in Committed, NEW y \in Committed, x.key = y.key
        PROVE  x = y
    <3>1. x \in answers /\ y \in answers /\ IsCommitted(x) /\ IsCommitted(y)
      BY DEF Committed, IsCommitted
    <3>2. [run |-> x.run, round |-> x.round] = [run |-> y.run, round |-> y.round]
      BY <2>1, <2>2, <3>1 DEF AnswersKept
    <3>3. x.run = y.run /\ x.round = y.round
      <4> DEFINE e == [run |-> x.run, round |-> x.round]
                 f == [run |-> y.run, round |-> y.round]
      <4>1. e.run = x.run /\ e.round = x.round /\ f.run = y.run /\ f.round = y.round
        OBVIOUS
      <4> QED
        BY <3>2, <4>1
    <3> QED
      BY <2>1, <2>2, <3>1, <3>3
  <2>3. \A x \in answers \ Committed : x.key \notin StartKeys
    BY <2>1 DEF AnswersKept, Committed, IsCommitted
  <2> QED
    BY <2>2, <2>3 DEF OneAnswerPerKey
<1> QED
  BY <1>1, CoreInvariant, PTL

(* A graceful stop leaves no round running, but those whose write failed.  *)
THEOREM GracefulStop == Spec => []StopLosesNothing
<1>1. CoreInv => StopLosesNothing
  BY DEF CoreInv, RunningIsTracked, StopLosesNothing
<1> QED
  BY <1>1, CoreInvariant, PTL

(* A run is parked only when nobody called about it for the whole TTL.     *)
ParksLate ==
  \A n \in Runs : runs[n] = "running" /\ runs'[n] = "abandoned" => quiet[n] >= Ttl

LEMMA ParkStep == CoreInv /\ [Next]_vars => ParksLate
<1> SUFFICES ASSUME CoreInv, [Next]_vars, NEW n \in Runs,
                    runs[n] = "running", runs'[n] = "abandoned"
             PROVE  quiet[n] >= Ttl
  BY DEF ParksLate
<1>0. TypeOK /\ ClockWithinQuiet
  BY DEF CoreInv
<1>1. runs' # runs /\ Next
  BY DEF vars, durable
<1>2. ASSUME NEW m \in Runs, NEW r \in Rounds, NEW k, Starts(k, m, r) PROVE FALSE
  <2>1. runs' = runs \/ (Begins(k, m, r) /\ runs' = [runs EXCEPT ![m] = "running"])
    BY <1>0, <1>2, StartEffect DEF Replays, Begins, FailsToCommit, durable
  <2> QED
    BY <1>0, <2>1, Tables
<1>3. ASSUME NEW m \in Runs, Status(m) PROVE FALSE
  BY <1>0, <1>3, Tables DEF Status
<1>4. CASE Reap
  <2>1. Expired(n)
    BY <1>4 DEF Reap, ParkedState
  <2>2. clock[n] # None /\ clock[n] >= Ttl
    BY <2>1 DEF Expired
  <2>3. clock[n] \in Nat /\ quiet[n] \in Nat /\ Ttl \in Nat /\ clock[n] <= quiet[n]
    BY <1>0, <2>2, Tables, Values, DaemonAssumption DEF ClockWithinQuiet
  <2> QED
    BY <2>2, <2>3
<1>5. \/ \E m \in Runs : \/ \E c \in Clients, r \in Rounds : Poll(c, m, r)
                         \/ \E r \in Rounds : CancelRound(m, r)
                         \/ ReadRaw(m) \/ CancelRun(m)
      \/ \E c \in Clients : PollReturns(c)
      \/ \E r \in Rounds : RoundCompletes(r)
      \/ Tick \/ Close \/ Stop \/ Crash \/ Restart
      => runs' = runs
  BY DEF Poll, CancelRound, ReadRaw, CancelRun, PollReturns, RoundCompletes, Tick, Close, Stop,
     Crash, Down, Restart, durable
<1> QED
  BY <1>1, <1>2, <1>3, <1>4, <1>5, StepKinds

THEOREM ParkedLate == Spec => NotParkedEarly
<1>1. CoreInv /\ [Next]_vars => [ParksLate]_vars
  BY ParkStep
<1>2. Spec => [][ParksLate]_vars
  BY <1>1, CoreInvariant, PTL DEF Spec
<1> QED
  BY <1>2 DEF NotParkedEarly, ParksLate

(* A change of what a run shows is told by its version.                    *)
Told(n) ==
  /\ version'[n] >= version[n]
  /\ Snapshot(n)' # Snapshot(n) => version'[n] > version[n]

ChangeTold == \A n \in Runs : Told(n)

LEMMA SnapshotKept ==
  ASSUME NEW n, runs'[n] = runs[n],
         \A r \in Rounds : rounds'[r] = rounds[r] \/ (rounds[r].run # n /\ rounds'[r].run # n)
  PROVE  Snapshot(n)' = Snapshot(n)
<1> DEFINE S == {<<r, rounds[r].state>> : r \in {x \in Rounds : rounds[x].run = n}}
<1>1. ASSUME NEW p PROVE p \in S <=> p \in S'
  BY SMT
<1>2. S = S'
  BY <1>1
<1>3. Snapshot(n) = <<runs[n], S>>
  BY DEF Snapshot
<1>4. Snapshot(n)' = <<runs'[n], S'>>
  BY DEF Snapshot
<1> HIDE DEF S
<1> QED
  BY <1>2, <1>3, <1>4

(* A step tells every change when the runs whose rows change count it.     *)
LEMMA TellsWhenCounted ==
  ASSUME TypeOK, version' \in [Runs -> Nat],
         \A n \in Runs : version'[n] >= version[n],
         \A n \in Runs :
           \/ version'[n] > version[n]
           \/ /\ runs'[n] = runs[n]
              /\ \A r \in Rounds : rounds'[r] = rounds[r] \/ (rounds[r].run # n /\ rounds'[r].run # n)
  PROVE  ChangeTold
<1> SUFFICES ASSUME NEW n \in Runs PROVE Told(n)
  BY DEF ChangeTold
<1>1. CASE version'[n] > version[n]
  BY <1>1 DEF Told
<1>2. CASE ~(version'[n] > version[n])
  <2>1. Snapshot(n)' = Snapshot(n)
    BY <1>2, SnapshotKept
  <2> QED
    BY <2>1 DEF Told
<1> QED
  BY <1>1, <1>2

LEMMA NothingToTell ==
  ASSUME TypeOK, UNCHANGED <<runs, rounds, version>>
  PROVE  ChangeTold
<1>1. version' \in [Runs -> Nat] /\ \A n \in Runs : version'[n] >= version[n]
  BY Tables
<1> QED
  BY <1>1, TellsWhenCounted

LEMMA StartTells ==
  ASSUME CoreInv, NEW n \in Runs, NEW r \in Rounds, NEW k, Starts(k, n, r)
  PROVE  ChangeTold
<1>0. TypeOK /\ TablesInv
  BY DEF CoreInv
<1>1. CASE Replays(k)
  BY <1>0, <1>1, NothingToTell DEF Replays, durable
<1>2. CASE Begins(k, n, r) /\ Commits(k, n, r)
  <2>1. k # None => k \in Keys
    BY <1>2 DEF Begins
  <2>2. version' \in [Runs -> Nat] /\ version'[n] > version[n] /\ rounds'[r].run = n
    BY <1>0, <1>2, <2>1, CommitEffect
  <2>3. \A m \in Runs : m # n => version'[m] = version[m]
    BY <1>0, <1>2, Tables DEF Commits, Commit
  <2>4. \A q \in Rounds : q # r => rounds'[q] = rounds[q]
    BY <1>0, <1>2, Tables DEF Commits, Commit
  <2>5. rounds[r].run \notin Runs
    BY <1>0, <1>2, DaemonAssumption DEF TablesInv, RoundsCoherent, NoRound, Begins, Fresh
  <2>6. \A m \in Runs : m # n => runs'[m] = runs[m]
    BY <1>0, <1>2, Tables DEF Begins
  <2>7. \A m \in Runs : version[m] \in Nat
    BY <1>0, Tables
  <2>8. \A m \in Runs : version'[m] >= version[m]
    BY <2>2, <2>3, <2>7
  <2>9. \A m \in Runs :
          \/ version'[m] > version[m]
          \/ /\ runs'[m] = runs[m]
             /\ \A q \in Rounds : rounds'[q] = rounds[q] \/ (rounds[q].run # m /\ rounds'[q].run # m)
    BY <2>2, <2>4, <2>5, <2>6
  <2> QED
    BY <1>0, <2>2, <2>8, <2>9, TellsWhenCounted
<1>3. CASE Begins(k, n, r) /\ FailsToCommit(k)
  BY <1>0, <1>3, NothingToTell DEF FailsToCommit
<1> QED
  BY <1>0, <1>1, <1>2, <1>3, StartEffect

LEMMA CompletionTells ==
  ASSUME CoreInv, NEW r \in Rounds, RoundCompletes(r)
  PROVE  ChangeTold
<1>0. TypeOK /\ TablesInv
  BY DEF CoreInv
<1>1. CASE rounds' = rounds /\ version' = version
  BY <1>0, <1>1, NothingToTell DEF RoundCompletes
<1>2. CASE ~(rounds' = rounds /\ version' = version)
  <2>1. /\ rounds[r].state = "running" /\ runs' = runs
        /\ rounds' = [rounds EXCEPT ![r].state = "complete"]
        /\ version' = [version EXCEPT ![rounds[r].run] = @ + 1]
    BY <1>2 DEF RoundCompletes
  <2>2. rounds[r].run \in Runs
    BY <1>0, <2>1 DEF TablesInv, RoundsCoherent
  <2>3. version' \in [Runs -> Nat] /\ version'[rounds[r].run] > version[rounds[r].run]
    BY <1>0, <2>1, <2>2, Tables
  <2>4. \A m \in Runs : m # rounds[r].run => version'[m] = version[m]
    BY <1>0, <2>1, Tables
  <2>5. rounds'[r].run = rounds[r].run /\ \A q \in Rounds : q # r => rounds'[q] = rounds[q]
    <3>1. rounds \in [Rounds -> RoundRow]
      BY <1>0, Tables
    <3>2. rounds'[r] = [rounds[r] EXCEPT !.state = "complete"]
      BY <2>1, <3>1
    <3>3. rounds'[r].run = rounds[r].run
      BY <3>1, <3>2, Values
    <3> QED
      BY <2>1, <3>1, <3>3
  <2>6. \A m \in Runs : version[m] \in Nat
    BY <1>0, Tables
  <2>7. \A m \in Runs : version'[m] >= version[m]
    BY <2>3, <2>4, <2>6
  <2> QED
    BY <1>0, <2>1, <2>3, <2>5, <2>7, TellsWhenCounted
<1> QED
  BY <1>1, <1>2

LEMMA StatusTells ==
  ASSUME CoreInv, NEW n \in Runs, Status(n)
  PROVE  ChangeTold
<1>0. TypeOK
  BY DEF CoreInv
<1>1. rounds' = rounds
  BY DEF Status
<1>2. /\ version' \in [Runs -> Nat]
      /\ \A m \in Runs : version'[m] >= version[m]
      /\ \A m \in Runs : version'[m] > version[m] \/ runs'[m] = runs[m]
  BY <1>0, Tables DEF Status
<1> QED
  BY <1>0, <1>1, <1>2, TellsWhenCounted

LEMMA ReapTells ==
  ASSUME CoreInv, Reap
  PROVE  ChangeTold
<1>0. TypeOK
  BY DEF CoreInv
<1>1. rounds' = rounds
  BY DEF Reap
<1>2. /\ version' \in [Runs -> Nat]
      /\ \A m \in Runs : version'[m] >= version[m]
      /\ \A m \in Runs : version'[m] > version[m] \/ runs'[m] = runs[m]
  BY <1>0, Tables DEF Reap, ParkedVersion, ParkedState
<1> QED
  BY <1>0, <1>1, <1>2, TellsWhenCounted

LEMMA RestartTells ==
  ASSUME CoreInv, Restart
  PROVE  ChangeTold
<1>0. TypeOK
  BY DEF CoreInv
<1>1. /\ runs' = runs
      /\ version' = [n \in Runs |-> version[n] + Cardinality(Interrupted(n))]
      /\ \A r \in Rounds : rounds[r].state # "running" => rounds'[r] = rounds[r]
      /\ \A r \in Rounds : rounds'[r].run = rounds[r].run
  <2>1. \A r \in Rounds : [rounds[r] EXCEPT !.state = "complete"].run = rounds[r].run
    BY <1>0, Tables, Values
  <2> QED
    BY <2>1 DEF Restart
<1>2. \A n \in Runs : /\ version[n] \in Nat /\ Cardinality(Interrupted(n)) \in Nat
                      /\ version'[n] = version[n] + Cardinality(Interrupted(n))
  BY <1>0, <1>1, Tables, InterruptedCount
<1>3. version' \in [Runs -> Nat] /\ \A n \in Runs : version'[n] >= version[n]
  BY <1>1, <1>2
<1>4. ASSUME NEW n \in Runs
      PROVE  \/ version'[n] > version[n]
             \/ /\ runs'[n] = runs[n]
                /\ \A r \in Rounds : rounds'[r] = rounds[r] \/ (rounds[r].run # n /\ rounds'[r].run # n)
  <2>1. CASE Interrupted(n) = {}
    <3>1. \A r \in Rounds : rounds[r].run = n => rounds[r].state # "running"
      BY <2>1 DEF Interrupted
    <3> QED
      BY <1>1, <3>1
  <2>2. CASE Interrupted(n) # {}
    BY <1>2, <2>2, InterruptedCount
  <2> QED
    BY <2>1, <2>2
<1> QED
  BY <1>0, <1>3, <1>4, TellsWhenCounted

LEMMA ChangeStep == CoreInv /\ [Next]_vars => ChangeTold
<1> SUFFICES ASSUME CoreInv, [Next]_vars PROVE ChangeTold
  OBVIOUS
<1>0. TypeOK
  BY DEF CoreInv
<1>1. CASE UNCHANGED <<runs, rounds, version>>
  BY <1>0, <1>1, NothingToTell
<1>2. CASE ~UNCHANGED <<runs, rounds, version>>
  <2>1. Next
    BY <1>2 DEF vars, durable
  <2>2. \/ \E m \in Runs : \/ \E c \in Clients, r \in Rounds : Poll(c, m, r)
                           \/ \E r \in Rounds : CancelRound(m, r)
                           \/ ReadRaw(m) \/ CancelRun(m)
        \/ \E c \in Clients : PollReturns(c)
        \/ Tick \/ Close \/ Stop \/ Crash
        => UNCHANGED <<runs, rounds, version>>
    BY DEF Poll, CancelRound, ReadRaw, CancelRun, PollReturns, Tick, Close, Stop,
       Crash, Down, durable
  <2>3. \/ \E n \in Runs, r \in Rounds : \E k : Starts(k, n, r)
        \/ \E n \in Runs : Status(n)
        \/ \E r \in Rounds : RoundCompletes(r)
        \/ Reap \/ Restart
    BY <1>2, <2>1, <2>2, StepKinds
  <2> QED
    BY <2>3, StartTells, StatusTells, CompletionTells, ReapTells, RestartTells
<1> QED
  BY <1>1, <1>2

THEOREM VersionTells == Spec => VersionTellsChange
<1>1. CoreInv /\ [Next]_vars => [ChangeTold]_vars
  BY ChangeStep
<1>2. Spec => [][ChangeTold]_vars
  BY <1>1, CoreInvariant, PTL DEF Spec
<1> QED
  BY <1>2 DEF VersionTellsChange, ChangeTold, Told
=============================================================================
