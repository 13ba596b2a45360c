---------------------------- MODULE EngineProofs ----------------------------
(***************************************************************************)
(* Proofs about module Engine, for any number of runs, rounds, members and *)
(* retries, any quorum, and whether or not writes may fail: its types, the *)
(* inductive invariant, the safety properties that follow from it, that it *)
(* implements module RoundPromise when no write fails, and that its event  *)
(* log tells what the tables say, attempt by attempt; and about module     *)
(* Timeline, that a reader of that log ends up with the tables.            *)
(***************************************************************************)
EXTENDS Timeline, FiniteSetTheorems, SequenceTheorems, TLAPS

(***************************************************************************)
(* A finite set of events, laid out as a sequence by the reconciliation.   *)
(***************************************************************************)

(* The sequence made of a finite set holds each of its elements exactly    *)
(* once and nothing else (the rows insertEvent appends in reconcile).      *)
LEMMA SetToSeqProperties ==
  ASSUME NEW S, IsFiniteSet(S)
  PROVE  /\ SetToSeq(S) \in Seq(S)
         /\ \A e \in S : \E i \in DOMAIN SetToSeq(S) : SetToSeq(S)[i] = e
         /\ \A i, j \in DOMAIN SetToSeq(S) : SetToSeq(S)[i] = SetToSeq(S)[j] => i = j
<1> DEFINE n == Cardinality(S)
           f == SetToSeq(S)
<1>1. n \in Nat /\ ExistsBijection(1..n, S)
  BY FS_CardinalityType
<1>2. \E g \in [1..n -> S] : IsInjective(g)
  BY <1>1 DEF ExistsBijection, Bijection, Injection, IsInjective
<1>3. f \in [1..n -> S] /\ IsInjective(f)
  BY <1>2 DEF SetToSeq
<1>4. f \in Injection(1..n, S)
  BY <1>3 DEF Injection
<1>5. IsFiniteSet(1..n) /\ Cardinality(1..n) = n
  BY <1>1, FS_Interval
<1>6. f \in Surjection(1..n, S)
  BY <1>4, <1>5, FS_Injection
<1>7. f \in Seq(S)
  BY <1>1, <1>3
<1> QED
  BY <1>3, <1>6, <1>7 DEF Surjection, IsInjective, Injection

(***************************************************************************)
(* Type correctness.                                                       *)
(***************************************************************************)

(* computeVerdict returns one of the three verdicts.                       *)
LEMMA VerdictType ==
  ASSUME NEW status, NEW quorum
  PROVE  ComputeVerdict(status, quorum) \in QuorumVerdict
BY DEF ComputeVerdict, QuorumVerdict

(* Every event the engine logs is an Event.                                *)
LEMMA EventTypes ==
  /\ \A n \in Runs : RunCreated(n) \in Event
  /\ \A r \in Rounds : RoundStarted(r) \in Event
  /\ \A r \in Rounds, a \in Agents, k \in Nat : Started(r, a, k) \in Event
  /\ \A r \in Rounds, m \in Members, s \in Terminal, k \in Nat : Finished(r, m, s, k) \in Event
  /\ \A r \in Rounds, v \in QuorumVerdict : Completed(r, v) \in Event
BY DEF Event, RunCreated, RoundStarted, Started, Finished, Completed

(* What an attempt ends with is a settled status.                          *)
LEMMA OutcomeType ==
  ASSUME NEW r, NEW a
  PROVE  AttemptOutcomes(r, a) \subseteq SettledStatus
BY EngineAssumption DEF AttemptOutcomes

(* The events appended by the reconciliation form sequences of Events.     *)
LEMMA ReconcileEvents ==
  ASSUME TypeOK
  PROVE  /\ IsFiniteSet(InterruptedEvents) /\ InterruptedEvents \subseteq Event
         /\ IsFiniteSet(RepairedEvents) /\ RepairedEvents \subseteq Event
<1> DEFINE P == {x \in Rounds \X Members : InFlight(x[1], x[2])}
           R == {x \in Rounds : rounds[x].state = "running"}
<1>1. IsFiniteSet(Members)
  BY EngineAssumption, FS_Union DEF Members
<1>2. IsFiniteSet(Rounds \X Members)
  BY <1>1, EngineAssumption, FS_Product
<1>3. IsFiniteSet(P)
  BY <1>2, FS_Subset
<1>4. IsFiniteSet(R)
  BY EngineAssumption, FS_Subset
<1> DEFINE F == [x \in P |-> Finished(x[1], x[2], "interrupted", inv[x[1]][x[2]].attempts)]
           G == [x \in R |-> Completed(x, RepairedVerdict(x))]
<1>5. F \in Surjection(P, InterruptedEvents)
  BY DEF Surjection, InterruptedEvents
<1>6. G \in Surjection(R, RepairedEvents)
  BY DEF Surjection, RepairedEvents
<1>7. IsFiniteSet(InterruptedEvents) /\ IsFiniteSet(RepairedEvents)
  BY <1>3, <1>4, <1>5, <1>6, FS_Surjection
<1>8. InterruptedEvents \subseteq Event
  <2> SUFFICES ASSUME NEW x \in P
               PROVE  Finished(x[1], x[2], "interrupted", inv[x[1]][x[2]].attempts) \in Event
    BY DEF InterruptedEvents
  <2>1. x[1] \in Rounds /\ x[2] \in Members
    OBVIOUS
  <2>2. inv[x[1]][x[2]].attempts \in Nat
    BY <2>1 DEF TypeOK, InvocationRow
  <2> QED
    BY <2>1, <2>2, EventTypes DEF Terminal
<1>9. RepairedEvents \subseteq Event
  BY EventTypes, VerdictType DEF RepairedEvents, RepairedVerdict
<1> QED
  BY <1>7, <1>8, <1>9

(* The number of rounds of a run, the index of its next round.             *)
LEMMA CountRoundsType ==
  ASSUME NEW n
  PROVE  CountRounds(n) \in Nat
BY EngineAssumption, FS_Subset, FS_CardinalityType DEF CountRounds

(* The constructed rows and tasks have their types.                        *)
LEMMA RoundRowTypes ==
  /\ NoRound \in RoundRow
  /\ \A n \in Runs, k \in Nat :
       [run |-> n, index |-> k, state |-> "running", verdict |-> None] \in RoundRow
  /\ \A row \in RoundRow, v \in QuorumVerdict :
       [row EXCEPT !.state = "complete", !.verdict = v] \in RoundRow
BY DEF NoRound, RoundRow

LEMMA InvocationRowTypes ==
  /\ Placeholder \in InvocationRow
  /\ \A s \in InvocationStatus, k \in Nat : [status |-> s, attempts |-> k] \in InvocationRow
  /\ \A row \in InvocationRow : row.attempts \in Nat
BY DEF Placeholder, InvocationRow, InvocationStatus

LEMMA TaskTypes ==
  /\ IdleTask \in Task
  /\ \A t \in Task, p \in {"queued", "backoff", "thrown"} : [t EXCEPT !.pc = p] \in Task
  /\ \A p \in {"spawned", "cancelled", "done"}, k \in Nat, s \in SettledStatus \cup {None} :
       [pc |-> p, attempt |-> k, result |-> s] \in Task
  /\ \A t \in Task : t.attempt \in Nat
BY DEF IdleTask, Task

(* Appending events keeps the log a sequence of events.                    *)
LEMMA LogAppend ==
  ASSUME NEW lg \in Seq(Event), NEW e \in Event, NEW d \in Event
  PROVE  /\ Append(lg, e) \in Seq(Event)
         /\ lg \o <<d, e>> \in Seq(Event)
  OBVIOUS

(* Type correctness of the initial state and of each action.               *)
LEMMA TypeInit == Init => TypeOK
<1> SUFFICES ASSUME Init PROVE TypeOK
  OBVIOUS
<1>1. rounds \in [Rounds -> RoundRow]
  BY RoundRowTypes DEF Init
<1>2. inv \in [Rounds -> [Members -> InvocationRow]]
  BY InvocationRowTypes DEF Init
<1>3. task \in [Rounds -> [Agents -> Task]]
  BY TaskTypes DEF Init
<1> QED
  BY <1>1, <1>2, <1>3 DEF Init, TypeOK, TailState

LEMMA TypeStep ==
  ASSUME TypeOK, [Next]_vars
  PROVE  TypeOK'
<1>1. ASSUME NEW n \in Runs, NEW r \in Rounds, StartRound(n, r)
      PROVE  TypeOK'
  <2>1. [run |-> n, index |-> CountRounds(n), state |-> "running", verdict |-> None] \in RoundRow
    BY CountRoundsType, RoundRowTypes
  <2>2. StartRoundWithPending(r, n)
    BY <1>1 DEF StartRound, OpenRun, DispatchRound
  <2>3. rounds' \in [Rounds -> RoundRow]
    BY <2>1, <2>2 DEF StartRoundWithPending, TypeOK
  <2>4. inv' \in [Rounds -> [Members -> InvocationRow]]
    <3>1. [m \in Members |-> Placeholder] \in [Members -> InvocationRow]
      BY InvocationRowTypes
    <3> QED
      BY <2>2, <3>1 DEF StartRoundWithPending, TypeOK
  <2>5. log' \in Seq(Event)
    <3>1. RunCreated(n) \in Event /\ RoundStarted(r) \in Event
      BY EventTypes
    <3>2. log' = log \o <<RunCreated(n), RoundStarted(r)>> \/ log' = Append(log, RoundStarted(r))
      BY <1>1 DEF StartRound, OpenRun, DispatchRound
    <3> QED
      BY <3>1, <3>2, LogAppend DEF TypeOK
  <2>6. tail' \in [Rounds -> TailState]
    BY <2>2 DEF StartRoundWithPending, TypeOK, TailState
  <2> QED
    BY <2>2, <2>3, <2>4, <2>5, <2>6 DEF StartRoundWithPending, TypeOK
<1>2. ASSUME NEW r \in Rounds, NEW m \in Unavailable, RecordUnavailable(r, m)
      PROVE  TypeOK'
  <2>1. m \in Members /\ "unavailable" \in InvocationStatus /\ "unavailable" \in Terminal
    BY DEF Members, InvocationStatus, Terminal, SettledStatus
  <2>2. inv' \in [Rounds -> [Members -> InvocationRow]]
    <3>1. [status |-> "unavailable", attempts |-> 0] \in InvocationRow
      BY <2>1, InvocationRowTypes
    <3>2. PICK row \in InvocationRow : inv' = [inv EXCEPT ![r][m] = row] \/ inv' = inv
      BY <1>2, <3>1 DEF RecordUnavailable
    <3>3. inv \in [Rounds -> [Members -> InvocationRow]]
      BY DEF TypeOK
    <3> QED
      BY <2>1, <3>2, <3>3
  <2>3. log' \in Seq(Event)
    <3>1. Finished(r, m, "unavailable", 0) \in Event
      BY <2>1, EventTypes
    <3>2. log' = Append(log, Finished(r, m, "unavailable", 0)) \/ log' = log
      BY <1>2 DEF RecordUnavailable
    <3>3. log \in Seq(Event)
      BY DEF TypeOK
    <3> QED
      BY <3>1, <3>2, <3>3, LogAppend
  <2>4. tail' \in [Rounds -> TailState]
    BY <1>2 DEF RecordUnavailable, TypeOK, TailState
  <2> QED
    BY <1>2, <2>2, <2>3, <2>4 DEF RecordUnavailable, TypeOK
<1>3. ASSUME NEW r \in Rounds, DispatchAgents(r)
      PROVE  TypeOK'
  <2>1. [IdleTask EXCEPT !.pc = "queued"] \in Task
    BY TaskTypes
  <2>2. task' \in [Rounds -> [Agents -> Task]]
    BY <1>3, <2>1 DEF DispatchAgents, TypeOK
  <2>3. tail' \in [Rounds -> TailState]
    BY <1>3 DEF DispatchAgents, TypeOK, TailState
  <2> QED
    BY <1>3, <2>2, <2>3 DEF DispatchAgents, TypeOK
<1>4. ASSUME NEW r \in Rounds, CompleteRound(r)
      PROVE  TypeOK'
  <2>1. PICK v \in QuorumVerdict, q \in TailState : CompleteWith(r, v, q)
    BY <1>4, VerdictType DEF CompleteRound, DecideRound, FailRound, QuorumVerdict, TailState
  <2>2. rounds' \in [Rounds -> RoundRow]
    <3>1. [rounds[r] EXCEPT !.state = "complete", !.verdict = v] \in RoundRow
      BY RoundRowTypes DEF TypeOK
    <3>2. \/ rounds' = [rounds EXCEPT ![r] = [rounds[r] EXCEPT !.state = "complete", !.verdict = v]]
          \/ rounds' = rounds
      BY <2>1 DEF CompleteWith, TypeOK
    <3> QED
      BY <3>1, <3>2 DEF TypeOK
  <2>3. log' \in Seq(Event)
    <3>1. Completed(r, v) \in Event
      BY EventTypes
    <3>2. log' = Append(log, Completed(r, v)) \/ log' = log
      BY <2>1 DEF CompleteWith
    <3>3. log \in Seq(Event)
      BY DEF TypeOK
    <3> QED
      BY <3>1, <3>2, <3>3, LogAppend
  <2>4. tail' \in [Rounds -> TailState]
    BY <2>1 DEF CompleteWith, TypeOK, TailState
  <2> QED
    BY <1>4, <2>2, <2>3, <2>4 DEF CompleteRound, DecideRound, FailRound, TypeOK
<1>5. ASSUME NEW r \in Rounds, NEW a \in Agents, StartAttempt(r, a)
      PROVE  TypeOK'
  <2> DEFINE k == task[r][a].attempt + 1
  <2>1. a \in Members /\ "running" \in InvocationStatus
    BY DEF Members, InvocationStatus
  <2>2. k \in Nat /\ task[r][a] \in Task
    BY TaskTypes DEF TypeOK
  <2>3. inv' \in [Rounds -> [Members -> InvocationRow]]
    <3>1. [status |-> "running", attempts |-> k] \in InvocationRow
      BY <2>1, <2>2, InvocationRowTypes
    <3>2. PICK row \in InvocationRow : inv' = [inv EXCEPT ![r][a] = row] \/ inv' = inv
      BY <1>5, <3>1 DEF StartAttempt, Throw
    <3>3. inv \in [Rounds -> [Members -> InvocationRow]]
      BY DEF TypeOK
    <3> QED
      BY <2>1, <3>2, <3>3
  <2>4. log' \in Seq(Event)
    <3>1. Started(r, a, k) \in Event
      BY <2>2, EventTypes
    <3>2. log' = Append(log, Started(r, a, k)) \/ log' = log
      BY <1>5 DEF StartAttempt, Throw
    <3>3. log \in Seq(Event)
      BY DEF TypeOK
    <3> QED
      BY <3>1, <3>2, <3>3, LogAppend
  <2>5. task' \in [Rounds -> [Agents -> Task]]
    <3>1. \A p \in {"spawned", "cancelled"} : [pc |-> p, attempt |-> k, result |-> None] \in Task
      BY <2>2, TaskTypes
    <3>2. [task[r][a] EXCEPT !.pc = "thrown"] \in Task
      BY <2>2, TaskTypes
    <3>3. PICK t \in Task : task' = [task EXCEPT ![r][a] = t]
      BY <1>5, <3>1, <3>2 DEF StartAttempt, Throw, TypeOK
    <3> QED
      BY <3>3 DEF TypeOK
  <2> QED
    BY <1>5, <2>3, <2>4, <2>5 DEF StartAttempt, TypeOK
<1>6. ASSUME NEW r \in Rounds, NEW a \in Agents, RetryLater(r, a)
      PROVE  TypeOK'
  <2>1. [task[r][a] EXCEPT !.pc = "backoff"] \in Task
    <3>1. task[r][a] \in Task
      BY DEF TypeOK
    <3> QED
      BY <3>1, TaskTypes
  <2>2. task' = [task EXCEPT ![r][a] = [task[r][a] EXCEPT !.pc = "backoff"]]
    BY <1>6 DEF RetryLater, TypeOK
  <2>3. task' \in [Rounds -> [Agents -> Task]]
    BY <2>1, <2>2 DEF TypeOK
  <2> QED
    BY <1>6, <2>3 DEF RetryLater, TypeOK
<1>7. ASSUME NEW r \in Rounds, NEW a \in Agents, NEW s \in Outcomes, FinishAgent(r, a, s)
      PROVE  TypeOK'
  <2> DEFINE k == task[r][a].attempt
  <2>1. a \in Members /\ s \in SettledStatus /\ s \in InvocationStatus /\ s \in Terminal
    BY <1>7, OutcomeType DEF FinishAgent, Members, InvocationStatus, Terminal
  <2>2. k \in Nat /\ task[r][a] \in Task
    BY TaskTypes DEF TypeOK
  <2>3. inv' \in [Rounds -> [Members -> InvocationRow]]
    <3>1. [status |-> s, attempts |-> k] \in InvocationRow
      BY <2>1, <2>2, InvocationRowTypes
    <3>2. PICK row \in InvocationRow : inv' = [inv EXCEPT ![r][a] = row] \/ inv' = inv
      BY <1>7, <3>1 DEF FinishAgent, Throw
    <3>3. inv \in [Rounds -> [Members -> InvocationRow]]
      BY DEF TypeOK
    <3> QED
      BY <2>1, <3>2, <3>3
  <2>4. log' \in Seq(Event)
    <3>1. Finished(r, a, s, k) \in Event
      BY <2>1, <2>2, EventTypes
    <3>2. log' = Append(log, Finished(r, a, s, k)) \/ log' = log
      BY <1>7 DEF FinishAgent, Throw
    <3>3. log \in Seq(Event)
      BY DEF TypeOK
    <3> QED
      BY <3>1, <3>2, <3>3, LogAppend
  <2>5. task' \in [Rounds -> [Agents -> Task]]
    <3>1. [pc |-> "done", attempt |-> k, result |-> s] \in Task
      BY <2>1, <2>2, TaskTypes
    <3>2. [task[r][a] EXCEPT !.pc = "thrown"] \in Task
      BY <2>2, TaskTypes
    <3>3. PICK t \in Task : task' = [task EXCEPT ![r][a] = t]
      BY <1>7, <3>1, <3>2 DEF FinishAgent, Throw, TypeOK
    <3> QED
      BY <3>3 DEF TypeOK
  <2> QED
    BY <1>7, <2>3, <2>4, <2>5 DEF FinishAgent, TypeOK
<1>8. ASSUME NEW r \in Rounds, CancelRound(r)
      PROVE  TypeOK'
  BY <1>8 DEF CancelRound, TypeOK
<1>9. CASE Crash
  <2>1. task' \in [Rounds -> [Agents -> Task]]
    BY <1>9, TaskTypes DEF Crash
  <2> QED
    BY <1>9, <2>1 DEF Crash, TypeOK, TailState
<1>10. CASE Reconcile
  <2>1. SetToSeq(InterruptedEvents) \in Seq(Event) /\ SetToSeq(RepairedEvents) \in Seq(Event)
    BY ReconcileEvents, SetToSeqProperties, SeqMonotonic
  <2>2. log' \in Seq(Event)
    BY <1>10, <2>1, ConcatProperties DEF Reconcile, TypeOK
  <2>3. rounds' \in [Rounds -> RoundRow]
    <3>1. \A x \in Rounds : [rounds[x] EXCEPT !.state = "complete", !.verdict = RepairedVerdict(x)]
                            \in RoundRow
      BY VerdictType, RoundRowTypes DEF RepairedVerdict, TypeOK
    <3> QED
      BY <1>10, <3>1 DEF Reconcile, TypeOK
  <2>4. inv' \in [Rounds -> [Members -> InvocationRow]]
    <3>1. ASSUME NEW x \in Rounds, NEW m \in Members
          PROVE  AfterInterrupt(x, m) \in InvocationRow
      <4>1. inv[x][m] \in InvocationRow
        BY DEF TypeOK
      <4>2. [inv[x][m] EXCEPT !.status = "interrupted"] \in InvocationRow
        BY <4>1 DEF InvocationRow, InvocationStatus
      <4> QED
        BY <4>1, <4>2 DEF AfterInterrupt
    <3> QED
      BY <1>10, <3>1 DEF Reconcile
  <2> QED
    BY <1>10, <2>2, <2>3, <2>4 DEF Reconcile, TypeOK
<1>11. CASE UNCHANGED vars
  BY <1>11 DEF vars, TypeOK
<1> QED
  BY <1>1, <1>2, <1>3, <1>4, <1>5, <1>6, <1>7, <1>8, <1>9, <1>10, <1>11
     DEF Next, TailStep, AgentStep

(* Every reachable state is well typed.                                    *)
THEOREM TypeCorrect == Spec => []TypeOK
BY TypeInit, TypeStep, PTL DEF Spec

-----------------------------------------------------------------------------
(* The tables as functions, the only part of their types a step needs to   *)
(* tell which cells it changed.                                            *)
LEMMA Tables ==
  ASSUME TypeOK
  PROVE  /\ inv \in [Rounds -> [Members -> InvocationRow]]
         /\ task \in [Rounds -> [Agents -> Task]]
BY DEF TypeOK

LEMMA MemoryInit == Init => MemoryInv
<1> SUFFICES ASSUME Init PROVE MemoryInv
  OBVIOUS
<1>1. TypeOK
  BY TypeInit
<1>2. TailMatchesRows
  BY DEF Init, TailMatchesRows, RoundCoherent, NoRound, Placeholder, IdleTask, Members
<1>3. TaskMatchesRow
  BY DEF Init, TaskMatchesRow, TaskCoherent, IdleTask
<1>4. NothingThrown
  BY DEF Init, NothingThrown, IdleTask
<1> QED
  BY <1>1, <1>2, <1>3, <1>4 DEF MemoryInv

(***************************************************************************)
(* Each action keeps MemoryInv.                                            *)
(***************************************************************************)
LEMMA StartKeepsMemory ==
  ASSUME MemoryInv, NEW n \in Runs, NEW r \in Rounds, StartRound(n, r)
  PROVE  TailMatchesRows' /\ TaskMatchesRow' /\ NothingThrown'
<1> USE DEF MemoryInv
<1>1. StartRoundWithPending(r, n) /\ EventLoopFree
  BY DEF StartRound, OpenRun, DispatchRound
<1>2. up /\ up' = up /\ task' = task
  BY <1>1 DEF StartRoundWithPending, EventLoopFree
<1>3. \A a \in Agents : task[r][a] = IdleTask
  BY <1>1 DEF TailMatchesRows, RoundCoherent, StartRoundWithPending
<1>4. ASSUME NEW x \in Rounds
      PROVE  RoundCoherent(x)'
  <2>1. CASE x = r
    <3>1. /\ rounds'[x].state = "running" /\ rounds'[x].verdict = None
          /\ inv'[x] = [m \in Members |-> Placeholder]
          /\ tail'[x] = "recording"
      BY <1>1, <2>1 DEF StartRoundWithPending, TypeOK
    <3> QED
      BY <1>2, <1>3, <2>1, <3>1 DEF RoundCoherent, Placeholder, Members
  <2>2. CASE x # r
    <3>1. rounds'[x] = rounds[x] /\ inv'[x] = inv[x] /\ tail'[x] = tail[x]
      BY <1>1, <2>2 DEF StartRoundWithPending, TypeOK
    <3> QED
      BY <1>2, <3>1 DEF TailMatchesRows, RoundCoherent
  <2> QED
    BY <2>1, <2>2
<1>5. ASSUME NEW x \in Rounds, NEW a \in Agents
      PROVE  TaskCoherent(x, a)'
  <2>1. CASE x = r
    BY <1>2, <1>3, <2>1 DEF TaskCoherent, IdleTask
  <2>2. CASE x # r
    <3>1. inv'[x] = inv[x]
      BY <1>1, <2>2 DEF StartRoundWithPending, TypeOK
    <3> QED
      BY <1>2, <3>1 DEF TaskMatchesRow, TaskCoherent
  <2> QED
    BY <2>1, <2>2
<1>6. NothingThrown'
  <2>1. \A x \in Rounds : tail'[x] = tail[x] \/ tail'[x] = "recording"
    BY <1>1 DEF StartRoundWithPending, TypeOK
  <2> QED
    BY <1>2, <2>1 DEF NothingThrown
<1> QED
  BY <1>4, <1>5, <1>6 DEF TailMatchesRows, TaskMatchesRow

LEMMA RecordKeepsMemory ==
  ASSUME MemoryInv, NEW r \in Rounds, NEW m \in Unavailable, RecordUnavailable(r, m)
  PROVE  TailMatchesRows' /\ TaskMatchesRow' /\ NothingThrown'
<1> USE DEF MemoryInv
<1> DEFINE row == [status |-> "unavailable", attempts |-> 0]
<1>1. up /\ up' = up /\ task' = task /\ rounds' = rounds /\ tail[r] = "recording"
  BY DEF RecordUnavailable
<1>2. m \in Members /\ m \notin Agents
  BY EngineAssumption DEF Members
<1>3. \/ inv' = [inv EXCEPT ![r][m] = row] /\ tail' = tail
      \/ inv' = inv /\ StoreMayFail /\ tail' = [tail EXCEPT ![r] = "rejected"]
  BY DEF RecordUnavailable
<1>4. \A x \in Rounds, y \in Members :
        inv'[x][y] = inv[x][y] \/ (x = r /\ y = m /\ inv'[x][y] = row)
  BY <1>2, <1>3, Tables
<1>5. \A x \in Rounds : tail'[x] = tail[x] \/ (x = r /\ tail'[x] = "rejected" /\ StoreMayFail)
  BY <1>3 DEF TypeOK
<1>6. rounds[r].state = "running"
  BY <1>1 DEF TailMatchesRows, RoundCoherent
<1>7. ASSUME NEW x \in Rounds
      PROVE  RoundCoherent(x)'
  <2>1. \A a \in Agents : inv'[x][a] = inv[x][a]
    BY <1>2, <1>4 DEF Members
  <2>2. \A y \in Unavailable : inv'[x][y] = inv[x][y] \/ inv'[x][y].status = "unavailable"
    BY <1>4 DEF Members
  <2>3. CASE x = r
    BY <1>1, <1>5, <1>6, <2>1, <2>2, <2>3 DEF TailMatchesRows, RoundCoherent
  <2>4. CASE x # r
    BY <1>1, <1>4, <1>5, <2>1, <2>2, <2>4 DEF TailMatchesRows, RoundCoherent
  <2> QED
    BY <2>3, <2>4
<1>8. ASSUME NEW x \in Rounds, NEW a \in Agents
      PROVE  TaskCoherent(x, a)'
  <2>1. inv'[x][a] = inv[x][a]
    BY <1>2, <1>4 DEF Members
  <2> QED
    BY <1>1, <2>1 DEF TaskMatchesRow, TaskCoherent
<1>9. NothingThrown'
  BY <1>1, <1>5 DEF NothingThrown
<1> QED
  BY <1>7, <1>8, <1>9 DEF TailMatchesRows, TaskMatchesRow

LEMMA DispatchKeepsMemory ==
  ASSUME MemoryInv, NEW r \in Rounds, DispatchAgents(r)
  PROVE  TailMatchesRows' /\ TaskMatchesRow' /\ NothingThrown'
<1> USE DEF MemoryInv
<1>1. up /\ up' = up /\ rounds' = rounds /\ inv' = inv /\ tail[r] = "recording"
  BY DEF DispatchAgents
<1>2. \A x \in Rounds : tail'[x] = IF x = r THEN "dispatched" ELSE tail[x]
  BY DEF DispatchAgents, TypeOK
<1>3. \A x \in Rounds, a \in Agents :
        task'[x][a] = IF x = r THEN [IdleTask EXCEPT !.pc = "queued"] ELSE task[x][a]
  BY DEF DispatchAgents, TypeOK
<1>4. \A a \in Agents : inv[r][a] = Placeholder
  BY <1>1 DEF TailMatchesRows, RoundCoherent
<1>5. \A m \in Unavailable : inv[r][m].status = "unavailable"
  BY <1>1 DEF DispatchAgents, TailMatchesRows, RoundCoherent
<1>6. ASSUME NEW x \in Rounds
      PROVE  RoundCoherent(x)'
  BY <1>1, <1>2, <1>3, <1>5 DEF TailMatchesRows, RoundCoherent
<1>7. ASSUME NEW x \in Rounds, NEW a \in Agents
      PROVE  TaskCoherent(x, a)'
  BY <1>1, <1>3, <1>4 DEF TaskMatchesRow, TaskCoherent, IdleTask
<1>8. NothingThrown'
  BY <1>2, <1>3 DEF NothingThrown, IdleTask
<1> QED
  BY <1>6, <1>7, <1>8 DEF TailMatchesRows, TaskMatchesRow

(* An agent's step changes only its own task and row, both from a state in *)
(* which the row is not terminal, and leaves the pair coherent.            *)
LEMMA AgentEffect ==
  ASSUME MemoryInv, NEW r \in Rounds, NEW a \in Agents, AgentStep(r, a)
  PROVE  /\ up /\ up' = up /\ rounds' = rounds /\ tail' = tail
         /\ task[r][a].pc \in {"queued", "spawned", "cancelled", "backoff"}
         /\ \A x \in Rounds, y \in Members : ~(x = r /\ y = a) => inv'[x][y] = inv[x][y]
         /\ \A x \in Rounds, y \in Agents : ~(x = r /\ y = a) => task'[x][y] = task[x][y]
         /\ task'[r][a].pc = "thrown" => StoreMayFail
         /\ TaskCoherent(r, a)'
<1> USE DEF MemoryInv
<1>1. a \in Members
  BY DEF Members
<1>2. task[r][a] \in Task /\ task[r][a].attempt \in Nat
  BY TaskTypes, Tables
<1>3. TaskCoherent(r, a)
  BY DEF TaskMatchesRow
<1>4. CASE StartAttempt(r, a)
  <2> DEFINE k == task[r][a].attempt + 1
  <2>1. /\ up /\ up' = up /\ rounds' = rounds /\ tail' = tail
        /\ task[r][a].pc \in {"queued", "backoff"}
    BY <1>4 DEF StartAttempt, EventLoopFree
  <2>2. CASE Throw(r, a)
    <3>1. task' = [task EXCEPT ![r][a] = [task[r][a] EXCEPT !.pc = "thrown"]] /\ inv' = inv
      BY <2>2, Tables DEF Throw
    <3>2. /\ task'[r][a] = [task[r][a] EXCEPT !.pc = "thrown"]
          /\ \A x \in Rounds, y \in Agents : ~(x = r /\ y = a) => task'[x][y] = task[x][y]
      BY <3>1, Tables
    <3>3. task'[r][a].pc = "thrown"
      BY <1>2, <3>2 DEF Task
    <3>4. TaskCoherent(r, a)'
      BY <3>3 DEF TaskCoherent
    <3> QED
      BY <2>1, <2>2, <3>1, <3>2, <3>4 DEF Throw
  <2>3. CASE /\ inv' = [inv EXCEPT ![r][a] = [status |-> "running", attempts |-> k]]
             /\ task' = [task EXCEPT ![r][a] =
                           [pc |-> IF aborted[r] THEN "cancelled" ELSE "spawned",
                            attempt |-> k, result |-> None]]
    <3>1. /\ inv'[r][a] = [status |-> "running", attempts |-> k]
          /\ \A x \in Rounds, y \in Members : ~(x = r /\ y = a) => inv'[x][y] = inv[x][y]
      BY <1>1, <2>3, Tables
    <3>2. PICK p \in {"cancelled", "spawned"} :
            task' = [task EXCEPT ![r][a] = [pc |-> p, attempt |-> k, result |-> None]]
      BY <2>3
    <3>3. /\ task'[r][a] = [pc |-> p, attempt |-> k, result |-> None]
          /\ \A x \in Rounds, y \in Agents : ~(x = r /\ y = a) => task'[x][y] = task[x][y]
      BY <3>2, Tables
    <3>4. k <= MaxRetries[a] + 1
      BY <1>2, <1>3, <2>1, EngineAssumption DEF TaskCoherent
    <3>5. TaskCoherent(r, a)'
      BY <3>1, <3>3, <3>4 DEF TaskCoherent
    <3> QED
      BY <2>1, <3>1, <3>3, <3>5
  <2> QED
    BY <1>4, <2>2, <2>3 DEF StartAttempt
<1>5. CASE RetryLater(r, a)
  <2>1. /\ up /\ up' = up /\ rounds' = rounds /\ tail' = tail /\ inv' = inv
        /\ task' = [task EXCEPT ![r][a] = [task[r][a] EXCEPT !.pc = "backoff"]]
    BY <1>5, Tables DEF RetryLater, EventLoopFree
  <2>2. task[r][a].pc \in {"spawned", "cancelled"}
    BY <1>5 DEF RetryLater, AttemptOutcomes
  <2>3. /\ task'[r][a] = [task[r][a] EXCEPT !.pc = "backoff"]
        /\ \A x \in Rounds, y \in Agents : ~(x = r /\ y = a) => task'[x][y] = task[x][y]
    BY <2>1, Tables
  <2>4. task'[r][a].pc = "backoff" /\ task'[r][a].attempt = task[r][a].attempt
    BY <1>2, <2>3 DEF Task
  <2>5. task[r][a].attempt <= MaxRetries[a]
    BY <1>2, <1>3, <1>5, <2>2, EngineAssumption DEF RetryLater, TaskCoherent, LastAttempt
  <2>6. TaskCoherent(r, a)'
    BY <1>3, <2>1, <2>2, <2>4, <2>5 DEF TaskCoherent
  <2> QED
    BY <2>1, <2>2, <2>3, <2>4, <2>6
<1>6. ASSUME NEW s \in Outcomes, FinishAgent(r, a, s)
      PROVE  /\ up /\ up' = up /\ rounds' = rounds /\ tail' = tail
             /\ task[r][a].pc \in {"queued", "spawned", "cancelled", "backoff"}
             /\ \A x \in Rounds, y \in Members : ~(x = r /\ y = a) => inv'[x][y] = inv[x][y]
             /\ \A x \in Rounds, y \in Agents : ~(x = r /\ y = a) => task'[x][y] = task[x][y]
             /\ task'[r][a].pc = "thrown" => StoreMayFail
             /\ TaskCoherent(r, a)'
  <2> DEFINE k == task[r][a].attempt
  <2>1. /\ up /\ up' = up /\ rounds' = rounds /\ tail' = tail
        /\ task[r][a].pc \in {"spawned", "cancelled"} /\ s \in SettledStatus
    BY <1>6, OutcomeType DEF FinishAgent, EventLoopFree, AttemptOutcomes
  <2>2. CASE Throw(r, a)
    <3>1. task' = [task EXCEPT ![r][a] = [task[r][a] EXCEPT !.pc = "thrown"]] /\ inv' = inv
      BY <2>2, Tables DEF Throw
    <3>2. /\ task'[r][a] = [task[r][a] EXCEPT !.pc = "thrown"]
          /\ \A x \in Rounds, y \in Agents : ~(x = r /\ y = a) => task'[x][y] = task[x][y]
      BY <3>1, Tables
    <3>3. task'[r][a].pc = "thrown"
      BY <1>2, <3>2 DEF Task
    <3>4. TaskCoherent(r, a)'
      BY <3>3 DEF TaskCoherent
    <3> QED
      BY <2>1, <2>2, <3>1, <3>2, <3>4 DEF Throw
  <2>3. CASE /\ inv' = [inv EXCEPT ![r][a] = [status |-> s, attempts |-> k]]
             /\ task' = [task EXCEPT ![r][a] = [pc |-> "done", attempt |-> k, result |-> s]]
    <3>1. /\ inv'[r][a] = [status |-> s, attempts |-> k]
          /\ \A x \in Rounds, y \in Members : ~(x = r /\ y = a) => inv'[x][y] = inv[x][y]
      BY <1>1, <2>3, Tables
    <3>2. /\ task'[r][a] = [pc |-> "done", attempt |-> k, result |-> s]
          /\ \A x \in Rounds, y \in Agents : ~(x = r /\ y = a) => task'[x][y] = task[x][y]
      BY <2>3, Tables
    <3>3. TaskCoherent(r, a)'
      BY <2>1, <3>1, <3>2 DEF TaskCoherent
    <3> QED
      BY <2>1, <3>1, <3>2, <3>3
  <2> QED
    BY <1>6, <2>2, <2>3 DEF FinishAgent
<1> QED
  BY <1>4, <1>5, <1>6 DEF AgentStep

LEMMA AgentKeepsMemory ==
  ASSUME MemoryInv, NEW r \in Rounds, NEW a \in Agents, AgentStep(r, a)
  PROVE  TailMatchesRows' /\ TaskMatchesRow' /\ NothingThrown'
<1> USE DEF MemoryInv
<1> DEFINE Effect ==
      /\ up /\ up' = up /\ rounds' = rounds /\ tail' = tail
      /\ task[r][a].pc \in {"queued", "spawned", "cancelled", "backoff"}
      /\ \A x \in Rounds, y \in Members : ~(x = r /\ y = a) => inv'[x][y] = inv[x][y]
      /\ \A x \in Rounds, y \in Agents : ~(x = r /\ y = a) => task'[x][y] = task[x][y]
      /\ task'[r][a].pc = "thrown" => StoreMayFail
      /\ TaskCoherent(r, a)'
<1>1. Effect
  BY AgentEffect
<1>2. tail[r] \notin {"none", "recording"} /\ rounds[r].state # "absent"
  BY <1>1 DEF TailMatchesRows, RoundCoherent, IdleTask
<1>3. a \in Members /\ a \notin Unavailable
  BY EngineAssumption DEF Members
<1>4. ASSUME NEW x \in Rounds
      PROVE  RoundCoherent(x)'
  <2>1. \A y \in Unavailable : inv'[x][y] = inv[x][y]
    BY <1>1, <1>3 DEF Members
  <2>2. CASE x = r
    BY <1>1, <1>2, <2>1, <2>2 DEF TailMatchesRows, RoundCoherent
  <2>3. CASE x # r
    <3>1. \A y \in Members : inv'[x][y] = inv[x][y]
      BY <1>1, <2>3
    <3>2. \A y \in Agents : task'[x][y] = task[x][y]
      BY <1>1, <2>3
    <3> QED
      BY <1>1, <3>1, <3>2 DEF TailMatchesRows, RoundCoherent, Members
  <2> QED
    BY <2>2, <2>3
<1>5. ASSUME NEW x \in Rounds, NEW y \in Agents
      PROVE  TaskCoherent(x, y)'
  <2>1. CASE x = r /\ y = a
    BY <1>1, <2>1
  <2>2. CASE ~(x = r /\ y = a)
    BY <1>1, <2>2 DEF TaskMatchesRow, TaskCoherent, Members
  <2> QED
    BY <2>1, <2>2
<1>6. NothingThrown'
  <2>1. ASSUME NEW x \in Rounds, NEW y \in Agents, ~StoreMayFail
        PROVE  task'[x][y].pc # "thrown"
    BY <1>1, <2>1 DEF NothingThrown
  <2> QED
    BY <1>1, <2>1 DEF NothingThrown
<1> QED
  BY <1>4, <1>5, <1>6 DEF TailMatchesRows, TaskMatchesRow

LEMMA CompleteKeepsMemory ==
  ASSUME MemoryInv, NEW r \in Rounds, CompleteRound(r)
  PROVE  TailMatchesRows' /\ TaskMatchesRow' /\ NothingThrown'
<1> USE DEF MemoryInv
<1>1. up /\ up' = up /\ inv' = inv /\ task' = task /\ tail[r] = "dispatched"
  BY DEF CompleteRound, DecideRound, FailRound, EventLoopFree
<1>2. \A x \in Rounds : x # r => rounds'[x] = rounds[x] /\ tail'[x] = tail[x]
  BY DEF CompleteRound, DecideRound, FailRound, CompleteWith, TypeOK
<1>3. /\ rounds'[r].state \in {"running", "complete"}
      /\ rounds'[r].state # "complete" => rounds'[r] = rounds[r]
  <2>1. rounds[r].state = "running" /\ rounds[r] \in RoundRow
    BY <1>1 DEF TailMatchesRows, RoundCoherent, TypeOK
  <2>2. \A v : [rounds[r] EXCEPT !.state = "complete", !.verdict = v].state = "complete"
    BY <2>1 DEF RoundRow
  <2>3. \/ rounds' = rounds
        \/ \E v : rounds'[r] = [rounds[r] EXCEPT !.state = "complete", !.verdict = v]
    BY DEF CompleteRound, DecideRound, FailRound, CompleteWith, TypeOK
  <2> QED
    BY <2>1, <2>2, <2>3
<1>4. /\ tail'[r] \in {"resolved", "rejected"}
      /\ ~StoreMayFail => tail'[r] = "resolved"
  BY DEF CompleteRound, DecideRound, FailRound, CompleteWith, TypeOK, NothingThrown
<1>5. ASSUME NEW x \in Rounds
      PROVE  RoundCoherent(x)'
  <2>1. CASE x = r
    BY <1>1, <1>3, <1>4, <2>1 DEF TailMatchesRows, RoundCoherent
  <2>2. CASE x # r
    BY <1>1, <1>2, <2>2 DEF TailMatchesRows, RoundCoherent
  <2> QED
    BY <2>1, <2>2
<1>6. TaskMatchesRow'
  BY <1>1 DEF TaskMatchesRow, TaskCoherent
<1>7. NothingThrown'
  BY <1>1, <1>2, <1>4 DEF NothingThrown
<1> QED
  BY <1>5, <1>6, <1>7 DEF TailMatchesRows

LEMMA CrashKeepsMemory ==
  ASSUME MemoryInv, Crash
  PROVE  TailMatchesRows' /\ TaskMatchesRow' /\ NothingThrown'
<1> USE DEF MemoryInv
<1>1. ~up' /\ rounds' = rounds /\ inv' = inv
  BY DEF Crash
<1>2. \A x \in Rounds : tail'[x] = "none" /\ \A a \in Agents : task'[x][a] = IdleTask
  BY DEF Crash
<1>3. TailMatchesRows'
  BY <1>1, <1>2 DEF TailMatchesRows, RoundCoherent
<1>4. TaskMatchesRow'
  BY <1>2 DEF TaskMatchesRow, TaskCoherent, IdleTask
<1>5. NothingThrown'
  BY <1>2 DEF NothingThrown, IdleTask
<1> QED
  BY <1>3, <1>4, <1>5

(* The reconciliation, row by row: a row in flight becomes interrupted, any *)
(* other is kept, and a round left running is complete.                    *)
LEMMA ReconcileEffect ==
  ASSUME MemoryInv, Reconcile
  PROVE  /\ ~up /\ up' /\ task' = task /\ tail' = tail
         /\ \A x \in Rounds : tail[x] = "none"
         /\ \A x \in Rounds, m \in Members :
              /\ inv'[x][m] = AfterInterrupt(x, m)
              /\ inv[x][m].status \in Terminal => inv'[x][m] = inv[x][m]
              /\ rounds[x].state = "absent" => inv'[x][m] = inv[x][m]
              /\ rounds[x].state # "absent" => inv'[x][m].status \in Terminal
              /\ inv'[x][m] = inv[x][m] \/ inv'[x][m].status = "interrupted"
         /\ \A x \in Rounds :
              /\ rounds[x].state # "running" => rounds'[x] = rounds[x]
              /\ rounds[x].state = "running" =>
                   rounds'[x] = [rounds[x] EXCEPT !.state = "complete",
                                                  !.verdict = RepairedVerdict(x)]
<1> USE DEF MemoryInv
<1>1. ~up /\ up' /\ task' = task /\ tail' = tail
  BY DEF Reconcile
<1>2. \A x \in Rounds : tail[x] = "none"
  BY <1>1 DEF TailMatchesRows, RoundCoherent
<1>3. ASSUME NEW x \in Rounds, NEW m \in Members
      PROVE  /\ inv'[x][m] = AfterInterrupt(x, m)
             /\ inv[x][m].status \in Terminal => inv'[x][m] = inv[x][m]
             /\ rounds[x].state = "absent" => inv'[x][m] = inv[x][m]
             /\ rounds[x].state # "absent" => inv'[x][m].status \in Terminal
             /\ inv'[x][m] = inv[x][m] \/ inv'[x][m].status = "interrupted"
  <2>1. inv'[x][m] = AfterInterrupt(x, m)
    BY DEF Reconcile
  <2>2. inv[x][m] \in InvocationRow
    BY Tables
  <2>3. inv[x][m].status \in InvocationStatus
    BY <2>2 DEF InvocationRow
  <2>4. [inv[x][m] EXCEPT !.status = "interrupted"].status = "interrupted"
    BY <2>2 DEF InvocationRow
  <2> QED
    BY <2>1, <2>3, <2>4 DEF AfterInterrupt, InFlight, Terminal, InvocationStatus, SettledStatus
<1>4. \A x \in Rounds :
        /\ rounds[x].state # "running" => rounds'[x] = rounds[x]
        /\ rounds[x].state = "running" =>
             rounds'[x] = [rounds[x] EXCEPT !.state = "complete", !.verdict = RepairedVerdict(x)]
  BY DEF Reconcile
<1> QED
  BY <1>1, <1>2, <1>3, <1>4

LEMMA ReconcileKeepsMemory ==
  ASSUME MemoryInv, Reconcile
  PROVE  TailMatchesRows' /\ TaskMatchesRow' /\ NothingThrown'
<1> USE DEF MemoryInv
<1>1. up' /\ task' = task /\ tail' = tail /\ \A x \in Rounds : tail[x] = "none"
  BY ReconcileEffect
<1>2. ASSUME NEW x \in Rounds
      PROVE  RoundCoherent(x)'
  <2>1. \A m \in Members : /\ inv'[x][m] = inv[x][m] \/ inv'[x][m].status = "interrupted"
                           /\ rounds[x].state = "absent" => inv'[x][m] = inv[x][m]
    BY ReconcileEffect
  <2>2. RoundCoherent(x)
    BY DEF TailMatchesRows
  <2>3. CASE rounds[x].state = "running"
    <3>1. rounds'[x] = [rounds[x] EXCEPT !.state = "complete", !.verdict = RepairedVerdict(x)]
      BY <2>3, ReconcileEffect
    <3>2. rounds[x] \in RoundRow
      BY DEF TypeOK
    <3>3. rounds'[x].state = "complete"
      BY <3>1, <3>2 DEF RoundRow
    <3> QED
      BY <1>1, <2>1, <2>2, <3>3 DEF RoundCoherent, Members
  <2>4. CASE rounds[x].state # "running"
    <3>1. rounds'[x] = rounds[x]
      BY <2>4, ReconcileEffect
    <3> QED
      BY <1>1, <2>1, <2>2, <3>1 DEF RoundCoherent, Members
  <2> QED
    BY <2>3, <2>4
<1>3. TaskMatchesRow'
  BY <1>1 DEF TailMatchesRows, RoundCoherent, TaskMatchesRow, TaskCoherent, IdleTask
<1>4. NothingThrown'
  BY <1>1 DEF NothingThrown
<1> QED
  BY <1>2, <1>3, <1>4 DEF TailMatchesRows

LEMMA MemoryStep ==
  ASSUME MemoryInv, [Next]_vars
  PROVE  MemoryInv'
<1>1. TypeOK'
  BY TypeStep DEF MemoryInv
<1>2. TailMatchesRows' /\ TaskMatchesRow' /\ NothingThrown'
  <2>1. ASSUME NEW r \in Rounds, CancelRound(r)
        PROVE  TailMatchesRows' /\ TaskMatchesRow' /\ NothingThrown'
    BY <2>1 DEF CancelRound, MemoryInv, TailMatchesRows, RoundCoherent, TaskMatchesRow,
                TaskCoherent, NothingThrown
  <2>2. CASE UNCHANGED vars
    BY <2>2 DEF vars, MemoryInv, TailMatchesRows, RoundCoherent, TaskMatchesRow,
                TaskCoherent, NothingThrown
  <2> QED
    BY <2>1, <2>2, StartKeepsMemory, RecordKeepsMemory, DispatchKeepsMemory, AgentKeepsMemory,
       CompleteKeepsMemory, CrashKeepsMemory, ReconcileKeepsMemory DEF Next, TailStep
<1> QED
  BY <1>1, <1>2 DEF MemoryInv

(* In every reachable state the engine's memory agrees with the tables.    *)
THEOREM MemoryMatchesTables == Spec => []MemoryInv
BY MemoryInit, MemoryStep, PTL DEF Spec

(***************************************************************************)
(* What is terminal is final.                                              *)
(***************************************************************************)
LEMMA FinalStep ==
  ASSUME MemoryInv, [Next]_vars
  PROVE  FinalKept
<1> USE DEF MemoryInv
<1>1. ASSUME NEW n \in Runs, NEW r \in Rounds, StartRound(n, r)
      PROVE  FinalKept
  <2>1. StartRoundWithPending(r, n)
    BY <1>1 DEF StartRound, OpenRun, DispatchRound
  <2>2. \A x \in Rounds : x # r => inv'[x] = inv[x] /\ rounds'[x] = rounds[x]
    BY <2>1 DEF StartRoundWithPending, TypeOK
  <2>3. rounds[r].state = "absent" /\ \A m \in Members : inv[r][m].status = "pending"
    BY <2>1 DEF StartRoundWithPending, TailMatchesRows, RoundCoherent, Placeholder
  <2> QED
    BY <2>2, <2>3 DEF FinalKept, Terminal, SettledStatus
<1>2. ASSUME NEW r \in Rounds, NEW m \in Unavailable, RecordUnavailable(r, m)
      PROVE  FinalKept
  <2>1. m \in Members /\ rounds' = rounds /\ inv[r][m].status = "pending"
    BY <1>2 DEF RecordUnavailable, Members
  <2>2. PICK row : inv' = [inv EXCEPT ![r][m] = row] \/ inv' = inv
    BY <1>2 DEF RecordUnavailable
  <2>3. \A x \in Rounds, y \in Members : ~(x = r /\ y = m) => inv'[x][y] = inv[x][y]
    BY <2>1, <2>2, Tables
  <2> QED
    BY <2>1, <2>3 DEF FinalKept, Terminal, SettledStatus
<1>3. ASSUME NEW r \in Rounds, NEW a \in Agents, AgentStep(r, a)
      PROVE  FinalKept
  <2>1. /\ rounds' = rounds
        /\ task[r][a].pc \in {"queued", "spawned", "cancelled", "backoff"}
        /\ \A x \in Rounds, y \in Members : ~(x = r /\ y = a) => inv'[x][y] = inv[x][y]
    BY <1>3, AgentEffect
  <2>2. inv[r][a].status \notin Terminal
    <3>1. TaskCoherent(r, a)
      BY DEF TaskMatchesRow
    <3>2. inv[r][a].status \in {"pending", "running"}
      BY <2>1, <3>1 DEF TaskCoherent, Placeholder
    <3> QED
      BY <3>2 DEF Terminal, SettledStatus
  <2> QED
    BY <2>1, <2>2 DEF FinalKept
<1>4. ASSUME NEW r \in Rounds, CompleteRound(r)
      PROVE  FinalKept
  <2>1. rounds[r].state = "running" /\ inv' = inv
    BY <1>4 DEF CompleteRound, DecideRound, FailRound, TailMatchesRows, RoundCoherent
  <2>2. \A x \in Rounds : x # r => rounds'[x] = rounds[x]
    BY <1>4 DEF CompleteRound, DecideRound, FailRound, CompleteWith, TypeOK
  <2> QED
    BY <2>1, <2>2 DEF FinalKept
<1>5. CASE Reconcile
  BY <1>5, ReconcileEffect DEF FinalKept
<1>6. ASSUME rounds' = rounds, inv' = inv
      PROVE  FinalKept
  BY <1>6 DEF FinalKept
<1> QED
  <2>1. ASSUME NEW r \in Rounds, DispatchAgents(r) \/ CancelRound(r)
        PROVE  FinalKept
    BY <1>6, <2>1 DEF DispatchAgents, CancelRound
  <2>2. CASE Crash \/ UNCHANGED vars
    BY <1>6, <2>2 DEF Crash, vars
  <2> QED
    BY <1>1, <1>2, <1>3, <1>4, <1>5, <2>1, <2>2 DEF Next, TailStep

(* No step rewrites a terminal invocation or the verdict of a complete     *)
(* round, also when writes fail and across crashes.                        *)
THEOREM TerminalStaysFinal == Spec => TerminalIsFinal
<1>1. MemoryInv /\ [Next]_vars => [FinalKept]_vars
  BY FinalStep
<1> QED
  BY <1>1, MemoryMatchesTables, PTL DEF Spec, TerminalIsFinal

(***************************************************************************)
(* Verdicts.                                                               *)
(***************************************************************************)

(* computeVerdict says met exactly when the ok members reach the quorum.   *)
LEMMA MetMeansQuorum ==
  ASSUME NEW status, ComputeVerdict(status, Quorum) = "met"
  PROVE  Cardinality(OkMembers(status)) >= Quorum
BY DEF ComputeVerdict

(* The ok agents of a round only increase.                                 *)
LEMMA OkAgentsGrow ==
  ASSUME MemoryInv, [Next]_vars, NEW r \in Rounds
  PROVE  /\ OkAgents(r) \subseteq OkAgents(r)'
         /\ Cardinality(OkAgents(r)) \in Nat
         /\ Cardinality(OkAgents(r)') \in Nat
         /\ Cardinality(OkAgents(r)) <= Cardinality(OkAgents(r)')
<1>1. OkAgents(r) \subseteq OkAgents(r)'
  BY FinalStep DEF FinalKept, OkAgents, Members, Terminal, SettledStatus
<1>2. IsFiniteSet(OkAgents(r)) /\ IsFiniteSet(OkAgents(r)')
  BY EngineAssumption, FS_Subset DEF OkAgents
<1> QED
  BY <1>1, <1>2, FS_Subset, FS_CardinalityType

LEMMA NoFalseMetStep ==
  ASSUME MemoryInv, NoFalseMet, [Next]_vars
  PROVE  NoFalseMet'
<1> SUFFICES ASSUME NEW r \in Rounds, rounds'[r].verdict = "met"
             PROVE  Cardinality(OkAgents(r)') >= Quorum
  BY DEF NoFalseMet
<1>1. CASE rounds'[r] = rounds[r]
  BY <1>1, OkAgentsGrow, EngineAssumption DEF NoFalseMet
<1>2. CASE CompleteRound(r) /\ DecideRound(r)
  <2>1. ComputeVerdict(Records(r), Quorum) = "met"
    <3>1. rounds[r] \in RoundRow /\ rounds[r].verdict # "met" /\ rounds[r].state = "running"
      BY <1>2, EngineAssumption
         DEF CompleteRound, DecideRound, MemoryInv, TypeOK, TailMatchesRows, RoundCoherent, QuorumVerdict
    <3>2. \/ rounds'[r] = rounds[r]
          \/ rounds'[r] = [rounds[r] EXCEPT !.state = "complete",
                                           !.verdict = ComputeVerdict(Records(r), Quorum)]
      BY <1>2 DEF CompleteRound, DecideRound, CompleteWith, MemoryInv, TypeOK
    <3> QED
      BY <3>1, <3>2 DEF RoundRow
  <2>2. OkMembers(Records(r)) = OkAgents(r)'
    <3>1. ASSUME NEW a \in Agents
          PROVE  task[r][a].result = inv'[r][a].status
      <4>1. TaskCoherent(r, a) /\ task[r][a].pc = "done" /\ inv' = inv
        BY <1>2 DEF CompleteRound, DecideRound, AllSettled, MemoryInv, TaskMatchesRow
      <4> QED
        BY <4>1 DEF TaskCoherent
    <3> QED
      BY <3>1 DEF OkMembers, Records, OkAgents, Members
  <2> QED
    BY <2>1, <2>2, MetMeansQuorum
<1>3. CASE CompleteRound(r) /\ FailRound(r)
  <2>1. rounds[r] \in RoundRow /\ rounds[r].verdict # "met"
    BY <1>3, EngineAssumption
       DEF CompleteRound, FailRound, MemoryInv, TypeOK, TailMatchesRows, RoundCoherent, QuorumVerdict
  <2>2. \/ rounds'[r] = rounds[r]
        \/ rounds'[r] = [rounds[r] EXCEPT !.state = "complete", !.verdict = "failed"]
    BY <1>3 DEF CompleteRound, FailRound, CompleteWith, MemoryInv, TypeOK
  <2> QED
    BY <2>1, <2>2 DEF RoundRow
<1>4. CASE Reconcile
  <2>1. CASE rounds[r].state # "running"
    BY <1>1, <1>4, <2>1, ReconcileEffect
  <2>2. CASE rounds[r].state = "running"
    <3>1. rounds'[r] = [rounds[r] EXCEPT !.state = "complete", !.verdict = RepairedVerdict(r)]
      BY <1>4, <2>2, ReconcileEffect
    <3>2. rounds[r] \in RoundRow
      BY DEF MemoryInv, TypeOK
    <3>3. RepairedVerdict(r) = "met"
      BY <3>1, <3>2 DEF RoundRow
    <3> DEFINE after == [m \in Members |-> AfterInterrupt(r, m).status]
    <3>4. \A m \in Members : after[m] = inv'[r][m].status
      BY <1>4, ReconcileEffect
    <3>5. \A m \in Unavailable : inv'[r][m].status # "ok"
      BY <1>4, MemoryStep DEF MemoryInv, TailMatchesRows, RoundCoherent
    <3>6. OkMembers(after) = OkAgents(r)'
      BY <3>4, <3>5 DEF OkMembers, OkAgents, Members
    <3> QED
      BY <3>3, <3>6, MetMeansQuorum DEF RepairedVerdict
  <2> QED
    BY <2>1, <2>2
<1>5. ASSUME NEW n \in Runs, NEW x \in Rounds, StartRound(n, x)
      PROVE  rounds'[r] = rounds[r]
  <2>1. rounds' = [rounds EXCEPT ![x] = [run |-> n, index |-> CountRounds(n),
                                         state |-> "running", verdict |-> None]]
    BY <1>5 DEF StartRound, StartRoundWithPending
  <2>2. None # "met"
    BY EngineAssumption DEF QuorumVerdict
  <2> QED
    BY <2>1, <2>2 DEF MemoryInv, TypeOK
<1>6. ASSUME NEW x \in Rounds, x # r, CompleteRound(x)
      PROVE  rounds'[r] = rounds[r]
  BY <1>6 DEF CompleteRound, DecideRound, FailRound, CompleteWith, MemoryInv, TypeOK
<1>7. ASSUME NEW x \in Rounds, NEW a \in Agents, AgentStep(x, a)
      PROVE  rounds'[r] = rounds[r]
  BY <1>7, AgentEffect
<1>8. ASSUME NEW x \in Rounds,
             \/ \E m \in Unavailable : RecordUnavailable(x, m)
             \/ DispatchAgents(x)
             \/ CancelRound(x)
      PROVE  rounds'[r] = rounds[r]
  BY <1>8 DEF RecordUnavailable, DispatchAgents, CancelRound
<1>9. CASE Crash \/ UNCHANGED vars
  BY <1>1, <1>9 DEF Crash, vars
<1>10. CompleteRound(r) => DecideRound(r) \/ FailRound(r)
  BY DEF CompleteRound
<1> QED
  BY <1>1, <1>2, <1>3, <1>4, <1>5, <1>6, <1>7, <1>8, <1>9, <1>10 DEF Next, TailStep

(* A met verdict always rests on a quorum of stored ok answers from        *)
(* resolvable agents.                                                      *)
THEOREM MetIsEarned == Spec => []NoFalseMet
<1>1. Init => NoFalseMet
  BY EngineAssumption DEF Init, NoFalseMet, NoRound, QuorumVerdict
<1> QED
  BY <1>1, NoFalseMetStep, MemoryMatchesTables, PTL DEF Spec

(* A step that completes a round is the normal completion, the catch block *)
(* after a failed write, or the reconciliation.                            *)
LEMMA WhoCompletes ==
  ASSUME MemoryInv, [Next]_vars, NEW r \in Rounds,
         rounds[r].state # "complete", rounds'[r].state = "complete"
  PROVE  CompleteRound(r) \/ Reconcile
<1>1. ASSUME NEW n \in Runs, NEW x \in Rounds, StartRound(n, x)
      PROVE  FALSE
  <2>1. rounds' = [rounds EXCEPT ![x] = [run |-> n, index |-> CountRounds(n),
                                         state |-> "running", verdict |-> None]]
    BY <1>1 DEF StartRound, StartRoundWithPending
  <2> QED
    BY <2>1 DEF MemoryInv, TypeOK
<1>2. ASSUME NEW x \in Rounds, x # r, CompleteRound(x)
      PROVE  FALSE
  BY <1>2 DEF CompleteRound, DecideRound, FailRound, CompleteWith, MemoryInv, TypeOK
<1>3. ASSUME NEW x \in Rounds, NEW a \in Agents, AgentStep(x, a)
      PROVE  FALSE
  BY <1>3, AgentEffect
<1>4. ASSUME NEW x \in Rounds,
             \/ \E m \in Unavailable : RecordUnavailable(x, m)
             \/ DispatchAgents(x)
             \/ CancelRound(x)
      PROVE  FALSE
  BY <1>4 DEF RecordUnavailable, DispatchAgents, CancelRound
<1>5. CASE Crash \/ UNCHANGED vars
  BY <1>5 DEF Crash, vars
<1> QED
  BY <1>1, <1>2, <1>3, <1>4, <1>5 DEF Next, TailStep

LEMMA VerdictHonestStep ==
  ASSUME MemoryInv, VerdictHonest, [Next]_vars, ~StoreMayFail
  PROVE  VerdictHonest'
<1> SUFFICES ASSUME NEW r \in Rounds, rounds'[r].state = "complete"
             PROVE  /\ \A m \in Members : inv'[r][m].status \in Terminal
                    /\ rounds'[r].verdict = ComputeVerdict(Statuses(r)', Quorum)
  BY DEF VerdictHonest
<1>1. CASE rounds[r].state = "complete"
  <2>1. rounds'[r] = rounds[r] /\ \A m \in Members : inv'[r][m] = inv[r][m]
    BY <1>1, FinalStep DEF FinalKept, VerdictHonest
  <2>2. Statuses(r)' = Statuses(r)
    BY <2>1 DEF Statuses
  <2> QED
    BY <1>1, <2>1, <2>2 DEF VerdictHonest
<1>2. ~FailRound(r)
  BY DEF FailRound, MemoryInv, NothingThrown
<1>3. CASE rounds[r].state # "complete" /\ CompleteRound(r)
  <2>1. rounds[r] \in RoundRow
    BY DEF MemoryInv, TypeOK
  <2>2. rounds'[r] = [rounds[r] EXCEPT !.state = "complete",
                                     !.verdict = ComputeVerdict(Records(r), Quorum)]
    BY <1>2, <1>3 DEF CompleteRound, DecideRound, CompleteWith, MemoryInv, TypeOK
  <2>3. ASSUME NEW a \in Agents
        PROVE  Records(r)[a] = inv'[r][a].status /\ inv'[r][a].status \in Terminal
    <3>1. TaskCoherent(r, a) /\ task[r][a].pc = "done" /\ inv' = inv /\ a \in Members
      BY <1>2, <1>3 DEF CompleteRound, DecideRound, AllSettled, MemoryInv, TaskMatchesRow, Members
    <3> QED
      BY <3>1 DEF TaskCoherent, Records, Terminal
  <2>4. ASSUME NEW m \in Unavailable
        PROVE  Records(r)[m] = inv'[r][m].status /\ inv'[r][m].status \in Terminal
    <3>1. m \in Members /\ m \notin Agents /\ inv' = inv /\ inv[r][m].status = "unavailable"
      BY <1>3, EngineAssumption
         DEF CompleteRound, DecideRound, MemoryInv, TailMatchesRows, RoundCoherent, Members
    <3> QED
      BY <3>1 DEF Records, Terminal, SettledStatus
  <2>5. Records(r) = Statuses(r)'
    BY <2>3, <2>4 DEF Records, Statuses, Members
  <2>6. rounds'[r].verdict = ComputeVerdict(Records(r), Quorum)
    BY <2>1, <2>2 DEF RoundRow
  <2> QED
    BY <2>3, <2>4, <2>5, <2>6 DEF Members
<1>4. CASE rounds[r].state # "complete" /\ Reconcile
  <2>1. rounds[r] \in RoundRow
    BY DEF MemoryInv, TypeOK
  <2>2. rounds[r].state = "running"
    BY <1>4, <2>1, ReconcileEffect DEF RoundRow
  <2>3. rounds'[r] = [rounds[r] EXCEPT !.state = "complete", !.verdict = RepairedVerdict(r)]
    BY <1>4, <2>2, ReconcileEffect
  <2>4. rounds'[r].verdict = RepairedVerdict(r)
    BY <2>1, <2>3 DEF RoundRow
  <2>5. \A m \in Members : /\ inv'[r][m].status \in Terminal
                           /\ inv'[r][m] = AfterInterrupt(r, m)
    BY <1>4, <2>2, ReconcileEffect
  <2>6. Statuses(r)' = [m \in Members |-> AfterInterrupt(r, m).status]
    BY <2>5 DEF Statuses
  <2> QED
    BY <2>4, <2>5, <2>6 DEF RepairedVerdict
<1> QED
  BY <1>1, <1>3, <1>4, WhoCompletes

(* While writes do not fail, a complete round has only terminal members    *)
(* and the quorum verdict over their stored statuses.                      *)
THEOREM VerdictsAreHonest ==
  ASSUME ~StoreMayFail
  PROVE  Spec => []VerdictHonest
<1>1. Init => VerdictHonest
  BY DEF Init, VerdictHonest, NoRound
<1>2. MemoryInv /\ VerdictHonest /\ [Next]_vars => VerdictHonest'
  BY VerdictHonestStep
<1> QED
  BY <1>1, <1>2, MemoryMatchesTables, PTL DEF Spec

(***************************************************************************)
(* The refinement of RoundPromise, as long as writes succeed. Its mapping  *)
(* is the one of KeepsPromise; these are the abstract variables.           *)
(***************************************************************************)
AbsOpened == {r \in Rounds : rounds[r].state # "absent"}

OutcomeOf(r, m) == IF inv[r][m].status \in Terminal THEN inv[r][m].status ELSE None

AbsOutcome == [r \in Rounds |-> [m \in Members |-> OutcomeOf(r, m)]]

AbsVerdict == [r \in Rounds |-> rounds[r].verdict]

(* What the refinement rests on: a round is undecided exactly while its row *)
(* says running, and a complete one has all its outcomes.                  *)
RefinementInv == MemoryInv /\ VerdictHonest

LEMMA UndecidedIsRunning ==
  ASSUME RefinementInv, NEW r \in Rounds
  PROVE  r \in Promise!Undecided <=> rounds[r].state = "running"
<1>1. rounds[r].state \in {"absent", "running", "complete"}
  BY DEF RefinementInv, MemoryInv, TypeOK, RoundRow
<1>2. rounds[r].state = "running" => rounds[r].verdict = None
  BY DEF RefinementInv, MemoryInv, TailMatchesRows, RoundCoherent
<1>3. rounds[r].state = "complete" => rounds[r].verdict # None
  BY VerdictType, EngineAssumption DEF RefinementInv, VerdictHonest
<1> QED
  BY <1>1, <1>2, <1>3 DEF Promise!Undecided

(* A step that changes neither an outcome nor a verdict is a stutter.      *)
LEMMA Stutter ==
  ASSUME \A r \in Rounds : /\ rounds'[r].state # "absent" <=> rounds[r].state # "absent"
                           /\ rounds'[r].verdict = rounds[r].verdict
                           /\ \A m \in Members : OutcomeOf(r, m)' = OutcomeOf(r, m)
  PROVE  UNCHANGED Promise!vars
<1>1. AbsOpened' = AbsOpened
  BY DEF AbsOpened
<1>2. AbsOutcome' = AbsOutcome
  BY DEF AbsOutcome
<1>3. AbsVerdict' = AbsVerdict
  BY DEF AbsVerdict
<1> QED
  BY <1>1, <1>2, <1>3 DEF Promise!vars, AbsOpened, AbsOutcome, AbsVerdict, OutcomeOf

(* A step that gives one member of an undecided round its outcome.         *)
LEMMA Settles ==
  ASSUME RefinementInv, NEW r \in Rounds, NEW m \in Members, NEW s \in SettledStatus,
         rounds' = rounds, rounds[r].state = "running",
         inv[r][m].status \notin Terminal,
         inv'[r][m].status = s,
         \A x \in Rounds, y \in Members : ~(x = r /\ y = m) => inv'[x][y] = inv[x][y]
  PROVE  Promise!Settle(r, m)
<1>1. r \in Promise!Undecided
  BY UndecidedIsRunning
<1>2. OutcomeOf(r, m) = None
  BY DEF OutcomeOf
<1>3. AbsOutcome' = [AbsOutcome EXCEPT ![r][m] = s]
  <2>1. OutcomeOf(r, m)' = s
    BY DEF OutcomeOf, Terminal
  <2>2. \A x \in Rounds, y \in Members : ~(x = r /\ y = m) => OutcomeOf(x, y)' = OutcomeOf(x, y)
    BY DEF OutcomeOf
  <2> DEFINE row == [y \in Members |-> OutcomeOf(r, y)']
  <2>3. AbsOutcome \in [Rounds -> [Members -> SettledStatus \cup Terminal \cup {None}]]
    BY DEF AbsOutcome, OutcomeOf
  <2>4. row = [AbsOutcome[r] EXCEPT ![m] = s]
    BY <2>1, <2>2 DEF AbsOutcome
  <2>5. AbsOutcome'[r] = row
    BY DEF AbsOutcome
  <2>6. \A x \in Rounds : x # r => AbsOutcome'[x] = AbsOutcome[x]
    BY <2>2 DEF AbsOutcome
  <2>7. AbsOutcome' = [x \in Rounds |-> AbsOutcome'[x]] /\ AbsOutcome = [x \in Rounds |-> AbsOutcome[x]]
    BY DEF AbsOutcome
  <2> HIDE DEF row
  <2> QED
    BY <2>4, <2>5, <2>6, <2>7
<1>4. AbsOpened' = AbsOpened /\ AbsVerdict' = AbsVerdict
  BY DEF AbsOpened, AbsVerdict
<1>5. AbsOutcome[r][m] = None
  BY <1>2 DEF AbsOutcome
<1> QED
  <2>1. Promise!Settle(r, m) <=>
          /\ r \in Promise!Undecided
          /\ AbsOutcome[r][m] = None
          /\ \E s1 \in Promise!SettledStatus : AbsOutcome' = [AbsOutcome EXCEPT ![r][m] = s1]
          /\ AbsOpened' = AbsOpened /\ AbsVerdict' = AbsVerdict
    BY DEF Promise!Settle, AbsOpened, AbsOutcome, OutcomeOf, AbsVerdict
  <2> QED
    BY <1>1, <1>3, <1>4, <1>5, <2>1 DEF Promise!SettledStatus, SettledStatus

(* The abstract module has the same vocabulary.                            *)
LEMMA SameVocabulary ==
  /\ Promise!SettledStatus = SettledStatus
  /\ \A status, q : Promise!ComputeVerdict(status, q) = ComputeVerdict(status, q)
<1>1. \A status : Promise!OkMembers(status) = OkMembers(status)
  BY DEF Promise!OkMembers, OkMembers
<1>2. \A S : Promise!Cardinality(S) = Cardinality(S)
  BY DEF Promise!Cardinality, Cardinality
<1>3. \A status, q : Promise!ComputeVerdict(status, q) = ComputeVerdict(status, q)
  BY <1>1, <1>2 DEF Promise!ComputeVerdict, ComputeVerdict
<1> QED
  BY <1>3 DEF Promise!SettledStatus, SettledStatus

(* openRun and dispatchRound open a round, none of whose members has an    *)
(* outcome yet.                                                            *)
LEMMA Opens ==
  ASSUME RefinementInv, NEW n \in Runs, NEW r \in Rounds, StartRound(n, r)
  PROVE  Promise!Open(r)
<1>1. StartRoundWithPending(r, n)
  BY DEF StartRound, OpenRun, DispatchRound
<1>2. /\ rounds \in [Rounds -> RoundRow]
      /\ inv \in [Rounds -> [Members -> InvocationRow]]
      /\ rounds[r].state = "absent"
  BY <1>1 DEF RefinementInv, MemoryInv, TypeOK, StartRoundWithPending
<1>3. rounds[r].verdict = None /\ \A m \in Members : inv[r][m] = Placeholder
  BY <1>2 DEF RefinementInv, MemoryInv, TailMatchesRows, RoundCoherent, NoRound
<1>4. /\ rounds'[r].state = "running" /\ rounds'[r].verdict = None
      /\ \A x \in Rounds : x # r => rounds'[x] = rounds[x]
  BY <1>1, <1>2 DEF StartRoundWithPending
<1>5. \A x \in Rounds, m \in Members : inv'[x][m] = inv[x][m]
  BY <1>1, <1>2, <1>3 DEF StartRoundWithPending
<1>6. r \notin AbsOpened /\ AbsOpened' = AbsOpened \cup {r}
  BY <1>2, <1>4 DEF AbsOpened
<1>7. AbsOutcome' = AbsOutcome
  BY <1>5 DEF AbsOutcome, OutcomeOf
<1>8. AbsVerdict' = AbsVerdict
  <2>1. \A x \in Rounds : rounds'[x].verdict = rounds[x].verdict
    BY <1>3, <1>4
  <2> QED
    BY <2>1 DEF AbsVerdict
<1>9. Promise!Open(r) <=> /\ r \notin AbsOpened /\ AbsOpened' = AbsOpened \cup {r}
                          /\ AbsOutcome' = AbsOutcome /\ AbsVerdict' = AbsVerdict
  BY DEF Promise!Open, AbsOpened, AbsOutcome, OutcomeOf, AbsVerdict
<1> QED
  BY <1>6, <1>7, <1>8, <1>9

(* recordUnavailable settles a member.                                     *)
LEMMA RecordSettles ==
  ASSUME RefinementInv, ~StoreMayFail, NEW r \in Rounds, NEW m \in Unavailable,
         RecordUnavailable(r, m)
  PROVE  Promise!Settle(r, m)
<1>1. m \in Members /\ rounds' = rounds /\ tail[r] = "recording" /\ inv[r][m].status = "pending"
  BY DEF RecordUnavailable, Members
<1>2. inv' = [inv EXCEPT ![r][m] = [status |-> "unavailable", attempts |-> 0]]
  BY DEF RecordUnavailable
<1>3. /\ inv'[r][m] = [status |-> "unavailable", attempts |-> 0]
      /\ \A x \in Rounds, y \in Members : ~(x = r /\ y = m) => inv'[x][y] = inv[x][y]
  BY <1>1, <1>2, Tables DEF RefinementInv, MemoryInv
<1>4. rounds[r].state = "running"
  BY <1>1 DEF RefinementInv, MemoryInv, TailMatchesRows, RoundCoherent
<1>5. inv[r][m].status \notin Terminal /\ "unavailable" \in SettledStatus
  BY <1>1 DEF Terminal, SettledStatus
<1> QED
  BY <1>1, <1>3, <1>4, <1>5, Settles

(* A step of executeAgent settles its member or is not seen.               *)
LEMMA AgentSettles ==
  ASSUME RefinementInv, ~StoreMayFail, NEW r \in Rounds, NEW a \in Agents, AgentStep(r, a)
  PROVE  Promise!Settle(r, a) \/ UNCHANGED Promise!vars
<1>1. /\ rounds' = rounds
      /\ task[r][a].pc \in {"queued", "spawned", "cancelled", "backoff"}
      /\ \A x \in Rounds, y \in Members : ~(x = r /\ y = a) => inv'[x][y] = inv[x][y]
      /\ TaskCoherent(r, a)' /\ task'[r][a].pc # "thrown"
  BY AgentEffect DEF RefinementInv
<1>2. a \in Members
  BY DEF Members
<1>3. inv[r][a].status \in {"pending", "running"}
  <2>1. TaskCoherent(r, a)
    BY DEF RefinementInv, MemoryInv, TaskMatchesRow
  <2> QED
    BY <1>1, <2>1 DEF TaskCoherent, Placeholder
<1>4. inv[r][a].status \notin Terminal
  BY <1>3 DEF Terminal, SettledStatus
<1>5. rounds[r].state = "running"
  <2>1. tail[r] \in {"dispatched", "resolved", "rejected"}
    BY <1>1 DEF RefinementInv, MemoryInv, TypeOK, TailState, TailMatchesRows, RoundCoherent, IdleTask
  <2>2. rounds[r].state # "absent"
    BY <2>1 DEF RefinementInv, MemoryInv, TailMatchesRows, RoundCoherent
  <2>3. rounds[r].state # "complete"
    BY <1>2, <1>4 DEF RefinementInv, VerdictHonest
  <2> QED
    BY <2>2, <2>3 DEF RefinementInv, MemoryInv, TypeOK, RoundRow
<1>6. CASE inv'[r][a].status \in SettledStatus
  BY <1>1, <1>2, <1>4, <1>5, <1>6, Settles
<1>7. CASE inv'[r][a].status \notin Terminal
  <2>1. \A x \in Rounds, y \in Members : OutcomeOf(x, y)' = OutcomeOf(x, y)
    BY <1>1, <1>4, <1>7 DEF OutcomeOf
  <2> QED
    BY <1>1, <2>1, Stutter
<1>8. inv'[r][a].status # "interrupted"
  <2>1. CASE \E s \in Outcomes : FinishAgent(r, a, s)
    <3>1. PICK s \in Outcomes : FinishAgent(r, a, s)
      BY <2>1
    <3>2. inv' = [inv EXCEPT ![r][a] = [status |-> s, attempts |-> task[r][a].attempt]] /\ s \in SettledStatus
      BY <3>1, EngineAssumption DEF FinishAgent, Throw
    <3>3. inv'[r][a] = [status |-> s, attempts |-> task[r][a].attempt]
      BY <1>2, <3>2, Tables DEF RefinementInv, MemoryInv
    <3> QED
      BY <3>2, <3>3 DEF SettledStatus
  <2>2. CASE StartAttempt(r, a)
    <3>1. inv' = [inv EXCEPT ![r][a] = [status |-> "running", attempts |-> task[r][a].attempt + 1]]
      BY <2>2 DEF StartAttempt, Throw
    <3>2. inv'[r][a] = [status |-> "running", attempts |-> task[r][a].attempt + 1]
      BY <1>2, <3>1, Tables DEF RefinementInv, MemoryInv
    <3> QED
      BY <3>2
  <2>3. CASE RetryLater(r, a)
    BY <1>3, <2>3 DEF RetryLater
  <2> QED
    BY <2>1, <2>2, <2>3 DEF AgentStep
<1> QED
  BY <1>6, <1>7, <1>8 DEF Terminal

(* The normal completion decides the round from all its outcomes.          *)
LEMMA CompletionDecides ==
  ASSUME RefinementInv, ~StoreMayFail, NEW r \in Rounds, CompleteRound(r)
  PROVE  Promise!Decide(r)
<1>1. /\ inv' = inv /\ tail[r] = "dispatched" /\ AllSettled(r)
      /\ rounds' = [rounds EXCEPT ![r].state = "complete",
                                  ![r].verdict = ComputeVerdict(Records(r), Quorum)]
  <2>1. ~FailRound(r)
    BY DEF FailRound, RefinementInv, MemoryInv, NothingThrown
  <2> QED
    BY <2>1 DEF CompleteRound, DecideRound, CompleteWith
<1>2. rounds \in [Rounds -> RoundRow] /\ rounds[r] \in RoundRow /\ rounds[r].state = "running"
  BY <1>1 DEF RefinementInv, MemoryInv, TypeOK, TailMatchesRows, RoundCoherent
<1>3. /\ rounds'[r] = [rounds[r] EXCEPT !.state = "complete",
                                        !.verdict = ComputeVerdict(Records(r), Quorum)]
      /\ \A x \in Rounds : x # r => rounds'[x] = rounds[x]
  BY <1>1, <1>2
<1>4. rounds'[r].state = "complete" /\ rounds'[r].verdict = ComputeVerdict(Records(r), Quorum)
  BY <1>2, <1>3 DEF RoundRow
<1>5. ASSUME NEW m \in Members
      PROVE  Records(r)[m] = OutcomeOf(r, m) /\ OutcomeOf(r, m) # None
  <2>1. CASE m \in Agents
    <3>1. TaskCoherent(r, m) /\ task[r][m].pc = "done"
      BY <1>1, <2>1 DEF AllSettled, RefinementInv, MemoryInv, TaskMatchesRow
    <3> QED
      BY <2>1, <3>1, EngineAssumption DEF TaskCoherent, Records, OutcomeOf, Terminal
  <2>2. CASE m \notin Agents
    <3>1. inv[r][m].status = "unavailable"
      BY <1>1, <2>2 DEF RefinementInv, MemoryInv, TailMatchesRows, RoundCoherent, Members
    <3> QED
      BY <2>2, <3>1, EngineAssumption DEF Records, OutcomeOf, Terminal, SettledStatus
  <2> QED
    BY <2>1, <2>2
<1>6. AbsOutcome[r] = Records(r) /\ \A m \in Members : AbsOutcome[r][m] # None
  BY <1>5 DEF AbsOutcome, Records
<1>7. AbsVerdict' = [AbsVerdict EXCEPT ![r] = Promise!ComputeVerdict(AbsOutcome[r], Quorum)]
  BY <1>3, <1>4, <1>6, SameVocabulary DEF AbsVerdict
<1>8. AbsOpened' = AbsOpened
  BY <1>2, <1>3, <1>4 DEF AbsOpened
<1>9. AbsOutcome' = AbsOutcome
  BY <1>1 DEF AbsOutcome, OutcomeOf
<1>10. r \in Promise!Undecided
  BY <1>2, UndecidedIsRunning
<1>11. Promise!Decide(r) <=>
         /\ r \in Promise!Undecided
         /\ \A m \in Members : AbsOutcome[r][m] # None
         /\ AbsVerdict' = [AbsVerdict EXCEPT ![r] = Promise!ComputeVerdict(AbsOutcome[r], Quorum)]
         /\ AbsOpened' = AbsOpened /\ AbsOutcome' = AbsOutcome
  BY DEF Promise!Decide, AbsOpened, AbsOutcome, OutcomeOf, AbsVerdict
<1> QED
  BY <1>6, <1>7, <1>8, <1>9, <1>10, <1>11

(* The reconciliation is the restart of the promise.                       *)
LEMMA ReconcileRestarts ==
  ASSUME RefinementInv, Reconcile
  PROVE  Promise!Restart
<1>1. MemoryInv /\ rounds \in [Rounds -> RoundRow] /\ inv \in [Rounds -> [Members -> InvocationRow]]
  BY DEF RefinementInv, MemoryInv, TypeOK
<1>2. AbsOpened' = AbsOpened
  <2>1. ASSUME NEW r \in Rounds
        PROVE  rounds'[r].state # "absent" <=> rounds[r].state # "absent"
    BY <1>1, ReconcileEffect DEF RoundRow
  <2> QED
    BY <2>1 DEF AbsOpened
<1>3. ASSUME NEW r \in Rounds, NEW m \in Members
      PROVE  AbsOutcome'[r][m] = IF r \in Promise!Undecided /\ AbsOutcome[r][m] = None
                                 THEN "interrupted" ELSE AbsOutcome[r][m]
  <2>1. /\ AbsOutcome'[r][m] = OutcomeOf(r, m)'
        /\ AbsOutcome[r][m] = OutcomeOf(r, m)
    BY DEF AbsOutcome
  <2>2. CASE rounds[r].state = "running"
    <3>1. r \in Promise!Undecided /\ inv'[r][m].status \in Terminal
      BY <1>1, <2>2, UndecidedIsRunning, ReconcileEffect
    <3>2. CASE inv[r][m].status \in Terminal
      <4>1. inv'[r][m] = inv[r][m]
        BY <1>1, <3>2, ReconcileEffect
      <4>2. OutcomeOf(r, m)' = OutcomeOf(r, m)
        BY <4>1 DEF OutcomeOf
      <4>3. OutcomeOf(r, m) = None => OutcomeOf(r, m) = "interrupted"
        BY <3>2, EngineAssumption DEF OutcomeOf, Terminal
      <4> QED
        BY <2>1, <3>1, <4>2, <4>3
    <3>3. CASE inv[r][m].status \notin Terminal
      <4>1. inv'[r][m].status = "interrupted"
        BY <1>1, <3>1, <3>3, ReconcileEffect
      <4>2. OutcomeOf(r, m) = None /\ OutcomeOf(r, m)' = "interrupted"
        BY <3>3, <4>1 DEF OutcomeOf, Terminal
      <4> QED
        BY <2>1, <3>1, <4>2
    <3> QED
      BY <3>2, <3>3
  <2>3. CASE rounds[r].state # "running"
    <3>1. r \notin Promise!Undecided
      BY <2>3, UndecidedIsRunning
    <3>2. inv'[r][m] = inv[r][m]
      <4>1. CASE rounds[r].state = "absent"
        BY <1>1, <4>1, ReconcileEffect
      <4>2. CASE rounds[r].state = "complete"
        BY <1>1, <4>2, ReconcileEffect DEF RefinementInv, VerdictHonest
      <4> QED
        BY <1>1, <2>3, <4>1, <4>2 DEF RoundRow
    <3>3. OutcomeOf(r, m)' = OutcomeOf(r, m)
      BY <3>2 DEF OutcomeOf
    <3> QED
      BY <2>1, <3>1, <3>3
  <2> QED
    BY <2>2, <2>3
<1>4. ASSUME NEW r \in Rounds
      PROVE  AbsVerdict'[r] = IF r \in Promise!Undecided
                              THEN Promise!ComputeVerdict(AbsOutcome'[r], Quorum)
                              ELSE AbsVerdict[r]
  <2>1. CASE rounds[r].state = "running"
    <3>1. rounds'[r] = [rounds[r] EXCEPT !.state = "complete", !.verdict = RepairedVerdict(r)]
      BY <1>1, <2>1, ReconcileEffect
    <3>2. rounds'[r].verdict = RepairedVerdict(r)
      BY <1>1, <3>1 DEF RoundRow
    <3>3. \A m \in Members : OutcomeOf(r, m)' = AfterInterrupt(r, m).status
      BY <1>1, <2>1, ReconcileEffect DEF OutcomeOf
    <3>4. AbsOutcome'[r] = [m \in Members |-> AfterInterrupt(r, m).status]
      BY <3>3 DEF AbsOutcome
    <3>5. Promise!ComputeVerdict(AbsOutcome'[r], Quorum) = RepairedVerdict(r)
      BY <3>4, SameVocabulary DEF RepairedVerdict
    <3> QED
      BY <2>1, <3>2, <3>5, UndecidedIsRunning DEF AbsVerdict
  <2>2. CASE rounds[r].state # "running"
    <3>1. rounds'[r] = rounds[r]
      BY <1>1, <2>2, ReconcileEffect
    <3> QED
      BY <2>2, <3>1, UndecidedIsRunning DEF AbsVerdict
  <2> QED
    BY <2>1, <2>2
<1>5. AbsOutcome' = [r \in Rounds |-> [m \in Members |->
                       IF r \in Promise!Undecided /\ AbsOutcome[r][m] = None
                       THEN "interrupted" ELSE AbsOutcome[r][m]]]
  <2>1. AbsOutcome' = [r \in Rounds |-> [m \in Members |-> AbsOutcome'[r][m]]]
    BY DEF AbsOutcome
  <2> QED
    BY <1>3, <2>1
<1>6. AbsVerdict' = [r \in Rounds |-> IF r \in Promise!Undecided
                                      THEN Promise!ComputeVerdict(AbsOutcome'[r], Quorum)
                                      ELSE AbsVerdict[r]]
  <2>1. AbsVerdict' = [r \in Rounds |-> AbsVerdict'[r]]
    BY DEF AbsVerdict
  <2> QED
    BY <1>4, <2>1
<1>7. Promise!Restart <=>
        /\ AbsOutcome' = [r \in Rounds |-> [m \in Members |->
                            IF r \in Promise!Undecided /\ AbsOutcome[r][m] = None
                            THEN "interrupted" ELSE AbsOutcome[r][m]]]
        /\ AbsVerdict' = [r \in Rounds |-> IF r \in Promise!Undecided
                                           THEN Promise!ComputeVerdict(AbsOutcome'[r], Quorum)
                                           ELSE AbsVerdict[r]]
        /\ AbsOpened' = AbsOpened
  BY DEF Promise!Restart, AbsOpened, AbsOutcome, OutcomeOf, AbsVerdict
<1> QED
  BY <1>2, <1>5, <1>6, <1>7

(* Every step is a step of the promise or is not seen.                     *)
LEMMA RefinementStep ==
  ASSUME RefinementInv, ~StoreMayFail, [Next]_vars
  PROVE  [Promise!Next]_(Promise!vars)
<1>1. ASSUME NEW n \in Runs, NEW r \in Rounds, StartRound(n, r)
      PROVE  Promise!Next
  BY <1>1, Opens DEF Promise!Next
<1>2. ASSUME NEW r \in Rounds, NEW m \in Unavailable, RecordUnavailable(r, m)
      PROVE  Promise!Next
  BY <1>2, RecordSettles DEF Promise!Next, Members
<1>3. ASSUME NEW r \in Rounds, NEW a \in Agents, AgentStep(r, a)
      PROVE  Promise!Next \/ UNCHANGED Promise!vars
  BY <1>3, AgentSettles DEF Promise!Next, Members
<1>4. ASSUME NEW r \in Rounds, CompleteRound(r)
      PROVE  Promise!Next
  BY <1>4, CompletionDecides DEF Promise!Next
<1>5. CASE Reconcile
  BY <1>5, ReconcileRestarts DEF Promise!Next
<1>6. ASSUME rounds' = rounds, inv' = inv
      PROVE  UNCHANGED Promise!vars
  BY <1>6, Stutter DEF OutcomeOf
<1>7. ASSUME NEW r \in Rounds, DispatchAgents(r) \/ CancelRound(r)
      PROVE  UNCHANGED Promise!vars
  BY <1>6, <1>7 DEF DispatchAgents, CancelRound
<1>8. CASE Crash \/ UNCHANGED vars
  BY <1>6, <1>8 DEF Crash, vars
<1> QED
  BY <1>1, <1>2, <1>3, <1>4, <1>5, <1>7, <1>8 DEF Next, TailStep

LEMMA RefinementInit == Init => Promise!Init
<1> SUFFICES ASSUME Init PROVE Promise!Init
  OBVIOUS
<1>1. \A r \in Rounds : rounds[r].state = "absent" /\ rounds[r].verdict = None
  BY DEF Init, NoRound
<1>2. \A r \in Rounds, m \in Members : OutcomeOf(r, m) = None
  BY DEF Init, OutcomeOf, Placeholder, Terminal, SettledStatus
<1>3. AbsOpened = {}
  BY <1>1 DEF AbsOpened
<1>4. AbsOutcome = [r \in Rounds |-> [m \in Members |-> None]]
  BY <1>2 DEF AbsOutcome
<1>5. AbsVerdict = [r \in Rounds |-> None]
  BY <1>1 DEF AbsVerdict
<1> QED
  BY <1>3, <1>4, <1>5 DEF Promise!Init, AbsOpened, AbsOutcome, OutcomeOf, AbsVerdict

(* As long as writes succeed, whatever the members, the retries, the       *)
(* cancellations and the crashes, a round keeps its promise: one outcome   *)
(* per declared member, and one verdict, given over all of them.           *)
THEOREM EngineKeepsPromise ==
  ASSUME ~StoreMayFail
  PROVE  Spec => KeepsPromise
<1>1. RefinementInv /\ [Next]_vars => [Promise!Next]_(Promise!vars)
  BY RefinementStep
<1>2. Spec => []RefinementInv
  BY MemoryMatchesTables, VerdictsAreHonest, PTL DEF RefinementInv
<1> QED
  BY RefinementInit, <1>1, <1>2, PTL DEF Spec, KeepsPromise, Promise!Spec

(***************************************************************************)
(* The event log, and the numbers of the rounds of a run.                  *)
(***************************************************************************)

(***************************************************************************)
(* What the properties say of one row and a log lg, as facts about         *)
(* constants: the lemmas of this section are about any row and any log.    *)
(***************************************************************************)
FinishLogged(lg, row, r, m) ==
  /\ row.status \in Terminal <=> FinishedAt(lg, r, m) # {}
  /\ \A i, j \in FinishedAt(lg, r, m) :
       i = j /\ lg[i].status = row.status /\ lg[i].attempts = row.attempts

AttemptsLogged(lg, row, r, a) ==
  /\ {lg[i].attempt : i \in StartedAt(lg, r, a)} = 1..row.attempts
  /\ row.attempts <= MaxRetries[a] + 1
  /\ \A i, j \in StartedAt(lg, r, a) : i < j => lg[i].attempt < lg[j].attempt
  /\ \A i \in StartedAt(lg, r, a), j \in FinishedAt(lg, r, a) : i < j

CompletionLogged(lg, row, r) ==
  /\ row.state = "complete" <=> CompletedAt(lg, r) # {}
  /\ \A i, j \in CompletedAt(lg, r) : i = j /\ lg[i].verdict = row.verdict

(* The log lg2 is the log lg and what was appended to it.                  *)
Grown(lg, lg2) ==
  /\ DOMAIN lg \subseteq DOMAIN lg2 /\ DOMAIN lg2 \subseteq Nat
  /\ \A i \in DOMAIN lg : lg2[i] = lg[i]
  /\ \A i \in DOMAIN lg, j \in DOMAIN lg2 \ DOMAIN lg : i < j

News(lg, lg2) == DOMAIN lg2 \ DOMAIN lg

IsStarted(e, r, m) == e.type = "invocation-started" /\ e.round = r /\ e.member = m

IsFinished(e, r, m) == e.type = "invocation-finished" /\ e.round = r /\ e.member = m

IsCompleted(e, r) == e.type = "round-completed" /\ e.round = r

IsAbout(e, r) == e.type # "run-created" /\ e.round = r

(* What is logged of an invocation or a round is what was, and the news.   *)
LEMMA EventsOfGrown ==
  ASSUME NEW lg, NEW lg2, Grown(lg, lg2), NEW r, NEW m
  PROVE  /\ StartedAt(lg2, r, m) =
              StartedAt(lg, r, m) \cup {i \in News(lg, lg2) : IsStarted(lg2[i], r, m)}
         /\ FinishedAt(lg2, r, m) =
              FinishedAt(lg, r, m) \cup {i \in News(lg, lg2) : IsFinished(lg2[i], r, m)}
BY DEF Grown, News, StartedAt, FinishedAt, IsStarted, IsFinished

LEMMA CompletionsOfGrown ==
  ASSUME NEW lg, NEW lg2, Grown(lg, lg2), NEW r
  PROVE  CompletedAt(lg2, r) =
           CompletedAt(lg, r) \cup {i \in News(lg, lg2) : IsCompleted(lg2[i], r)}
BY DEF Grown, News, CompletedAt, IsCompleted

(* Rows that stay, or stay unfinished, without news of their end.          *)
LEMMA FinishKept ==
  ASSUME NEW lg, NEW lg2, Grown(lg, lg2), NEW r, NEW m, NEW row, NEW row2,
         FinishLogged(lg, row, r, m),
         \A i \in News(lg, lg2) : ~IsFinished(lg2[i], r, m),
         row2 = row \/ (row.status \notin Terminal /\ row2.status \notin Terminal)
  PROVE  FinishLogged(lg2, row2, r, m)
<1>1. FinishedAt(lg2, r, m) = FinishedAt(lg, r, m)
  BY EventsOfGrown
<1>2. \A i \in FinishedAt(lg, r, m) : lg2[i] = lg[i]
  BY DEF Grown, FinishedAt
<1> QED
  BY <1>1, <1>2 DEF FinishLogged

(* A row that ends, with the news of it.                                   *)
LEMMA FinishAdded ==
  ASSUME NEW lg, NEW lg2, Grown(lg, lg2), NEW r, NEW m, NEW row, NEW row2,
         FinishLogged(lg, row, r, m),
         row.status \notin Terminal, row2.status \in Terminal,
         NEW n \in News(lg, lg2), IsFinished(lg2[n], r, m),
         lg2[n].status = row2.status, lg2[n].attempts = row2.attempts,
         \A i \in News(lg, lg2) : IsFinished(lg2[i], r, m) => i = n
  PROVE  FinishLogged(lg2, row2, r, m)
<1>1. FinishedAt(lg, r, m) = {}
  BY DEF FinishLogged
<1>2. FinishedAt(lg2, r, m) = {n}
  BY <1>1, EventsOfGrown
<1> QED
  BY <1>2 DEF FinishLogged

(* Attempts that stay, whether or not the news is of their end.            *)
LEMMA AttemptsKept ==
  ASSUME NEW lg, NEW lg2, Grown(lg, lg2), NEW r, NEW a, NEW row, NEW row2,
         AttemptsLogged(lg, row, r, a),
         row2.attempts = row.attempts,
         \A i \in News(lg, lg2) : ~IsStarted(lg2[i], r, a)
  PROVE  AttemptsLogged(lg2, row2, r, a)
<1>1. StartedAt(lg2, r, a) = StartedAt(lg, r, a)
  BY EventsOfGrown
<1>2. \A i \in StartedAt(lg, r, a) : i \in DOMAIN lg /\ lg2[i] = lg[i]
  BY DEF Grown, StartedAt
<1>3. \A j \in FinishedAt(lg2, r, a) : j \in FinishedAt(lg, r, a) \/ j \in News(lg, lg2)
  BY EventsOfGrown
<1>4. \A i \in StartedAt(lg, r, a), j \in News(lg, lg2) : i < j
  BY <1>2 DEF Grown, News
<1>5. {lg2[i].attempt : i \in StartedAt(lg2, r, a)} = {lg[i].attempt : i \in StartedAt(lg, r, a)}
  BY <1>1, <1>2
<1> QED
  BY <1>1, <1>2, <1>3, <1>4, <1>5 DEF AttemptsLogged

(* The next attempt of a row that has not ended.                           *)
LEMMA AttemptAdded ==
  ASSUME NEW lg, NEW lg2, Grown(lg, lg2), NEW r, NEW a, NEW row, NEW row2,
         AttemptsLogged(lg, row, r, a), FinishedAt(lg2, r, a) = {},
         row.attempts \in Nat, row2.attempts = row.attempts + 1,
         row2.attempts <= MaxRetries[a] + 1,
         NEW n, News(lg, lg2) = {n}, IsStarted(lg2[n], r, a),
         lg2[n].attempt = row2.attempts
  PROVE  AttemptsLogged(lg2, row2, r, a)
<1>1. StartedAt(lg2, r, a) = StartedAt(lg, r, a) \cup {n}
  BY EventsOfGrown
<1>2. n \in Nat /\ \A i \in StartedAt(lg, r, a) : i \in Nat /\ i < n /\ lg2[i] = lg[i]
  BY DEF Grown, News, StartedAt
<1>3. \A i \in StartedAt(lg, r, a) : lg[i].attempt \in 1..row.attempts
  BY DEF AttemptsLogged
<1>4. {lg2[i].attempt : i \in StartedAt(lg2, r, a)} =
        {lg[i].attempt : i \in StartedAt(lg, r, a)} \cup {row2.attempts}
  BY <1>1, <1>2
<1>5. {lg2[i].attempt : i \in StartedAt(lg2, r, a)} = 1..row2.attempts
  BY <1>4 DEF AttemptsLogged
<1>6. \A i, j \in StartedAt(lg2, r, a) : i < j => lg2[i].attempt < lg2[j].attempt
  <2> SUFFICES ASSUME NEW i \in StartedAt(lg2, r, a), NEW j \in StartedAt(lg2, r, a), i < j
               PROVE  lg2[i].attempt < lg2[j].attempt
    OBVIOUS
  <2>1. i \in StartedAt(lg, r, a)
    BY <1>1, <1>2
  <2>2. CASE j = n
    <3>1. lg2[i].attempt \in 1..row.attempts /\ lg2[j].attempt = row.attempts + 1
      BY <1>2, <1>3, <2>1, <2>2
    <3> QED
      BY <3>1
  <2>3. CASE j # n
    BY <1>1, <1>2, <2>1, <2>3 DEF AttemptsLogged
  <2> QED
    BY <2>2, <2>3
<1> QED
  BY <1>5, <1>6 DEF AttemptsLogged

(* Rounds that stay as they are, or open.                                  *)
LEMMA CompletionKept ==
  ASSUME NEW lg, NEW lg2, Grown(lg, lg2), NEW r, NEW row, NEW row2,
         CompletionLogged(lg, row, r),
         row2 = row \/ (row.state # "complete" /\ row2.state # "complete"),
         \A i \in News(lg, lg2) : ~IsCompleted(lg2[i], r)
  PROVE  CompletionLogged(lg2, row2, r)
<1>1. CompletedAt(lg2, r) = CompletedAt(lg, r)
  BY CompletionsOfGrown
<1>2. \A i \in CompletedAt(lg, r) : lg2[i] = lg[i]
  BY DEF Grown, CompletedAt
<1> QED
  BY <1>1, <1>2 DEF CompletionLogged

(* A round that completes, with the news of it.                            *)
LEMMA CompletionAdded ==
  ASSUME NEW lg, NEW lg2, Grown(lg, lg2), NEW r, NEW row, NEW row2,
         CompletionLogged(lg, row, r),
         row.state # "complete", row2.state = "complete",
         NEW n \in News(lg, lg2), IsCompleted(lg2[n], r), lg2[n].verdict = row2.verdict,
         \A i \in News(lg, lg2) : IsCompleted(lg2[i], r) => i = n
  PROVE  CompletionLogged(lg2, row2, r)
<1>1. CompletedAt(lg, r) = {}
  BY DEF CompletionLogged
<1>2. CompletedAt(lg2, r) = {n}
  BY <1>1, CompletionsOfGrown
<1> QED
  BY <1>2 DEF CompletionLogged

(***************************************************************************)
(* How a log grows, and what the engine's events are about.                *)
(***************************************************************************)
LEMMA AppendGrows ==
  ASSUME NEW lg \in Seq(Event), NEW e \in Event
  PROVE  /\ Grown(lg, Append(lg, e))
         /\ News(lg, Append(lg, e)) = {Len(lg) + 1}
         /\ Append(lg, e)[Len(lg) + 1] = e
<1>1. /\ Append(lg, e) \in Seq(Event) /\ Len(Append(lg, e)) = Len(lg) + 1 /\ Len(lg) \in Nat
      /\ \A i \in 1..Len(lg) : Append(lg, e)[i] = lg[i]
      /\ Append(lg, e)[Len(lg) + 1] = e
  BY AppendProperties, LenProperties
<1>2. DOMAIN lg = 1..Len(lg) /\ DOMAIN Append(lg, e) = 1..(Len(lg) + 1)
  BY <1>1, LenProperties
<1> QED
  BY <1>1, <1>2 DEF Grown, News

LEMMA ConcatGrows ==
  ASSUME NEW lg \in Seq(Event), NEW s \in Seq(Event)
  PROVE  /\ Grown(lg, lg \o s)
         /\ \A i \in News(lg, lg \o s) :
              \E k \in DOMAIN s : i = Len(lg) + k /\ (lg \o s)[i] = s[k]
         /\ \A k \in DOMAIN s :
              Len(lg) + k \in News(lg, lg \o s) /\ (lg \o s)[Len(lg) + k] = s[k]
<1>1. /\ lg \o s \in Seq(Event) /\ Len(lg \o s) = Len(lg) + Len(s)
      /\ Len(lg) \in Nat /\ Len(s) \in Nat
      /\ \A i \in 1..(Len(lg) + Len(s)) :
           (lg \o s)[i] = IF i <= Len(lg) THEN lg[i] ELSE s[i - Len(lg)]
  BY ConcatProperties, LenProperties
<1>2. /\ DOMAIN lg = 1..Len(lg) /\ DOMAIN s = 1..Len(s)
      /\ DOMAIN (lg \o s) = 1..(Len(lg) + Len(s))
  BY <1>1, LenProperties
<1>3. Grown(lg, lg \o s)
  BY <1>1, <1>2 DEF Grown
<1>4. ASSUME NEW i \in News(lg, lg \o s)
      PROVE  \E k \in DOMAIN s : i = Len(lg) + k /\ (lg \o s)[i] = s[k]
  <2>1. i \in (Len(lg) + 1)..(Len(lg) + Len(s))
    BY <1>1, <1>2 DEF News
  <2>2. i - Len(lg) \in DOMAIN s /\ i = Len(lg) + (i - Len(lg)) /\ (lg \o s)[i] = s[i - Len(lg)]
    BY <1>1, <1>2, <2>1
  <2> QED
    BY <2>2
<1>5. ASSUME NEW k \in DOMAIN s
      PROVE  Len(lg) + k \in News(lg, lg \o s) /\ (lg \o s)[Len(lg) + k] = s[k]
  <2>1. /\ Len(lg) + k \in 1..(Len(lg) + Len(s)) /\ ~(Len(lg) + k <= Len(lg))
        /\ (Len(lg) + k) - Len(lg) = k
    BY <1>1, <1>2
  <2> QED
    BY <1>1, <1>2, <2>1 DEF News
<1> QED
  BY <1>3, <1>4, <1>5

LEMMA SameLogGrows ==
  ASSUME NEW lg \in Seq(Event)
  PROVE  Grown(lg, lg) /\ News(lg, lg) = {}
BY LenProperties DEF Grown, News

(* What each of the engine's events says, and of what.                     *)
LEMMA RunCreatedSays ==
  ASSUME NEW n, NEW x, NEW y
  PROVE  /\ ~IsStarted(RunCreated(n), x, y) /\ ~IsFinished(RunCreated(n), x, y)
         /\ ~IsCompleted(RunCreated(n), x) /\ ~IsAbout(RunCreated(n), x)
BY DEF IsStarted, IsFinished, IsCompleted, IsAbout, RunCreated

LEMMA RoundStartedSays ==
  ASSUME NEW r, NEW x, NEW y
  PROVE  /\ ~IsStarted(RoundStarted(r), x, y) /\ ~IsFinished(RoundStarted(r), x, y)
         /\ ~IsCompleted(RoundStarted(r), x)
         /\ IsAbout(RoundStarted(r), x) => x = r
BY DEF IsStarted, IsFinished, IsCompleted, IsAbout, RoundStarted

LEMMA StartedSays ==
  ASSUME NEW r, NEW m, NEW k, NEW x, NEW y
  PROVE  /\ IsStarted(Started(r, m, k), x, y) <=> x = r /\ y = m
         /\ ~IsFinished(Started(r, m, k), x, y) /\ ~IsCompleted(Started(r, m, k), x)
         /\ IsAbout(Started(r, m, k), x) => x = r
         /\ Started(r, m, k).attempt = k
BY DEF IsStarted, IsFinished, IsCompleted, IsAbout, Started

LEMMA FinishedSays ==
  ASSUME NEW r, NEW m, NEW s, NEW k, NEW x, NEW y
  PROVE  /\ IsFinished(Finished(r, m, s, k), x, y) <=> x = r /\ y = m
         /\ ~IsStarted(Finished(r, m, s, k), x, y) /\ ~IsCompleted(Finished(r, m, s, k), x)
         /\ IsAbout(Finished(r, m, s, k), x) => x = r
         /\ Finished(r, m, s, k).status = s /\ Finished(r, m, s, k).attempts = k
BY DEF IsStarted, IsFinished, IsCompleted, IsAbout, Finished

LEMMA CompletedSays ==
  ASSUME NEW r, NEW v, NEW x, NEW y
  PROVE  /\ IsCompleted(Completed(r, v), x) <=> x = r
         /\ ~IsStarted(Completed(r, v), x, y) /\ ~IsFinished(Completed(r, v), x, y)
         /\ IsAbout(Completed(r, v), x) => x = r
         /\ Completed(r, v).verdict = v
BY DEF IsStarted, IsFinished, IsCompleted, IsAbout, Completed

(***************************************************************************)
(* The log against the tables: one lemma per kind of step.                 *)
(***************************************************************************)
AllLogged ==
  \A r \in Rounds :
    /\ \A m \in Members : FinishLogged(log, inv[r][m], r, m)
    /\ \A a \in Agents : AttemptsLogged(log, inv[r][a], r, a)
    /\ CompletionLogged(log, rounds[r], r)

LEMMA AllLoggedIsLog == AllLogged <=> LogMatchesTables /\ AttemptsInOrder
BY DEF AllLogged, FinishLogged, AttemptsLogged, CompletionLogged, LogMatchesTables, AttemptsInOrder

(* Steps that log nothing of an attempt, an end or a completion.           *)
LEMMA QuietStep ==
  ASSUME AllLogged, Grown(log, log'),
         \A i \in News(log, log') : \A r, m : /\ ~IsStarted(log'[i], r, m)
                                            /\ ~IsFinished(log'[i], r, m)
                                            /\ ~IsCompleted(log'[i], r),
         \A r \in Rounds, m \in Members : inv'[r][m] = inv[r][m],
         \A r \in Rounds : \/ rounds'[r] = rounds[r]
                           \/ rounds[r].state # "complete" /\ rounds'[r].state # "complete"
  PROVE  AllLogged'
<1> SUFFICES ASSUME NEW r \in Rounds
             PROVE  /\ \A m \in Members : FinishLogged(log', inv'[r][m], r, m)
                    /\ \A a \in Agents : AttemptsLogged(log', inv'[r][a], r, a)
                    /\ CompletionLogged(log', rounds'[r], r)
  BY DEF AllLogged
<1>1. \A m \in Members : FinishLogged(log', inv'[r][m], r, m)
  BY FinishKept DEF AllLogged
<1>2. \A a \in Agents : AttemptsLogged(log', inv'[r][a], r, a)
  BY AttemptsKept DEF AllLogged, Members
<1>3. CompletionLogged(log', rounds'[r], r)
  BY CompletionKept DEF AllLogged
<1> QED
  BY <1>1, <1>2, <1>3

(* An invocation ends.                                                     *)
LEMMA FinishStep ==
  ASSUME AllLogged, log \in Seq(Event), rounds' = rounds,
         NEW r \in Rounds, NEW m \in Members, NEW s \in Terminal, NEW k \in Nat,
         log' = Append(log, Finished(r, m, s, k)),
         inv[r][m].status \notin Terminal, m \in Agents => inv[r][m].attempts = k,
         inv'[r][m] = [status |-> s, attempts |-> k],
         \A x \in Rounds, y \in Members : ~(x = r /\ y = m) => inv'[x][y] = inv[x][y]
  PROVE  AllLogged'
<1> DEFINE e == Finished(r, m, s, k)
           n == Len(log) + 1
<1>1. Grown(log, log') /\ News(log, log') = {n} /\ log'[n] = e
  BY EventTypes, AppendGrows
<1>2. inv'[r][m].status = s /\ inv'[r][m].attempts = k
  OBVIOUS
<1> SUFFICES ASSUME NEW x \in Rounds
             PROVE  /\ \A y \in Members : FinishLogged(log', inv'[x][y], x, y)
                    /\ \A a \in Agents : AttemptsLogged(log', inv'[x][a], x, a)
                    /\ CompletionLogged(log', rounds'[x], x)
  BY DEF AllLogged
<1> HIDE DEF e, n
<1>3. ASSUME NEW y \in Members
      PROVE  FinishLogged(log', inv'[x][y], x, y)
  <2>1. FinishLogged(log, inv[x][y], x, y)
    BY DEF AllLogged
  <2>2. CASE x = r /\ y = m
    <3>1. IsFinished(e, r, m) /\ e.status = s /\ e.attempts = k
      BY FinishedSays DEF e
    <3>2. /\ n \in News(log, log') /\ IsFinished(log'[n], r, m)
          /\ log'[n].status = inv'[r][m].status /\ log'[n].attempts = inv'[r][m].attempts
          /\ \A i \in News(log, log') : IsFinished(log'[i], r, m) => i = n
      BY <1>1, <1>2, <3>1
    <3>3. inv'[r][m].status \in Terminal /\ FinishLogged(log, inv[r][m], r, m)
      BY <1>2, <2>1, <2>2
    <3>4. FinishLogged(log', inv'[r][m], r, m)
      BY <1>1, <3>2, <3>3, FinishAdded
    <3> QED
      BY <2>2, <3>4
  <2>3. CASE ~(x = r /\ y = m)
    <3>1. ~IsFinished(e, x, y)
      BY <2>3, FinishedSays DEF e
    <3> QED
      BY <1>1, <2>1, <2>3, <3>1, FinishKept
  <2> QED
    BY <2>2, <2>3
<1>4. ASSUME NEW a \in Agents
      PROVE  AttemptsLogged(log', inv'[x][a], x, a)
  <2>1. AttemptsLogged(log, inv[x][a], x, a) /\ ~IsStarted(e, x, a)
    BY FinishedSays DEF AllLogged, e
  <2>2. inv'[x][a].attempts = inv[x][a].attempts
    BY <1>2 DEF Members
  <2> QED
    BY <1>1, <2>1, <2>2, AttemptsKept
<1>5. CompletionLogged(log', rounds'[x], x)
  <2>1. CompletionLogged(log, rounds[x], x) /\ ~IsCompleted(e, x)
    BY FinishedSays DEF AllLogged, e
  <2> QED
    BY <1>1, <2>1, CompletionKept
<1> QED
  BY <1>3, <1>4, <1>5

(* An attempt starts.                                                      *)
LEMMA AttemptStep ==
  ASSUME AllLogged, log \in Seq(Event), rounds' = rounds,
         NEW r \in Rounds, NEW a \in Agents, NEW k \in Nat, k <= MaxRetries[a],
         log' = Append(log, Started(r, a, k + 1)),
         inv[r][a].status \notin Terminal, inv[r][a].attempts = k,
         inv'[r][a] = [status |-> "running", attempts |-> k + 1],
         \A x \in Rounds, y \in Members : ~(x = r /\ y = a) => inv'[x][y] = inv[x][y]
  PROVE  AllLogged'
<1> DEFINE e == Started(r, a, k + 1)
           n == Len(log) + 1
<1>1. Grown(log, log') /\ News(log, log') = {n} /\ log'[n] = e
  BY EventTypes, AppendGrows
<1>2. /\ inv'[r][a].status \notin Terminal /\ inv'[r][a].attempts = k + 1
      /\ a \in Members /\ k + 1 <= MaxRetries[a] + 1
  BY EngineAssumption DEF Terminal, SettledStatus, Members
<1> SUFFICES ASSUME NEW x \in Rounds
             PROVE  /\ \A y \in Members : FinishLogged(log', inv'[x][y], x, y)
                    /\ \A y \in Agents : AttemptsLogged(log', inv'[x][y], x, y)
                    /\ CompletionLogged(log', rounds'[x], x)
  BY DEF AllLogged
<1> HIDE DEF e, n
<1>3. ASSUME NEW y \in Members
      PROVE  FinishLogged(log', inv'[x][y], x, y)
  <2>1. FinishLogged(log, inv[x][y], x, y) /\ ~IsFinished(e, x, y)
    BY StartedSays DEF AllLogged, e
  <2> QED
    BY <1>1, <1>2, <2>1, FinishKept
<1>4. ASSUME NEW y \in Agents
      PROVE  AttemptsLogged(log', inv'[x][y], x, y)
  <2>1. AttemptsLogged(log, inv[x][y], x, y) /\ y \in Members
    BY DEF AllLogged, Members
  <2>2. CASE x = r /\ y = a
    <3>1. IsStarted(e, r, a) /\ e.attempt = k + 1
      BY StartedSays DEF e
    <3>2. FinishedAt(log', r, a) = {}
      BY <1>2, <1>3, <2>2 DEF FinishLogged
    <3>3. /\ IsStarted(log'[n], r, a) /\ log'[n].attempt = inv'[r][a].attempts
          /\ inv'[r][a].attempts = inv[r][a].attempts + 1 /\ inv[r][a].attempts \in Nat
          /\ inv'[r][a].attempts <= MaxRetries[a] + 1
          /\ AttemptsLogged(log, inv[r][a], r, a)
      BY <1>1, <1>2, <2>1, <2>2, <3>1
    <3>4. AttemptsLogged(log', inv'[r][a], r, a)
      BY <1>1, <3>2, <3>3, AttemptAdded
    <3> QED
      BY <2>2, <3>4
  <2>3. CASE ~(x = r /\ y = a)
    <3>1. ~IsStarted(e, x, y)
      BY <2>3, StartedSays DEF e
    <3>2. inv'[x][y] = inv[x][y]
      BY <2>1, <2>3
    <3> QED
      BY <1>1, <2>1, <3>1, <3>2, AttemptsKept
  <2> QED
    BY <2>2, <2>3
<1>5. CompletionLogged(log', rounds'[x], x)
  <2>1. CompletionLogged(log, rounds[x], x) /\ ~IsCompleted(e, x)
    BY StartedSays DEF AllLogged, e
  <2> QED
    BY <1>1, <2>1, CompletionKept
<1> QED
  BY <1>3, <1>4, <1>5

(* A round completes.                                                      *)
LEMMA CompletionStep ==
  ASSUME AllLogged, log \in Seq(Event), inv' = inv,
         NEW r \in Rounds, NEW v \in QuorumVerdict,
         log' = Append(log, Completed(r, v)),
         rounds[r].state # "complete", rounds'[r].state = "complete", rounds'[r].verdict = v,
         \A x \in Rounds : x # r => rounds'[x] = rounds[x]
  PROVE  AllLogged'
<1> DEFINE e == Completed(r, v)
           n == Len(log) + 1
<1>1. Grown(log, log') /\ News(log, log') = {n} /\ log'[n] = e
  BY EventTypes, AppendGrows
<1> SUFFICES ASSUME NEW x \in Rounds
             PROVE  /\ \A y \in Members : FinishLogged(log', inv'[x][y], x, y)
                    /\ \A a \in Agents : AttemptsLogged(log', inv'[x][a], x, a)
                    /\ CompletionLogged(log', rounds'[x], x)
  BY DEF AllLogged
<1> HIDE DEF e, n
<1>2. ASSUME NEW y \in Members
      PROVE  FinishLogged(log', inv'[x][y], x, y)
  <2>1. FinishLogged(log, inv[x][y], x, y) /\ ~IsFinished(e, x, y)
    BY CompletedSays DEF AllLogged, e
  <2> QED
    BY <1>1, <2>1, FinishKept
<1>3. ASSUME NEW a \in Agents
      PROVE  AttemptsLogged(log', inv'[x][a], x, a)
  <2>1. AttemptsLogged(log, inv[x][a], x, a) /\ ~IsStarted(e, x, a)
    BY CompletedSays DEF AllLogged, e
  <2> QED
    BY <1>1, <2>1, AttemptsKept
<1>4. CompletionLogged(log', rounds'[x], x)
  <2>1. CompletionLogged(log, rounds[x], x)
    BY DEF AllLogged
  <2>2. CASE x = r
    <3>1. IsCompleted(e, r) /\ e.verdict = v
      BY CompletedSays DEF e
    <3> QED
      BY <1>1, <2>1, <2>2, <3>1, CompletionAdded
  <2>3. CASE x # r
    <3>1. ~IsCompleted(e, x)
      BY <2>3, CompletedSays DEF e
    <3> QED
      BY <1>1, <2>1, <2>3, <3>1, CompletionKept
  <2> QED
    BY <2>2, <2>3
<1> QED
  BY <1>2, <1>3, <1>4

(***************************************************************************)
(* The reconciliation appends two sets of events, each in some order.      *)
(***************************************************************************)
LEMMA SetAppended ==
  ASSUME NEW lg \in Seq(Event), NEW S \in SUBSET Event, IsFiniteSet(S)
  PROVE  LET lg2 == lg \o SetToSeq(S)
         IN  /\ lg2 \in Seq(Event)
             /\ Grown(lg, lg2)
             /\ \A i \in News(lg, lg2) : lg2[i] \in S
             /\ \A e \in S : \E i \in News(lg, lg2) : lg2[i] = e
             /\ \A i, j \in News(lg, lg2) : lg2[i] = lg2[j] => i = j
<1> DEFINE s == SetToSeq(S)
           lg2 == lg \o s
<1>1. /\ s \in Seq(S) /\ s \in Seq(Event)
      /\ \A e \in S : \E i \in DOMAIN s : s[i] = e
      /\ \A i, j \in DOMAIN s : s[i] = s[j] => i = j
  BY SetToSeqProperties, SeqMonotonic
<1>2. \A k \in DOMAIN s : s[k] \in S
  BY <1>1
<1> HIDE DEF s
<1>3. /\ Grown(lg, lg2) /\ lg2 \in Seq(Event)
      /\ \A i \in News(lg, lg2) : \E k \in DOMAIN s : i = Len(lg) + k /\ lg2[i] = s[k]
      /\ \A k \in DOMAIN s : Len(lg) + k \in News(lg, lg2) /\ lg2[Len(lg) + k] = s[k]
  BY <1>1, ConcatGrows, ConcatProperties
<1> HIDE DEF lg2
<1>4. \A i \in News(lg, lg2) : lg2[i] \in S
  BY <1>2, <1>3
<1>5. ASSUME NEW e \in S
      PROVE  \E i \in News(lg, lg2) : lg2[i] = e
  <2>1. PICK k \in DOMAIN s : s[k] = e
    BY <1>1
  <2>2. Len(lg) + k \in News(lg, lg2) /\ lg2[Len(lg) + k] = e
    BY <1>3, <2>1
  <2> QED
    BY <2>2
<1>6. ASSUME NEW i \in News(lg, lg2), NEW j \in News(lg, lg2), lg2[i] = lg2[j]
      PROVE  i = j
  <2>1. PICK k \in DOMAIN s : i = Len(lg) + k /\ lg2[i] = s[k]
    BY <1>3
  <2>2. PICK l \in DOMAIN s : j = Len(lg) + l /\ lg2[j] = s[l]
    BY <1>3
  <2> QED
    BY <1>1, <1>6, <2>1, <2>2
<1> QED
  BY <1>3, <1>4, <1>5, <1>6 DEF lg2, s

LEMMA GrownTwice ==
  ASSUME NEW lg, NEW lg1, NEW lg2, Grown(lg, lg1), Grown(lg1, lg2)
  PROVE  /\ Grown(lg, lg2)
         /\ News(lg, lg2) = News(lg, lg1) \cup News(lg1, lg2)
         /\ \A i \in News(lg, lg1) : lg2[i] = lg1[i]
         /\ \A i \in News(lg, lg1), j \in News(lg1, lg2) : i < j
BY DEF Grown, News

(* What the reconciliation logs: every event of the two sets once, the     *)
(* completions last.                                                       *)
LEMMA ReconcileLogs ==
  ASSUME TypeOK, Reconcile
  PROVE  /\ Grown(log, log')
         /\ \A i \in News(log, log') : log'[i] \in InterruptedEvents \cup RepairedEvents
         /\ \A e \in InterruptedEvents \cup RepairedEvents :
              \E i \in News(log, log') : log'[i] = e
         /\ \A i, j \in News(log, log') : log'[i] = log'[j] => i = j
         /\ \A i, j \in News(log, log') :
              log'[i] \in RepairedEvents /\ i < j => log'[j] \in RepairedEvents
<1> DEFINE mid == log \o SetToSeq(InterruptedEvents)
<1>1. /\ IsFiniteSet(InterruptedEvents) /\ InterruptedEvents \subseteq Event
      /\ IsFiniteSet(RepairedEvents) /\ RepairedEvents \subseteq Event
      /\ log \in Seq(Event)
  BY ReconcileEvents DEF TypeOK
<1>2. /\ mid \in Seq(Event) /\ Grown(log, mid)
      /\ \A i \in News(log, mid) : mid[i] \in InterruptedEvents
      /\ \A e \in InterruptedEvents : \E i \in News(log, mid) : mid[i] = e
      /\ \A i, j \in News(log, mid) : mid[i] = mid[j] => i = j
  BY <1>1, SetAppended
<1> DEFINE end == mid \o SetToSeq(RepairedEvents)
<1>3. log' = end
  BY DEF Reconcile
<1> HIDE DEF mid
<1>4. /\ Grown(mid, end)
      /\ \A i \in News(mid, end) : end[i] \in RepairedEvents
      /\ \A e \in RepairedEvents : \E i \in News(mid, end) : end[i] = e
      /\ \A i, j \in News(mid, end) : end[i] = end[j] => i = j
  <2>1. mid \in Seq(Event) /\ RepairedEvents \in SUBSET Event /\ IsFiniteSet(RepairedEvents)
    BY <1>1, <1>2
  <2> QED
    BY <2>1, SetAppended
<1> HIDE DEF end
<1>5. /\ Grown(mid, log')
      /\ \A i \in News(mid, log') : log'[i] \in RepairedEvents
      /\ \A e \in RepairedEvents : \E i \in News(mid, log') : log'[i] = e
      /\ \A i, j \in News(mid, log') : log'[i] = log'[j] => i = j
  BY <1>3, <1>4
<1>6. /\ Grown(log, log')
      /\ News(log, log') = News(log, mid) \cup News(mid, log')
      /\ \A i \in News(log, mid) : log'[i] = mid[i]
      /\ \A i \in News(log, mid), j \in News(mid, log') : i < j
  BY <1>2, <1>5, GrownTwice
<1>7. InterruptedEvents \cap RepairedEvents = {}
  BY DEF InterruptedEvents, RepairedEvents, Finished, Completed
<1>8. /\ \A i \in News(log, mid) : i \in Nat
      /\ \A i \in News(mid, log') : i \in Nat
  BY <1>2, <1>5 DEF Grown, News
<1> QED
  BY <1>2, <1>5, <1>6, <1>7, <1>8

LEMMA InterruptedSay ==
  ASSUME NEW e \in InterruptedEvents
  PROVE  /\ \A x, y : ~IsStarted(e, x, y) /\ ~IsCompleted(e, x)
         /\ \A x \in Rounds : IsAbout(e, x) => \E m \in Members : InFlight(x, m)
         /\ \A x \in Rounds, y \in Members : IsFinished(e, x, y) =>
              InFlight(x, y) /\ e = Finished(x, y, "interrupted", inv[x][y].attempts)
<1>1. PICK r \in Rounds, m \in Members :
        InFlight(r, m) /\ e = Finished(r, m, "interrupted", inv[r][m].attempts)
  BY DEF InterruptedEvents
<1> QED
  BY <1>1, FinishedSays

LEMMA RepairedSay ==
  ASSUME NEW e \in RepairedEvents
  PROVE  /\ \A x, y : ~IsStarted(e, x, y) /\ ~IsFinished(e, x, y)
         /\ \A x \in Rounds : IsAbout(e, x) => IsCompleted(e, x)
         /\ \A x \in Rounds : IsCompleted(e, x) =>
              rounds[x].state = "running" /\ e = Completed(x, RepairedVerdict(x))
<1>1. PICK r \in Rounds : rounds[r].state = "running" /\ e = Completed(r, RepairedVerdict(r))
  BY DEF RepairedEvents
<1> QED
  BY <1>1, CompletedSays

LEMMA ReconcileStep ==
  ASSUME MemoryInv, AllLogged, Reconcile
  PROVE  AllLogged'
<1>1. /\ Grown(log, log')
      /\ \A i \in News(log, log') : log'[i] \in InterruptedEvents \/ log'[i] \in RepairedEvents
      /\ \A e \in InterruptedEvents : \E i \in News(log, log') : log'[i] = e
      /\ \A e \in RepairedEvents : \E i \in News(log, log') : log'[i] = e
      /\ \A i, j \in News(log, log') : log'[i] = log'[j] => i = j
  BY ReconcileLogs DEF MemoryInv
<1>2. /\ inv \in [Rounds -> [Members -> InvocationRow]]
      /\ rounds \in [Rounds -> RoundRow]
  BY DEF MemoryInv, TypeOK
<1> SUFFICES ASSUME NEW x \in Rounds
             PROVE  /\ \A y \in Members : FinishLogged(log', inv'[x][y], x, y)
                    /\ \A a \in Agents : AttemptsLogged(log', inv'[x][a], x, a)
                    /\ CompletionLogged(log', rounds'[x], x)
  BY DEF AllLogged
<1>3. ASSUME NEW y \in Members
      PROVE  /\ inv'[x][y] = AfterInterrupt(x, y)
             /\ inv[x][y] \in InvocationRow
             /\ inv'[x][y].attempts = inv[x][y].attempts
             /\ InFlight(x, y) => inv'[x][y].status = "interrupted"
             /\ ~InFlight(x, y) => inv'[x][y] = inv[x][y]
  <2>1. inv'[x][y] = AfterInterrupt(x, y) /\ inv[x][y] \in InvocationRow
    BY <1>2, ReconcileEffect
  <2> QED
    BY <2>1 DEF AfterInterrupt, InvocationRow
<1>4. ASSUME NEW y \in Members
      PROVE  FinishLogged(log', inv'[x][y], x, y)
  <2>1. FinishLogged(log, inv[x][y], x, y)
    BY DEF AllLogged
  <2>2. \A i \in News(log, log') : IsFinished(log'[i], x, y) =>
          InFlight(x, y) /\ log'[i] = Finished(x, y, "interrupted", inv[x][y].attempts)
    BY <1>1, InterruptedSay, RepairedSay
  <2>3. CASE InFlight(x, y)
    <3> DEFINE e == Finished(x, y, "interrupted", inv[x][y].attempts)
    <3>1. e \in InterruptedEvents
      <4>1. <<x, y>> \in {z \in Rounds \X Members : InFlight(z[1], z[2])}
        BY <2>3
      <4> QED
        BY <4>1 DEF InterruptedEvents
    <3>2. PICK n \in News(log, log') : log'[n] = e
      BY <1>1, <3>1
    <3>3. /\ IsFinished(log'[n], x, y)
          /\ log'[n].status = inv'[x][y].status /\ log'[n].attempts = inv'[x][y].attempts
      BY <1>3, <2>3, <3>2, FinishedSays
    <3>4. \A i \in News(log, log') : IsFinished(log'[i], x, y) => i = n
      BY <1>1, <2>2, <3>2
    <3>5. inv[x][y].status \notin Terminal /\ inv'[x][y].status \in Terminal
      BY <1>3, <2>3 DEF InFlight, Terminal, SettledStatus
    <3> QED
      BY <1>1, <2>1, <3>3, <3>4, <3>5, FinishAdded
  <2>4. CASE ~InFlight(x, y)
    <3>1. \A i \in News(log, log') : ~IsFinished(log'[i], x, y)
      BY <2>2, <2>4
    <3> QED
      BY <1>1, <1>3, <2>1, <2>4, <3>1, FinishKept
  <2> QED
    BY <2>3, <2>4
<1>5. ASSUME NEW a \in Agents
      PROVE  AttemptsLogged(log', inv'[x][a], x, a)
  <2>1. AttemptsLogged(log, inv[x][a], x, a) /\ a \in Members
    BY DEF AllLogged, Members
  <2>2. \A i \in News(log, log') : ~IsStarted(log'[i], x, a)
    BY <1>1, InterruptedSay, RepairedSay
  <2>3. inv'[x][a].attempts = inv[x][a].attempts
    BY <1>3, <2>1
  <2> QED
    BY <1>1, <2>1, <2>2, <2>3, AttemptsKept
<1>6. CompletionLogged(log', rounds'[x], x)
  <2>1. CompletionLogged(log, rounds[x], x)
    BY DEF AllLogged
  <2>2. \A i \in News(log, log') : IsCompleted(log'[i], x) =>
          rounds[x].state = "running" /\ log'[i] = Completed(x, RepairedVerdict(x))
    BY <1>1, InterruptedSay, RepairedSay
  <2>3. CASE rounds[x].state = "running"
    <3> DEFINE e == Completed(x, RepairedVerdict(x))
    <3>1. e \in RepairedEvents
      BY <2>3 DEF RepairedEvents
    <3>2. PICK n \in News(log, log') : log'[n] = e
      BY <1>1, <3>1
    <3>3. rounds'[x].state = "complete" /\ rounds'[x].verdict = RepairedVerdict(x)
      BY <1>2, <2>3, ReconcileEffect DEF RoundRow
    <3>4. IsCompleted(log'[n], x) /\ log'[n].verdict = rounds'[x].verdict
      BY <3>2, <3>3, CompletedSays
    <3>5. \A i \in News(log, log') : IsCompleted(log'[i], x) => i = n
      BY <1>1, <2>2, <3>2
    <3> QED
      BY <1>1, <2>1, <2>3, <3>3, <3>4, <3>5, CompletionAdded
  <2>4. CASE rounds[x].state # "running"
    <3>1. \A i \in News(log, log') : ~IsCompleted(log'[i], x)
      BY <2>2, <2>4
    <3>2. rounds'[x] = rounds[x]
      BY <2>4, ReconcileEffect
    <3> QED
      BY <1>1, <2>1, <3>1, <3>2, CompletionKept
  <2> QED
    BY <2>3, <2>4
<1> QED
  BY <1>4, <1>5, <1>6

(* openRun and dispatchRound log that the run and the round begin.         *)
LEMMA StartLogs ==
  ASSUME TypeOK, NEW n \in Runs, NEW r \in Rounds, StartRound(n, r)
  PROVE  /\ Grown(log, log')
         /\ \A i \in News(log, log') : log'[i] = RunCreated(n) \/ log'[i] = RoundStarted(r)
<1>1. log \in Seq(Event) /\ RunCreated(n) \in Event /\ RoundStarted(r) \in Event
  BY EventTypes DEF TypeOK
<1>2. CASE OpenRun(n, r)
  <2> DEFINE s == <<RunCreated(n), RoundStarted(r)>>
  <2>1. log' = log \o s
    BY <1>2 DEF OpenRun
  <2>2. s \in Seq(Event) /\ \A k \in DOMAIN s : s[k] = RunCreated(n) \/ s[k] = RoundStarted(r)
    BY <1>1
  <2> HIDE DEF s
  <2> QED
    BY <1>1, <2>1, <2>2, ConcatGrows
<1>3. CASE DispatchRound(n, r)
  BY <1>1, <1>3, AppendGrows DEF DispatchRound
<1> QED
  BY <1>2, <1>3 DEF StartRound

LEMMA StartStep ==
  ASSUME MemoryInv, AllLogged, NEW n \in Runs, NEW r \in Rounds, StartRound(n, r)
  PROVE  AllLogged'
<1>1. rounds[r].state = "absent" /\ StartRoundWithPending(r, n)
  BY DEF StartRound, StartRoundWithPending
<1>2. ASSUME NEW x \in Rounds, NEW m \in Members
      PROVE  inv'[x][m] = inv[x][m]
  <2>1. inv' = [inv EXCEPT ![r] = [y \in Members |-> Placeholder]]
    BY <1>1 DEF StartRoundWithPending
  <2>2. inv[r][m] = Placeholder
    BY <1>1 DEF MemoryInv, TailMatchesRows, RoundCoherent
  <2> QED
    BY <2>1, <2>2 DEF MemoryInv, TypeOK
<1>3. ASSUME NEW x \in Rounds
      PROVE  \/ rounds'[x] = rounds[x]
             \/ rounds[x].state # "complete" /\ rounds'[x].state # "complete"
  <2>1. rounds' = [rounds EXCEPT ![r] = [run |-> n, index |-> CountRounds(n),
                                         state |-> "running", verdict |-> None]]
    BY <1>1 DEF StartRoundWithPending
  <2> QED
    BY <1>1, <2>1 DEF MemoryInv, TypeOK
<1>4. /\ Grown(log, log')
      /\ \A i \in News(log, log') : \A x, m : /\ ~IsStarted(log'[i], x, m)
                                            /\ ~IsFinished(log'[i], x, m)
                                            /\ ~IsCompleted(log'[i], x)
  BY StartLogs, RunCreatedSays, RoundStartedSays DEF MemoryInv
<1> QED
  BY <1>2, <1>3, <1>4, QuietStep

(* Steps that leave the tables and the log alone.                          *)
LEMMA SilentStep ==
  ASSUME MemoryInv, AllLogged, log' = log, rounds' = rounds, inv' = inv
  PROVE  AllLogged'
<1>1. Grown(log, log') /\ News(log, log') = {}
  BY SameLogGrows DEF MemoryInv, TypeOK
<1> QED
  BY <1>1, QuietStep

LEMMA RecordStep ==
  ASSUME MemoryInv, AllLogged, NEW r \in Rounds, NEW m \in Unavailable, RecordUnavailable(r, m)
  PROVE  AllLogged'
<1> DEFINE row == [status |-> "unavailable", attempts |-> 0]
<1>1. CASE log' = log /\ inv' = inv
  BY <1>1, SilentStep DEF RecordUnavailable
<1>2. CASE /\ inv' = [inv EXCEPT ![r][m] = row]
           /\ log' = Append(log, Finished(r, m, "unavailable", 0))
  <2>1. /\ rounds' = rounds /\ log \in Seq(Event) /\ m \in Members /\ m \notin Agents
        /\ inv \in [Rounds -> [Members -> InvocationRow]]
        /\ inv[r][m].status \notin Terminal /\ "unavailable" \in Terminal
    BY EngineAssumption
       DEF RecordUnavailable, MemoryInv, TypeOK, Members, Terminal, SettledStatus
  <2>2. inv'[r][m] = row /\ \A x \in Rounds, y \in Members : ~(x = r /\ y = m) => inv'[x][y] = inv[x][y]
    BY <1>2, <2>1
  <2> HIDE DEF row
  <2>3. inv'[r][m] = [status |-> "unavailable", attempts |-> 0]
    BY <2>2 DEF row
  <2> QED
    BY <1>2, <2>1, <2>2, <2>3, FinishStep
<1> QED
  BY <1>1, <1>2 DEF RecordUnavailable

(* A step of executeAgent.                                                 *)
LEMMA AgentLogs ==
  ASSUME MemoryInv, NEW r \in Rounds, NEW a \in Agents, AgentStep(r, a)
  PROVE  \/ log' = log /\ inv' = inv
         \/ /\ log' = Append(log, Started(r, a, task[r][a].attempt + 1))
            /\ inv'[r][a] = [status |-> "running", attempts |-> task[r][a].attempt + 1]
            /\ task[r][a].attempt <= MaxRetries[a]
         \/ \E s \in Terminal :
              /\ log' = Append(log, Finished(r, a, s, task[r][a].attempt))
              /\ inv'[r][a] = [status |-> s, attempts |-> task[r][a].attempt]
<1>1. a \in Members /\ inv \in [Rounds -> [Members -> InvocationRow]]
  BY DEF MemoryInv, TypeOK, Members
<1>2. CASE StartAttempt(r, a)
  <2>1. task[r][a].attempt <= MaxRetries[a]
    <3>1. TaskCoherent(r, a) /\ task[r][a].pc \in {"queued", "backoff"} /\ MaxRetries[a] \in Nat
      BY <1>2, EngineAssumption DEF StartAttempt, MemoryInv, TaskMatchesRow
    <3> QED
      BY <3>1 DEF TaskCoherent
  <2> QED
    BY <1>1, <1>2, <2>1 DEF StartAttempt, Throw
<1>3. CASE RetryLater(r, a)
  BY <1>3 DEF RetryLater
<1>4. ASSUME NEW s \in Outcomes, FinishAgent(r, a, s)
      PROVE  \/ log' = log /\ inv' = inv
             \/ /\ log' = Append(log, Finished(r, a, s, task[r][a].attempt))
                /\ inv'[r][a] = [status |-> s, attempts |-> task[r][a].attempt]
  BY <1>1, <1>4 DEF FinishAgent, Throw
<1>5. \A s \in Outcomes : s \in Terminal
  BY EngineAssumption DEF Terminal
<1> QED
  BY <1>2, <1>3, <1>4, <1>5 DEF AgentStep

LEMMA AgentLogStep ==
  ASSUME MemoryInv, AllLogged, NEW r \in Rounds, NEW a \in Agents, AgentStep(r, a)
  PROVE  AllLogged'
<1> DEFINE k == task[r][a].attempt
<1>1. /\ rounds' = rounds /\ log \in Seq(Event) /\ a \in Members /\ k \in Nat
      /\ \A x \in Rounds, y \in Members : ~(x = r /\ y = a) => inv'[x][y] = inv[x][y]
      /\ task[r][a].pc \in {"queued", "spawned", "cancelled", "backoff"}
  BY AgentEffect, TaskTypes DEF MemoryInv, TypeOK, Members
<1>2. inv[r][a].status \notin Terminal /\ inv[r][a].attempts = k
  <2>1. TaskCoherent(r, a)
    BY DEF MemoryInv, TaskMatchesRow
  <2> QED
    BY <1>1, <2>1 DEF TaskCoherent, Placeholder, Terminal, SettledStatus
<1> HIDE DEF k
<1>3. CASE log' = log /\ inv' = inv
  BY <1>1, <1>3, SilentStep
<1>4. CASE /\ log' = Append(log, Started(r, a, k + 1))
           /\ inv'[r][a] = [status |-> "running", attempts |-> k + 1]
           /\ k <= MaxRetries[a]
  BY <1>1, <1>2, <1>4, AttemptStep
<1>5. ASSUME NEW s \in Terminal,
             log' = Append(log, Finished(r, a, s, k)),
             inv'[r][a] = [status |-> s, attempts |-> k]
      PROVE  AllLogged'
  BY <1>1, <1>2, <1>5, FinishStep
<1> QED
  BY <1>3, <1>4, <1>5, AgentLogs DEF k

(* The two ways a running daemon completes a round.                        *)
LEMMA CompleteLogs ==
  ASSUME MemoryInv, NEW r \in Rounds, CompleteRound(r)
  PROVE  /\ inv' = inv /\ rounds[r].state = "running"
         /\ \/ log' = log /\ rounds' = rounds
            \/ \E v \in QuorumVerdict :
                 /\ log' = Append(log, Completed(r, v))
                 /\ rounds'[r].state = "complete" /\ rounds'[r].verdict = v
                 /\ \A x \in Rounds : x # r => rounds'[x] = rounds[x]
<1>1. inv' = inv /\ tail[r] = "dispatched"
  BY DEF CompleteRound, DecideRound, FailRound
<1>2. rounds[r].state = "running" /\ rounds \in [Rounds -> RoundRow]
  BY <1>1 DEF MemoryInv, TailMatchesRows, RoundCoherent, TypeOK
<1>3. PICK v \in QuorumVerdict, q \in {"resolved", "rejected"} : CompleteWith(r, v, q)
  BY VerdictType DEF CompleteRound, DecideRound, FailRound, QuorumVerdict
<1>4. CASE rounds' = [rounds EXCEPT ![r].state = "complete", ![r].verdict = v]
  <2>1. /\ rounds'[r] = [rounds[r] EXCEPT !.state = "complete", !.verdict = v]
        /\ \A x \in Rounds : x # r => rounds'[x] = rounds[x]
    BY <1>2, <1>4
  <2>2. rounds'[r].state = "complete" /\ rounds'[r].verdict = v
    BY <1>2, <2>1 DEF RoundRow
  <2>3. \/ log' = Append(log, Completed(r, v))
        \/ log' = log /\ rounds' = rounds
    BY <1>3 DEF CompleteWith
  <2> QED
    BY <1>1, <1>2, <2>1, <2>2, <2>3
<1>5. CASE log' = log /\ rounds' = rounds
  BY <1>1, <1>2, <1>5
<1> QED
  BY <1>3, <1>4, <1>5 DEF CompleteWith

LEMMA CompleteLogStep ==
  ASSUME MemoryInv, AllLogged, NEW r \in Rounds, CompleteRound(r)
  PROVE  AllLogged'
<1>1. inv' = inv /\ rounds[r].state # "complete" /\ log \in Seq(Event)
  BY CompleteLogs DEF MemoryInv, TypeOK
<1>2. CASE log' = log /\ rounds' = rounds
  BY <1>1, <1>2, SilentStep
<1>3. ASSUME NEW v \in QuorumVerdict,
             log' = Append(log, Completed(r, v)),
             rounds'[r].state = "complete", rounds'[r].verdict = v,
             \A x \in Rounds : x # r => rounds'[x] = rounds[x]
      PROVE  AllLogged'
  BY <1>1, <1>3, CompletionStep
<1> QED
  BY <1>2, <1>3, CompleteLogs

LEMMA LogStep ==
  ASSUME MemoryInv, AllLogged, [Next]_vars
  PROVE  AllLogged'
<1>1. ASSUME NEW r \in Rounds, DispatchAgents(r) \/ CancelRound(r)
      PROVE  AllLogged'
  BY <1>1, SilentStep DEF DispatchAgents, CancelRound
<1>2. CASE Crash \/ UNCHANGED vars
  BY <1>2, SilentStep DEF Crash, vars
<1> QED
  BY <1>1, <1>2, StartStep, RecordStep, AgentLogStep, CompleteLogStep, ReconcileStep
     DEF Next, TailStep

LEMMA LogStart == Init => AllLogged
<1> SUFFICES ASSUME Init PROVE AllLogged
  OBVIOUS
<1>1. DOMAIN log = {}
  BY DEF Init
<1>2. \A r, m : StartedAt(log, r, m) = {} /\ FinishedAt(log, r, m) = {} /\ CompletedAt(log, r) = {}
  BY <1>1 DEF StartedAt, FinishedAt, CompletedAt
<1>3. \A r \in Rounds : rounds[r].state # "complete"
  BY DEF Init, NoRound
<1>4. \A r \in Rounds, m \in Members : inv[r][m].status \notin Terminal /\ inv[r][m].attempts = 0
  BY DEF Init, Placeholder, Terminal, SettledStatus
<1>5. \A a \in Agents : 0 <= MaxRetries[a] + 1
  BY EngineAssumption
<1> QED
  BY <1>2, <1>3, <1>4, <1>5 DEF AllLogged, FinishLogged, AttemptsLogged, CompletionLogged, Members

(* The log tells what the tables say, attempt by attempt, across crashes   *)
(* and failed writes.                                                      *)
THEOREM LogTellsTables == Spec => [](LogMatchesTables /\ AttemptsInOrder)
<1>1. Spec => []AllLogged
  BY LogStart, LogStep, MemoryMatchesTables, PTL DEF Spec
<1> QED
  BY <1>1, AllLoggedIsLog, PTL

(***************************************************************************)
(* The completion of a round is its last event, as long as writes succeed. *)
(***************************************************************************)

(* What is logged is about a round that is not complete.                   *)
LEMMA NewsIsOpen ==
  ASSUME MemoryInv, VerdictHonest, ~StoreMayFail, [Next]_vars
  PROVE  /\ Grown(log, log')
         /\ \A r \in Rounds, i \in News(log, log') :
              IsAbout(log'[i], r) => rounds[r].state # "complete"
         /\ \A r \in Rounds, i, j \in News(log, log') :
              IsCompleted(log'[i], r) /\ i < j => ~IsAbout(log'[j], r)
<1> DEFINE Concl ==
      /\ Grown(log, log')
      /\ \A r \in Rounds, i \in News(log, log') :
           IsAbout(log'[i], r) => rounds[r].state # "complete"
      /\ \A r \in Rounds, i, j \in News(log, log') :
           IsCompleted(log'[i], r) /\ i < j => ~IsAbout(log'[j], r)
<1> SUFFICES Concl
  OBVIOUS
<1>1. log \in Seq(Event)
  BY DEF MemoryInv, TypeOK
<1>2. ASSUME log' = log
      PROVE  Concl
  BY <1>1, <1>2, SameLogGrows
<1>3. ASSUME NEW e \in Event, NEW x \in Rounds, log' = Append(log, e), rounds[x].state # "complete",
             \A r \in Rounds : IsAbout(e, r) => r = x
      PROVE  Concl
  <2>1. Grown(log, log') /\ News(log, log') = {Len(log) + 1} /\ log'[Len(log) + 1] = e
    BY <1>1, <1>3, AppendGrows
  <2>2. Len(log) + 1 \in Nat
    BY <1>1, LenProperties
  <2> QED
    BY <1>3, <2>1, <2>2
<1> HIDE DEF Concl
<1>4. ASSUME NEW n \in Runs, NEW x \in Rounds, StartRound(n, x)
      PROVE  Concl
  <2>1. rounds[x].state # "complete"
    BY <1>4 DEF StartRound, StartRoundWithPending
  <2>2. /\ Grown(log, log')
        /\ \A i \in News(log, log') : log'[i] = RunCreated(n) \/ log'[i] = RoundStarted(x)
    BY <1>4, StartLogs DEF MemoryInv
  <2>3. ASSUME NEW r \in Rounds, NEW i \in News(log, log')
        PROVE  ~IsCompleted(log'[i], r) /\ (IsAbout(log'[i], r) => r = x)
    BY <2>2, RunCreatedSays, RoundStartedSays
  <2>4. ASSUME NEW r \in Rounds, NEW i \in News(log, log'), IsAbout(log'[i], r)
        PROVE  rounds[r].state # "complete"
    BY <2>1, <2>3, <2>4
  <2> QED
    BY <2>2, <2>3, <2>4 DEF Concl
<1>5. ASSUME NEW x \in Rounds, NEW m \in Unavailable, RecordUnavailable(x, m)
      PROVE  Concl
  <2>1. rounds[x].state # "complete" /\ m \in Members
    BY <1>5 DEF RecordUnavailable, MemoryInv, TailMatchesRows, RoundCoherent, Members
  <2>2. log' = Append(log, Finished(x, m, "unavailable", 0))
    BY <1>5 DEF RecordUnavailable
  <2>3. Finished(x, m, "unavailable", 0) \in Event
    BY <2>1, EventTypes DEF Terminal, SettledStatus
  <2> QED
    BY <1>3, <2>1, <2>2, <2>3, FinishedSays
<1>6. ASSUME NEW x \in Rounds, NEW a \in Agents, AgentStep(x, a)
      PROVE  Concl
  <2> DEFINE k == task[x][a].attempt
  <2>1. /\ task[x][a].pc \in {"queued", "spawned", "cancelled", "backoff"}
        /\ TaskCoherent(x, a) /\ a \in Members /\ k \in Nat
    BY <1>6, AgentEffect, TaskTypes DEF MemoryInv, TypeOK, TaskMatchesRow, Members
  <2>2. inv[x][a].status \notin Terminal
    BY <2>1 DEF TaskCoherent, Placeholder, Terminal, SettledStatus
  <2>3. rounds[x].state # "complete"
    BY <2>1, <2>2 DEF VerdictHonest
  <2>4. \/ log' = log
        \/ log' = Append(log, Started(x, a, k + 1))
        \/ \E s \in Terminal : log' = Append(log, Finished(x, a, s, k))
    BY <1>6, AgentLogs
  <2>5. Started(x, a, k + 1) \in Event /\ \A s \in Terminal : Finished(x, a, s, k) \in Event
    BY <2>1, EventTypes
  <2> HIDE DEF k
  <2>6. ASSUME log' = Append(log, Started(x, a, k + 1))
        PROVE  Concl
    <3>1. \A r \in Rounds : IsAbout(Started(x, a, k + 1), r) => r = x
      BY StartedSays
    <3> QED
      BY <1>3, <2>3, <2>5, <2>6, <3>1
  <2>7. ASSUME NEW s \in Terminal, log' = Append(log, Finished(x, a, s, k))
        PROVE  Concl
    <3>1. \A r \in Rounds : IsAbout(Finished(x, a, s, k), r) => r = x
      BY FinishedSays
    <3> QED
      BY <1>3, <2>3, <2>5, <2>7, <3>1
  <2> QED
    BY <1>2, <2>4, <2>6, <2>7
<1>7. ASSUME NEW x \in Rounds, CompleteRound(x)
      PROVE  Concl
  <2>1. /\ rounds[x].state # "complete"
        /\ log' = log \/ \E v \in QuorumVerdict : log' = Append(log, Completed(x, v))
    BY <1>7, CompleteLogs
  <2>2. \A v \in QuorumVerdict : Completed(x, v) \in Event
    BY EventTypes
  <2>3. ASSUME NEW v \in QuorumVerdict, log' = Append(log, Completed(x, v))
        PROVE  Concl
    <3>1. \A r \in Rounds : IsAbout(Completed(x, v), r) => r = x
      BY CompletedSays
    <3> QED
      BY <1>3, <2>1, <2>2, <2>3, <3>1
  <2> QED
    BY <1>2, <2>1, <2>3
<1>8. CASE Reconcile
  <2>1. /\ Grown(log, log')
        /\ \A i \in News(log, log') : log'[i] \in InterruptedEvents \/ log'[i] \in RepairedEvents
        /\ \A i, j \in News(log, log') : log'[i] = log'[j] => i = j
        /\ \A i, j \in News(log, log') :
             log'[i] \in RepairedEvents /\ i < j => log'[j] \in RepairedEvents
    BY <1>8, ReconcileLogs DEF MemoryInv
  <2>2. ASSUME NEW r \in Rounds, NEW i \in News(log, log'), IsAbout(log'[i], r)
        PROVE  rounds[r].state # "complete"
    <3>1. CASE log'[i] \in InterruptedEvents
      <4>1. PICK m \in Members : InFlight(r, m)
        BY <2>2, <3>1, InterruptedSay
      <4>2. inv[r][m].status \notin Terminal
        BY <4>1 DEF InFlight, Terminal, SettledStatus
      <4> QED
        BY <4>2 DEF VerdictHonest
    <3>2. CASE log'[i] \in RepairedEvents
      BY <2>2, <3>2, RepairedSay
    <3> QED
      BY <2>1, <3>1, <3>2
  <2>3. ASSUME NEW r \in Rounds, NEW i \in News(log, log'), NEW j \in News(log, log'),
               IsCompleted(log'[i], r), i < j, IsAbout(log'[j], r)
        PROVE  FALSE
    <3>1. log'[i] \in RepairedEvents
      BY <2>1, <2>3, InterruptedSay
    <3>2. log'[j] \in RepairedEvents
      BY <2>1, <2>3, <3>1
    <3>3. log'[i] = Completed(r, RepairedVerdict(r)) /\ log'[j] = Completed(r, RepairedVerdict(r))
      BY <2>3, <3>1, <3>2, RepairedSay
    <3>4. i = j /\ i \in Nat
      BY <2>1, <3>3 DEF Grown, News
    <3> QED
      BY <2>3, <3>4
  <2> QED
    BY <2>1, <2>2, <2>3 DEF Concl
<1>9. ASSUME NEW x \in Rounds, DispatchAgents(x) \/ CancelRound(x)
      PROVE  Concl
  BY <1>2, <1>9 DEF DispatchAgents, CancelRound
<1>10. CASE Crash \/ UNCHANGED vars
  BY <1>2, <1>10 DEF Crash, vars
<1> QED
  BY <1>4, <1>5, <1>6, <1>7, <1>8, <1>9, <1>10 DEF Next, TailStep

LEMMA LastStep ==
  ASSUME MemoryInv, VerdictHonest, LogMatchesTables, CompletionIsLastEvent, ~StoreMayFail,
         [Next]_vars
  PROVE  CompletionIsLastEvent'
<1> SUFFICES ASSUME NEW r \in Rounds, NEW i \in CompletedAt(log', r), NEW j \in DOMAIN log',
                    i < j, IsAbout(log'[j], r)
             PROVE  FALSE
  BY DEF CompletionIsLastEvent, IsAbout
<1>1. Grown(log, log')
  BY NewsIsOpen
<1>2. i \in DOMAIN log' /\ IsCompleted(log'[i], r)
  BY DEF CompletedAt, IsCompleted
<1>3. CASE i \in DOMAIN log /\ j \in DOMAIN log
  BY <1>1, <1>2, <1>3 DEF Grown, CompletionIsLastEvent, CompletedAt, IsAbout, IsCompleted
<1>4. CASE i \in DOMAIN log /\ j \in News(log, log')
  <2>1. i \in CompletedAt(log, r)
    BY <1>1, <1>2, <1>4 DEF Grown, CompletedAt, IsCompleted
  <2>2. rounds[r].state = "complete"
    BY <2>1 DEF LogMatchesTables
  <2> QED
    BY <1>4, <2>2, NewsIsOpen
<1>5. CASE i \in News(log, log') /\ j \in DOMAIN log
  BY <1>1, <1>5 DEF Grown, News
<1>6. CASE i \in News(log, log') /\ j \in News(log, log')
  BY <1>2, <1>6, NewsIsOpen
<1> QED
  BY <1>2, <1>3, <1>4, <1>5, <1>6 DEF News

(* As long as writes succeed the log tells everything the tables say, and  *)
(* a subscriber that stops at round-completed has missed nothing.          *)
THEOREM LogTellsAll ==
  ASSUME ~StoreMayFail
  PROVE  Spec => []LogInv
<1>1. Init => CompletionIsLastEvent
  BY DEF Init, CompletionIsLastEvent, CompletedAt
<1>2. MemoryInv /\ VerdictHonest /\ LogMatchesTables /\ CompletionIsLastEvent /\ [Next]_vars
        => CompletionIsLastEvent'
  BY LastStep
<1>3. Spec => [](LogMatchesTables /\ AttemptsInOrder)
  BY LogTellsTables
<1>4. Spec => []CompletionIsLastEvent
  BY <1>1, <1>2, <1>3, MemoryMatchesTables, VerdictsAreHonest, PTL DEF Spec
<1> QED
  BY <1>3, <1>4, PTL DEF LogInv

(***************************************************************************)
(* The numbering of the rounds of a run.                                   *)
(***************************************************************************)
NumberedUpTo(n) == {rounds[r].index : r \in RoundsOf(n)} = 0..(CountRounds(n) - 1)

LEMMA IndexesAreNumbers == RoundIndexes <=> \A n \in Runs : NumberedUpTo(n)
BY DEF RoundIndexes, NumberedUpTo, RoundsOf

(* Steps that renumber nothing and start no round of the run.              *)
LEMMA NumberingKept ==
  ASSUME NEW n, NumberedUpTo(n), RoundsOf(n)' = RoundsOf(n),
         \A r \in RoundsOf(n) : rounds'[r].index = rounds[r].index
  PROVE  NumberedUpTo(n)'
<1>1. CountRounds(n)' = CountRounds(n)
  BY DEF CountRounds, RoundsOf
<1>2. {rounds'[r].index : r \in RoundsOf(n)'} = {rounds[r].index : r \in RoundsOf(n)}
  OBVIOUS
<1> QED
  BY <1>1, <1>2 DEF NumberedUpTo

(* A round started in a run gets the next number.                          *)
LEMMA NumberingGrows ==
  ASSUME NEW n, NumberedUpTo(n), NEW r \in Rounds, r \notin RoundsOf(n),
         RoundsOf(n)' = RoundsOf(n) \cup {r}, rounds'[r].index = CountRounds(n),
         \A x \in RoundsOf(n) : rounds'[x].index = rounds[x].index
  PROVE  NumberedUpTo(n)'
<1>1. CountRounds(n) \in Nat /\ CountRounds(n)' = CountRounds(n) + 1
  <2>1. IsFiniteSet(RoundsOf(n))
    BY EngineAssumption, FS_Subset DEF RoundsOf
  <2>2. Cardinality(RoundsOf(n) \cup {r}) = Cardinality(RoundsOf(n)) + 1
    BY <2>1, FS_AddElement
  <2> QED
    BY <2>2, CountRoundsType DEF CountRounds, RoundsOf
<1>2. {rounds'[x].index : x \in RoundsOf(n)'} =
        {rounds[x].index : x \in RoundsOf(n)} \cup {CountRounds(n)}
  OBVIOUS
<1>3. (0..(CountRounds(n) - 1)) \cup {CountRounds(n)} = 0..(CountRounds(n)' - 1)
  BY <1>1
<1> QED
  BY <1>2, <1>3 DEF NumberedUpTo

LEMMA StartNumbers ==
  ASSUME MemoryInv, RoundIndexes, NEW n \in Runs, NEW r \in Rounds, StartRound(n, r)
  PROVE  RoundIndexes'
<1> DEFINE row == [run |-> n, index |-> CountRounds(n), state |-> "running", verdict |-> None]
<1>1. /\ rounds' = [rounds EXCEPT ![r] = row]
      /\ rounds[r] = NoRound /\ rounds \in [Rounds -> RoundRow]
  BY DEF StartRound, StartRoundWithPending, MemoryInv, TypeOK, TailMatchesRows,
         RoundCoherent
<1>2. rounds'[r] = row /\ \A x \in Rounds : x # r => rounds'[x] = rounds[x]
  BY <1>1
<1>3. row.run = n /\ row.index = CountRounds(n)
  OBVIOUS
<1> HIDE DEF row
<1>4. \A m \in Runs : r \notin RoundsOf(m)
  BY <1>1, EngineAssumption DEF NoRound, RoundsOf
<1> SUFFICES ASSUME NEW m \in Runs PROVE NumberedUpTo(m)'
  BY DEF RoundIndexes, NumberedUpTo, RoundsOf
<1>5. NumberedUpTo(m) /\ \A x \in RoundsOf(m) : rounds'[x] = rounds[x]
  BY <1>2, <1>4, IndexesAreNumbers DEF RoundsOf
<1>6. CASE m = n
  <2>1. RoundsOf(n)' = RoundsOf(n) \cup {r}
    BY <1>2, <1>3 DEF RoundsOf
  <2> QED
    BY <1>2, <1>3, <1>4, <1>5, <1>6, <2>1, NumberingGrows
<1>7. CASE m # n
  <2>1. RoundsOf(m)' = RoundsOf(m)
    BY <1>2, <1>3, <1>4, <1>7 DEF RoundsOf
  <2> QED
    BY <1>5, <2>1, NumberingKept
<1> QED
  BY <1>6, <1>7

(* A step that starts no round leaves every row with its run and number,   *)
(* and no row appears or disappears.                                       *)
LEMMA RowsKept ==
  ASSUME MemoryInv, [Next]_vars,
         \A n \in Runs, r \in Rounds : ~StartRound(n, r)
  PROVE  \A r \in Rounds : /\ rounds'[r].run = rounds[r].run
                           /\ rounds'[r].index = rounds[r].index
                           /\ rounds'[r].state = "absent" <=> rounds[r].state = "absent"
<1> DEFINE Same(r) == /\ rounds'[r].run = rounds[r].run
                      /\ rounds'[r].index = rounds[r].index
                      /\ rounds'[r].state = "absent" <=> rounds[r].state = "absent"
           Over(r, v) == [rounds[r] EXCEPT !.state = "complete", !.verdict = v]
<1> SUFFICES \A r \in Rounds : Same(r)
  OBVIOUS
<1>1. rounds \in [Rounds -> RoundRow]
  BY DEF MemoryInv, TypeOK
<1>2. ASSUME NEW r \in Rounds, NEW v, rounds[r].state # "absent", rounds'[r] = Over(r, v)
      PROVE  Same(r)
  <2>1. rounds[r] \in RoundRow
    BY <1>1
  <2> QED
    BY <1>2, <2>1 DEF RoundRow
<1>3. \A r \in Rounds : rounds'[r] = rounds[r] => Same(r)
  OBVIOUS
<1>4. ASSUME NEW x \in Rounds, CompleteRound(x)
      PROVE  \A r \in Rounds : Same(r)
  <2>1. PICK v : \/ rounds' = [rounds EXCEPT ![x].state = "complete", ![x].verdict = v]
                 \/ rounds' = rounds
    BY <1>4 DEF CompleteRound, DecideRound, FailRound, CompleteWith
  <2>2. rounds[x].state # "absent"
    BY <1>4, CompleteLogs
  <2>3. ASSUME NEW r \in Rounds
        PROVE  rounds'[r] = rounds[r] \/ (r = x /\ rounds'[r] = Over(r, v))
    <3>1. CASE r = x
      BY <1>1, <2>1, <3>1
    <3>2. CASE r # x
      BY <1>1, <2>1, <3>2
    <3> QED
      BY <3>1, <3>2
  <2> HIDE DEF Same, Over
  <2> QED
    BY <1>2, <1>3, <2>2, <2>3
<1>5. CASE Reconcile
  <2>1. \A r \in Rounds :
          /\ rounds[r].state # "running" => rounds'[r] = rounds[r]
          /\ rounds[r].state = "running" => rounds'[r] = Over(r, RepairedVerdict(r))
    BY <1>5, ReconcileEffect
  <2> HIDE DEF Same, Over
  <2> QED
    BY <1>2, <1>3, <2>1
<1>6. ASSUME NEW x \in Rounds, NEW a \in Agents, AgentStep(x, a)
      PROVE  rounds' = rounds
  BY <1>6, AgentEffect
<1>7. ASSUME NEW x \in Rounds,
             \/ \E m \in Unavailable : RecordUnavailable(x, m)
             \/ DispatchAgents(x)
             \/ CancelRound(x)
      PROVE  rounds' = rounds
  BY <1>7 DEF RecordUnavailable, DispatchAgents, CancelRound
<1>8. CASE Crash \/ UNCHANGED vars
  BY <1>3, <1>8 DEF Crash, vars
<1> HIDE DEF Same
<1> QED
  BY <1>3, <1>4, <1>5, <1>6, <1>7, <1>8 DEF Next, TailStep

LEMMA NumberStep ==
  ASSUME MemoryInv, RoundIndexes, [Next]_vars
  PROVE  RoundIndexes'
<1>1. CASE \A n \in Runs, r \in Rounds : ~StartRound(n, r)
  <2>1. \A r \in Rounds : rounds'[r].run = rounds[r].run /\ rounds'[r].index = rounds[r].index
    BY <1>1, RowsKept
  <2> SUFFICES ASSUME NEW n \in Runs PROVE NumberedUpTo(n)'
    BY DEF RoundIndexes, NumberedUpTo, RoundsOf
  <2>2. RoundsOf(n)' = RoundsOf(n) /\ \A r \in RoundsOf(n) : rounds'[r].index = rounds[r].index
    BY <2>1 DEF RoundsOf
  <2> QED
    BY <2>2, NumberingKept, IndexesAreNumbers
<1> QED
  BY <1>1, StartNumbers

(* The rounds of a run are numbered without a gap or a duplicate, whatever *)
(* fails, crashes or is cancelled in between.                              *)
THEOREM RoundsAreNumbered == Spec => []RoundIndexes
<1>1. Init => RoundIndexes
  <2> SUFFICES ASSUME Init, NEW n \in Runs PROVE NumberedUpTo(n)
    BY IndexesAreNumbers
  <2>1. RoundsOf(n) = {}
    BY EngineAssumption DEF Init, RoundsOf, NoRound
  <2>2. CountRounds(n) = 0
    BY <2>1, FS_EmptySet DEF CountRounds, RoundsOf
  <2> QED
    BY <2>1, <2>2 DEF NumberedUpTo
<1> QED
  BY <1>1, NumberStep, MemoryMatchesTables, PTL DEF Spec

(***************************************************************************)
(* The timeline of a run on show, and the snapshot it has to be.           *)
(***************************************************************************)

(* The start of round r, at position i of a log: nothing is logged of the  *)
(* round before it, and it starts once.                                    *)
IsOpening(lg, r, i) ==
  /\ i \in DOMAIN lg /\ lg[i] = RoundStarted(r)
  /\ \A j \in DOMAIN lg :
       j # i /\ lg[j].type # "run-created" /\ lg[j].round = r =>
         i < j /\ lg[j].type # "round-started"

(* The log tells of the rounds there are, each from its start on.          *)
RoundsLogged ==
  /\ \A i \in DOMAIN log : log[i].type # "run-created" => rounds[log[i].round].state # "absent"
  /\ \A r \in Rounds : rounds[r].state # "absent" => \E i \in DOMAIN log : IsOpening(log, r, i)

(* A row counts its attempts from the moment it leaves pending.            *)
RowsCount ==
  \A r \in Rounds, m \in Members :
    /\ inv[r][m].status = "pending" => inv[r][m].attempts = 0
    /\ inv[r][m].status = "running" => inv[r][m].attempts # 0

(* Positions up to k of the events of the run on show that say something   *)
(* of its round, of one member, of the verdict.                            *)
AboutWatched(lg, rs, i) == lg[i].type # "run-created" /\ rs[lg[i].round].run = Watched

RoundTold(lg, rs, k) ==
  {i \in 1..k : AboutWatched(lg, rs, i) /\ lg[i].type = "round-started"}

MemberTold(lg, rs, k, m) ==
  {i \in 1..k : /\ AboutWatched(lg, rs, i)
                /\ \/ lg[i].type = "round-started"
                   \/ /\ lg[i].type \in {"invocation-started", "invocation-finished"}
                      /\ lg[i].member = m}

VerdictTold(lg, rs, k) ==
  {i \in 1..k : AboutWatched(lg, rs, i) /\ lg[i].type \in {"round-started", "round-completed"}}

IsLast(i, S) == i \in S /\ \A j \in S : j <= i

AgentTold(e) ==
  IF e.type = "invocation-started" THEN Agent("running", e.attempt)
  ELSE IF e.type = "invocation-finished" THEN Agent(e.status, e.attempts)
  ELSE Agent("pending", 0)

VerdictOf(e) == IF e.type = "round-completed" THEN e.verdict ELSE None

RoundShows(lg, rs, t, k) ==
  \/ RoundTold(lg, rs, k) = {}
  \/ \E i : IsLast(i, RoundTold(lg, rs, k)) /\ t.roundIndex = rs[lg[i].round].index

MemberShows(lg, rs, t, k, m) ==
  \/ MemberTold(lg, rs, k, m) = {}
  \/ \E i : /\ IsLast(i, MemberTold(lg, rs, k, m))
            /\ m \in DOMAIN t.agents /\ t.agents[m] = AgentTold(lg[i])

VerdictShows(lg, rs, t, k) ==
  \/ VerdictTold(lg, rs, k) = {}
  \/ \E i : /\ IsLast(i, VerdictTold(lg, rs, k))
            /\ t.verdict = VerdictOf(lg[i])
            /\ t.done = (lg[i].type = "round-completed")

ShownRow ==
  [roundIndex : Nat, agents : UNION {[S -> InvocationRow] : S \in SUBSET Members},
   verdict : QuorumVerdict \cup {None}, done : BOOLEAN]

(* What is on show is what was told last: of the round, of each member, of *)
(* the verdict.                                                            *)
ShowsLastTold(lg, rs, t, k) ==
  /\ k \in 0..Len(lg) /\ t \in ShownRow
  /\ RoundShows(lg, rs, t, k)
  /\ \A m \in Members : MemberShows(lg, rs, t, k, m)
  /\ VerdictShows(lg, rs, t, k)

(***************************************************************************)
(* Rounds and rows.                                                        *)
(***************************************************************************)

(* Events are about known rounds.                                          *)
LEMMA EventAbout ==
  ASSUME TypeOK, NEW i \in DOMAIN log
  PROVE  /\ log[i] \in Event
         /\ log[i].type # "run-created" => log[i].round \in Rounds
<1>1. log[i] \in Event
  BY DEF TypeOK
<1> QED
  BY <1>1 DEF Event

(* The start of a round is the first news of it, after that of its run.    *)
LEMMA StartLogsOnce ==
  ASSUME TypeOK, NEW n \in Runs, NEW r \in Rounds, StartRound(n, r)
  PROVE  /\ Grown(log, log')
         /\ \E k \in News(log, log') :
              /\ log'[k] = RoundStarted(r)
              /\ \A i \in News(log, log') : i # k => log'[i] = RunCreated(n)
<1>1. log \in Seq(Event) /\ RunCreated(n) \in Event /\ RoundStarted(r) \in Event
  BY EventTypes DEF TypeOK
<1>2. CASE OpenRun(n, r)
  <2> DEFINE s == <<RunCreated(n), RoundStarted(r)>>
  <2>1. log' = log \o s
    BY <1>2 DEF OpenRun
  <2>2. /\ s \in Seq(Event) /\ DOMAIN s = {1, 2}
        /\ s[1] = RunCreated(n) /\ s[2] = RoundStarted(r)
    BY <1>1
  <2> HIDE DEF s
  <2>3. /\ Grown(log, log')
        /\ \A i \in News(log, log') : \E k \in DOMAIN s : i = Len(log) + k /\ log'[i] = s[k]
        /\ \A k \in DOMAIN s : Len(log) + k \in News(log, log') /\ log'[Len(log) + k] = s[k]
    BY <1>1, <2>1, <2>2, ConcatGrows
  <2>4. Len(log) + 2 \in News(log, log') /\ log'[Len(log) + 2] = RoundStarted(r)
    BY <2>2, <2>3
  <2>5. \A i \in News(log, log') : i # Len(log) + 2 => log'[i] = RunCreated(n)
    BY <2>2, <2>3
  <2> QED
    BY <2>3, <2>4, <2>5
<1>3. CASE DispatchRound(n, r)
  BY <1>1, <1>3, AppendGrows DEF DispatchRound
<1> QED
  BY <1>2, <1>3 DEF StartRound

(* A round that starts gets a row, and the other rows stay.                *)
LEMMA StartRow ==
  ASSUME MemoryInv, NEW n \in Runs, NEW r \in Rounds, StartRound(n, r)
  PROVE  /\ rounds[r].state = "absent" /\ rounds'[r].state = "running"
         /\ \A x \in Rounds : x # r => rounds'[x] = rounds[x]
         /\ \A x \in Rounds, m \in Members : x # r => inv'[x][m] = inv[x][m]
         /\ \A m \in Members : inv'[r][m] = Placeholder
<1>1. /\ rounds' = [rounds EXCEPT ![r] = [run |-> n, index |-> CountRounds(n),
                                          state |-> "running", verdict |-> None]]
      /\ inv' = [inv EXCEPT ![r] = [m \in Members |-> Placeholder]]
      /\ rounds[r].state = "absent"
  BY DEF StartRound, StartRoundWithPending
<1>2. rounds \in [Rounds -> RoundRow] /\ inv \in [Rounds -> [Members -> InvocationRow]]
  BY DEF MemoryInv, TypeOK
<1>3. rounds'[r] = [run |-> n, index |-> CountRounds(n), state |-> "running", verdict |-> None]
  BY <1>1, <1>2
<1>4. \A x \in Rounds : x # r => rounds'[x] = rounds[x] /\ inv'[x] = inv[x]
  BY <1>1, <1>2
<1>5. inv'[r] = [m \in Members |-> Placeholder]
  BY <1>1, <1>2
<1> QED
  BY <1>1, <1>3, <1>4, <1>5

(* Every other step tells of rounds that have started.                     *)
LEMMA NewsOfStarted ==
  ASSUME MemoryInv, [Next]_vars,
         \A n \in Runs, r \in Rounds : ~StartRound(n, r)
  PROVE  /\ Grown(log, log')
         /\ \A i \in News(log, log') :
              /\ log'[i].type \notin {"run-created", "round-started"}
              /\ log'[i].round \in Rounds /\ rounds[log'[i].round].state # "absent"
<1> DEFINE OfStarted(e) == /\ e.type \notin {"run-created", "round-started"}
                           /\ e.round \in Rounds /\ rounds[e.round].state # "absent"
           Concl == Grown(log, log') /\ \A i \in News(log, log') : OfStarted(log'[i])
<1> SUFFICES Concl
  OBVIOUS
<1>1. log \in Seq(Event)
  BY DEF MemoryInv, TypeOK
<1>2. log' = log => Concl
  BY <1>1, SameLogGrows
<1>3. ASSUME NEW e \in Event, log' = Append(log, e), OfStarted(e)
      PROVE  Concl
  BY <1>1, <1>3, AppendGrows
<1> HIDE DEF Concl
<1>4. ASSUME NEW x \in Rounds, NEW m \in Unavailable, RecordUnavailable(x, m)
      PROVE  Concl
  <2>1. rounds[x].state # "absent" /\ m \in Members
    BY <1>4 DEF RecordUnavailable, MemoryInv, TailMatchesRows, RoundCoherent, Members
  <2>2. log' = log \/ log' = Append(log, Finished(x, m, "unavailable", 0))
    BY <1>4 DEF RecordUnavailable
  <2>3. Finished(x, m, "unavailable", 0) \in Event /\ OfStarted(Finished(x, m, "unavailable", 0))
    BY <2>1, EventTypes DEF Terminal, SettledStatus, Finished
  <2> HIDE DEF OfStarted
  <2> QED
    BY <1>2, <1>3, <2>2, <2>3
<1>5. ASSUME NEW x \in Rounds, NEW a \in Agents, AgentStep(x, a)
      PROVE  Concl
  <2> DEFINE k == task[x][a].attempt
  <2>1. /\ task[x][a].pc \in {"queued", "spawned", "cancelled", "backoff"}
        /\ RoundCoherent(x) /\ a \in Members /\ k \in Nat
    BY <1>5, AgentEffect, TaskTypes DEF MemoryInv, TypeOK, TailMatchesRows, Members
  <2>2. rounds[x].state # "absent"
    BY <2>1 DEF RoundCoherent, IdleTask
  <2>3. \/ log' = log
        \/ log' = Append(log, Started(x, a, k + 1))
        \/ \E s \in Terminal : log' = Append(log, Finished(x, a, s, k))
    BY <1>5, AgentLogs
  <2>4. Started(x, a, k + 1) \in Event /\ \A s \in Terminal : Finished(x, a, s, k) \in Event
    BY <2>1, EventTypes
  <2>5. OfStarted(Started(x, a, k + 1)) /\ \A s \in Terminal : OfStarted(Finished(x, a, s, k))
    BY <2>2 DEF Started, Finished
  <2> HIDE DEF k, OfStarted
  <2> QED
    BY <1>2, <1>3, <2>3, <2>4, <2>5
<1>6. ASSUME NEW x \in Rounds, CompleteRound(x)
      PROVE  Concl
  <2>1. /\ rounds[x].state # "absent"
        /\ log' = log \/ \E v \in QuorumVerdict : log' = Append(log, Completed(x, v))
    BY <1>6, CompleteLogs
  <2>2. \A v \in QuorumVerdict : Completed(x, v) \in Event /\ OfStarted(Completed(x, v))
    BY <2>1, EventTypes DEF Completed
  <2> HIDE DEF OfStarted
  <2> QED
    BY <1>2, <1>3, <2>1, <2>2
<1>7. CASE Reconcile
  <2>1. /\ Grown(log, log')
        /\ \A i \in News(log, log') : log'[i] \in InterruptedEvents \cup RepairedEvents
    BY <1>7, ReconcileLogs DEF MemoryInv
  <2>2. \A e \in InterruptedEvents : OfStarted(e)
    <3> SUFFICES ASSUME NEW r \in Rounds, NEW m \in Members, InFlight(r, m)
                 PROVE  OfStarted(Finished(r, m, "interrupted", inv[r][m].attempts))
      BY DEF InterruptedEvents
    <3> QED
      BY DEF InFlight, Finished
  <2>3. \A e \in RepairedEvents : OfStarted(e)
    <3> SUFFICES ASSUME NEW r \in Rounds, rounds[r].state = "running"
                 PROVE  OfStarted(Completed(r, RepairedVerdict(r)))
      BY DEF RepairedEvents
    <3> QED
      BY DEF Completed
  <2> HIDE DEF OfStarted
  <2> QED
    BY <2>1, <2>2, <2>3 DEF Concl
<1>8. ASSUME NEW x \in Rounds, DispatchAgents(x) \/ CancelRound(x)
      PROVE  Concl
  BY <1>2, <1>8 DEF DispatchAgents, CancelRound
<1>9. CASE Crash \/ UNCHANGED vars
  BY <1>2, <1>9 DEF Crash, vars
<1> QED
  BY <1>4, <1>5, <1>6, <1>7, <1>8, <1>9 DEF Next, TailStep

LEMMA OpeningKept ==
  ASSUME NEW lg, NEW lg2, Grown(lg, lg2), NEW r, NEW i, IsOpening(lg, r, i),
         \A j \in News(lg, lg2) :
           lg2[j].type # "run-created" /\ lg2[j].round = r => lg2[j].type # "round-started"
  PROVE  IsOpening(lg2, r, i)
BY DEF Grown, News, IsOpening

LEMMA RoundsLoggedStep ==
  ASSUME MemoryInv, RoundsLogged, [Next]_vars
  PROVE  RoundsLogged'
<1>1. CASE \A n \in Runs, r \in Rounds : ~StartRound(n, r)
  <2>1. /\ Grown(log, log')
        /\ \A i \in News(log, log') :
             /\ log'[i].type \notin {"run-created", "round-started"}
             /\ log'[i].round \in Rounds /\ rounds[log'[i].round].state # "absent"
    BY <1>1, NewsOfStarted
  <2>2. \A r \in Rounds : rounds'[r].state = "absent" <=> rounds[r].state = "absent"
    BY <1>1, RowsKept
  <2>3. ASSUME NEW i \in DOMAIN log', log'[i].type # "run-created"
        PROVE  rounds'[log'[i].round].state # "absent"
    <3>1. CASE i \in DOMAIN log
      <4>1. log'[i] = log[i] /\ log[i].round \in Rounds
        BY <2>1, <2>3, <3>1, EventAbout DEF Grown, MemoryInv
      <4> QED
        BY <2>2, <2>3, <3>1, <4>1 DEF RoundsLogged
    <3>2. CASE i \in News(log, log')
      BY <2>1, <2>2, <3>2
    <3> QED
      BY <3>1, <3>2 DEF News
  <2>4. ASSUME NEW r \in Rounds, rounds'[r].state # "absent"
        PROVE  \E i \in DOMAIN log' : IsOpening(log', r, i)
    <3>1. PICK i \in DOMAIN log : IsOpening(log, r, i)
      BY <2>2, <2>4 DEF RoundsLogged
    <3>2. IsOpening(log', r, i)
      BY <2>1, <3>1, OpeningKept
    <3> QED
      BY <2>1, <3>2 DEF Grown
  <2> QED
    BY <2>3, <2>4 DEF RoundsLogged
<1>2. ASSUME NEW n \in Runs, NEW r \in Rounds, StartRound(n, r)
      PROVE  RoundsLogged'
  <2>1. /\ rounds[r].state = "absent" /\ rounds'[r].state = "running"
        /\ \A x \in Rounds : x # r => rounds'[x] = rounds[x]
    BY <1>2, StartRow
  <2>2. Grown(log, log')
    BY <1>2, StartLogsOnce DEF MemoryInv
  <2>3. PICK k \in News(log, log') :
          /\ log'[k] = RoundStarted(r)
          /\ \A i \in News(log, log') : i # k => log'[i] = RunCreated(n)
    BY <1>2, StartLogsOnce DEF MemoryInv
  <2>4. ASSUME NEW i \in DOMAIN log, log[i].type # "run-created"
        PROVE  /\ log'[i] = log[i] /\ log[i].round \in Rounds /\ log[i].round # r
               /\ rounds[log[i].round].state # "absent"
    BY <2>1, <2>2, <2>4, EventAbout DEF RoundsLogged, Grown, MemoryInv
  <2>5. \A i \in DOMAIN log : log'[i] = log[i]
    BY <2>2 DEF Grown
  <2>6. ASSUME NEW i \in DOMAIN log', log'[i].type # "run-created"
        PROVE  rounds'[log'[i].round].state # "absent"
    <3>1. CASE i \in DOMAIN log
      BY <2>1, <2>4, <2>5, <2>6, <3>1
    <3>2. CASE i \in News(log, log')
      <4>1. i = k
        BY <2>3, <2>6, <3>2 DEF RunCreated
      <4> QED
        BY <2>1, <2>3, <4>1 DEF RoundStarted
    <3> QED
      BY <3>1, <3>2 DEF News
  <2>7. IsOpening(log', r, k)
    <3>1. k \in DOMAIN log'
      BY DEF News
    <3>2. ASSUME NEW j \in DOMAIN log', j # k, log'[j].type # "run-created", log'[j].round = r
          PROVE  FALSE
      <4>1. CASE j \in DOMAIN log
        BY <2>4, <2>5, <3>2, <4>1
      <4>2. CASE j \in News(log, log')
        BY <2>3, <3>2, <4>2 DEF RunCreated
      <4> QED
        BY <4>1, <4>2 DEF News
    <3> QED
      BY <2>3, <3>1, <3>2 DEF IsOpening
  <2>8. ASSUME NEW x \in Rounds, rounds'[x].state # "absent"
        PROVE  \E i \in DOMAIN log' : IsOpening(log', x, i)
    <3>1. CASE x = r
      BY <2>7, <3>1 DEF News
    <3>2. CASE x # r
      <4>1. PICK i \in DOMAIN log : IsOpening(log, x, i)
        BY <2>1, <2>8, <3>2 DEF RoundsLogged
      <4>2. \A j \in News(log, log') : log'[j].type # "run-created" => log'[j].round # x
        BY <2>3, <3>2 DEF RunCreated, RoundStarted
      <4>3. IsOpening(log', x, i)
        BY <2>2, <4>1, <4>2, OpeningKept
      <4> QED
        BY <2>2, <4>3 DEF Grown
    <3> QED
      BY <3>1, <3>2
  <2> QED
    BY <2>6, <2>8 DEF RoundsLogged
<1> QED
  BY <1>1, <1>2

LEMMA RowsCountStep ==
  ASSUME MemoryInv, RowsCount, [Next]_vars
  PROVE  RowsCount'
<1> DEFINE Counts(row) == /\ row.status = "pending" => row.attempts = 0
                          /\ row.status = "running" => row.attempts # 0
<1> SUFFICES ASSUME NEW x \in Rounds, NEW y \in Members PROVE Counts(inv'[x][y])
  BY DEF RowsCount
<1>1. inv'[x][y] = inv[x][y] => Counts(inv'[x][y])
  BY DEF RowsCount
<1>2. \A s \in Terminal : \A k : Counts([status |-> s, attempts |-> k])
  BY DEF Terminal, SettledStatus
<1>3. inv \in [Rounds -> [Members -> InvocationRow]]
  BY DEF MemoryInv, TypeOK
<1>4. ASSUME NEW n \in Runs, NEW r \in Rounds, StartRound(n, r)
      PROVE  Counts(inv'[x][y])
  <2>1. x # r => inv'[x][y] = inv[x][y]
    BY <1>4, StartRow
  <2>2. x = r => inv'[x][y] = Placeholder
    BY <1>4, StartRow
  <2>3. Counts(Placeholder)
    BY DEF Placeholder
  <2> QED
    BY <1>1, <2>1, <2>2, <2>3
<1>5. ASSUME NEW r \in Rounds, NEW m \in Unavailable, RecordUnavailable(r, m)
      PROVE  Counts(inv'[x][y])
  <2>1. \/ inv' = inv
        \/ inv' = [inv EXCEPT ![r][m] = [status |-> "unavailable", attempts |-> 0]]
    BY <1>5 DEF RecordUnavailable
  <2>2. \/ inv'[x][y] = inv[x][y]
        \/ inv'[x][y] = [status |-> "unavailable", attempts |-> 0]
    BY <1>3, <2>1
  <2> QED
    BY <1>1, <1>2, <2>2 DEF Terminal, SettledStatus
<1>6. ASSUME NEW r \in Rounds, NEW a \in Agents, AgentStep(r, a)
      PROVE  Counts(inv'[x][y])
  <2> DEFINE k == task[r][a].attempt
  <2>1. /\ ~(x = r /\ y = a) => inv'[x][y] = inv[x][y]
        /\ k \in Nat
    BY <1>6, AgentEffect, TaskTypes DEF MemoryInv, TypeOK
  <2>2. \/ inv' = inv
        \/ inv'[r][a] = [status |-> "running", attempts |-> k + 1]
        \/ \E s \in Terminal : inv'[r][a] = [status |-> s, attempts |-> k]
    BY <1>6, AgentLogs
  <2>3. Counts([status |-> "running", attempts |-> k + 1])
    BY <2>1
  <2> HIDE DEF k, Counts
  <2> QED
    BY <1>1, <1>2, <2>1, <2>2, <2>3
<1>7. ASSUME NEW r \in Rounds,
             \/ CompleteRound(r)
             \/ DispatchAgents(r) \/ CancelRound(r)
      PROVE  Counts(inv'[x][y])
  BY <1>1, <1>7 DEF CompleteRound, DecideRound, FailRound, DispatchAgents, CancelRound
<1>8. CASE Reconcile
  <2>1. inv'[x][y] = inv[x][y] \/ inv'[x][y].status = "interrupted"
    BY <1>8, ReconcileEffect
  <2> QED
    BY <1>1, <2>1
<1>9. CASE Crash \/ UNCHANGED vars
  BY <1>1, <1>9 DEF Crash, vars
<1> HIDE DEF Counts
<1> QED
  BY <1>4, <1>5, <1>6, <1>7, <1>8, <1>9 DEF Next, TailStep

(***************************************************************************)
(* The reader.                                                             *)
(***************************************************************************)

(* A longer prefix tells what the shorter one told, and its last event.    *)
LEMMA ToldGrows ==
  ASSUME NEW lg, NEW rs, NEW k \in Nat
  PROVE  LET e == lg[k + 1]
             told == AboutWatched(lg, rs, k + 1)
         IN  /\ RoundTold(lg, rs, k + 1) =
                  IF told /\ e.type = "round-started"
                  THEN RoundTold(lg, rs, k) \cup {k + 1} ELSE RoundTold(lg, rs, k)
             /\ \A m : MemberTold(lg, rs, k + 1, m) =
                  IF /\ told
                     /\ \/ e.type = "round-started"
                        \/ /\ e.type \in {"invocation-started", "invocation-finished"}
                           /\ e.member = m
                  THEN MemberTold(lg, rs, k, m) \cup {k + 1} ELSE MemberTold(lg, rs, k, m)
             /\ VerdictTold(lg, rs, k + 1) =
                  IF told /\ e.type \in {"round-started", "round-completed"}
                  THEN VerdictTold(lg, rs, k) \cup {k + 1} ELSE VerdictTold(lg, rs, k)
<1>1. 1..(k + 1) = (1..k) \cup {k + 1}
  OBVIOUS
<1> QED
  BY <1>1 DEF RoundTold, MemberTold, VerdictTold

(* What was told up to k is what is told up to k of a longer log.          *)
LEMMA ToldStays ==
  ASSUME NEW lg, NEW rs, NEW lg2, NEW rs2, NEW k, NEW t,
         \A i \in 1..k : /\ lg2[i] = lg[i]
                         /\ lg[i].type # "run-created" =>
                              /\ rs2[lg[i].round].run = rs[lg[i].round].run
                              /\ rs2[lg[i].round].index = rs[lg[i].round].index
  PROVE  /\ RoundShows(lg, rs, t, k) => RoundShows(lg2, rs2, t, k)
         /\ \A m : MemberShows(lg, rs, t, k, m) => MemberShows(lg2, rs2, t, k, m)
         /\ VerdictShows(lg, rs, t, k) => VerdictShows(lg2, rs2, t, k)
<1>1. \A i \in 1..k : AboutWatched(lg2, rs2, i) <=> AboutWatched(lg, rs, i)
  BY DEF AboutWatched
<1>2. RoundTold(lg2, rs2, k) = RoundTold(lg, rs, k)
  BY <1>1 DEF RoundTold
<1>3. \A m : MemberTold(lg2, rs2, k, m) = MemberTold(lg, rs, k, m)
  BY <1>1 DEF MemberTold
<1>4. VerdictTold(lg2, rs2, k) = VerdictTold(lg, rs, k)
  BY <1>1 DEF VerdictTold
<1>5. RoundShows(lg, rs, t, k) => RoundShows(lg2, rs2, t, k)
  <2> SUFFICES ASSUME NEW i, IsLast(i, RoundTold(lg, rs, k)),
                      t.roundIndex = rs[lg[i].round].index
               PROVE  t.roundIndex = rs2[lg2[i].round].index
    BY <1>2 DEF RoundShows
  <2>1. i \in 1..k /\ lg[i].type # "run-created"
    BY DEF IsLast, RoundTold, AboutWatched
  <2> QED
    BY <2>1
<1>6. ASSUME NEW m, MemberShows(lg, rs, t, k, m)
      PROVE  MemberShows(lg2, rs2, t, k, m)
  <2>1. \A i : IsLast(i, MemberTold(lg, rs, k, m)) => lg2[i] = lg[i]
    BY DEF IsLast, MemberTold
  <2> QED
    BY <1>3, <1>6, <2>1 DEF MemberShows
<1>7. VerdictShows(lg, rs, t, k) => VerdictShows(lg2, rs2, t, k)
  <2>1. \A i : IsLast(i, VerdictTold(lg, rs, k)) => lg2[i] = lg[i]
    BY DEF IsLast, VerdictTold
  <2> QED
    BY <1>4, <2>1 DEF VerdictShows
<1> QED
  BY <1>5, <1>6, <1>7

(* Three ways for a prefix to say of something what is on show.            *)
LEMMA LastOfOne ==
  ASSUME NEW k \in Nat, NEW S \in SUBSET (1..k)
  PROVE  IsLast(k + 1, S \cup {k + 1})
BY DEF IsLast

(* An agent's row is replaced, or added.                                   *)
LEMMA Patched ==
  ASSUME NEW t \in ShownRow, NEW m \in Members, NEW row \in InvocationRow
  PROVE  LET p == PatchAgent(t, m, row)
         IN  /\ p \in ShownRow
             /\ p.roundIndex = t.roundIndex /\ p.verdict = t.verdict /\ p.done = t.done
             /\ m \in DOMAIN p.agents /\ p.agents[m] = row
             /\ \A x \in DOMAIN t.agents :
                  x # m => x \in DOMAIN p.agents /\ p.agents[x] = t.agents[x]
<1> DEFINE f == [x \in {m} \cup DOMAIN t.agents |-> IF x = m THEN row ELSE t.agents[x]]
           p == PatchAgent(t, m, row)
<1>1. PICK S \in SUBSET Members : t.agents \in [S -> InvocationRow]
  BY DEF ShownRow
<1>2. f \in [{m} \cup S -> InvocationRow] /\ {m} \cup S \in SUBSET Members
  BY <1>1
<1>3. /\ m \in DOMAIN f /\ f[m] = row
      /\ \A x \in DOMAIN t.agents : x # m => x \in DOMAIN f /\ f[x] = t.agents[x]
  OBVIOUS
<1>4. p = [t EXCEPT !.agents = f]
  BY DEF PatchAgent
<1> HIDE DEF f
<1>5. f \in UNION {[T -> InvocationRow] : T \in SUBSET Members}
  BY <1>2
<1>6. /\ p.agents = f /\ p.roundIndex = t.roundIndex
      /\ p.verdict = t.verdict /\ p.done = t.done
  BY <1>4 DEF ShownRow
<1>7. p \in ShownRow
  BY <1>4, <1>5 DEF ShownRow
<1> HIDE DEF p
<1> QED
  BY <1>3, <1>6, <1>7 DEF p

LEMMA ApplyStep ==
  ASSUME TypeOK, ShowsLastTold(log, rounds, shown, seen), Apply
  PROVE  ShowsLastTold(log, rounds, shown', seen')
<1> DEFINE k == seen
           e == log[k + 1]
<1>1. /\ k \in Nat /\ k + 1 \in 1..Len(log) /\ k + 1 \in DOMAIN log /\ seen' = k + 1
      /\ seen' \in 0..Len(log)
  <2>1. log \in Seq(Event) /\ Len(log) \in Nat /\ DOMAIN log = 1..Len(log)
    BY LenProperties DEF TypeOK
  <2> QED
    BY <2>1 DEF Apply, ShowsLastTold
<1>2. /\ e \in Event /\ (e.type # "run-created" => e.round \in Rounds)
      /\ shown \in ShownRow
  BY <1>1, EventAbout DEF ShowsLastTold
<1>3. shown' = IF RunOf(e) = Watched THEN ApplyEvent(shown, e) ELSE shown
  BY DEF Apply
<1> DEFINE told == AboutWatched(log, rounds, k + 1)
<1>4. told <=> e.type # "run-created" /\ rounds[e.round].run = Watched
  BY DEF AboutWatched
<1>5. told => shown' = ApplyEvent(shown, e)
  BY <1>3, <1>4 DEF RunOf
<1>6. ~told => shown' = shown
  <2> SUFFICES ASSUME ~told PROVE shown' = shown
    OBVIOUS
  <2>1. CASE e.type = "run-created"
    BY <1>3, <2>1 DEF ApplyEvent
  <2>2. CASE e.type # "run-created"
    BY <1>3, <1>4, <2>2 DEF RunOf
  <2> QED
    BY <2>1, <2>2
<1> DEFINE before(S) == S \in SUBSET (1..k)
<1>7. /\ before(RoundTold(log, rounds, k)) /\ before(VerdictTold(log, rounds, k))
      /\ \A m : before(MemberTold(log, rounds, k, m))
  BY DEF RoundTold, VerdictTold, MemberTold
<1>8. /\ RoundShows(log, rounds, shown, k) /\ VerdictShows(log, rounds, shown, k)
      /\ \A m \in Members : MemberShows(log, rounds, shown, k, m)
  BY DEF ShowsLastTold
<1> HIDE DEF k, told, before
<1> DEFINE OfMember(m) == \/ e.type = "round-started"
                          \/ /\ e.type \in {"invocation-started", "invocation-finished"}
                             /\ e.member = m
<1>9. /\ RoundTold(log, rounds, k + 1) =
           IF told /\ e.type = "round-started"
           THEN RoundTold(log, rounds, k) \cup {k + 1} ELSE RoundTold(log, rounds, k)
      /\ \A m : MemberTold(log, rounds, k + 1, m) =
           IF told /\ OfMember(m)
           THEN MemberTold(log, rounds, k, m) \cup {k + 1} ELSE MemberTold(log, rounds, k, m)
      /\ VerdictTold(log, rounds, k + 1) =
           IF told /\ e.type \in {"round-started", "round-completed"}
           THEN VerdictTold(log, rounds, k) \cup {k + 1} ELSE VerdictTold(log, rounds, k)
  BY <1>1, ToldGrows DEF told
<1> HIDE DEF OfMember
<1>10. \A S : before(S) => IsLast(k + 1, S \cup {k + 1})
  BY <1>1, LastOfOne DEF before
<1>11. /\ told /\ e.type = "round-started" => IsLast(k + 1, RoundTold(log, rounds, k + 1))
       /\ \A m : told /\ OfMember(m) => IsLast(k + 1, MemberTold(log, rounds, k + 1, m))
       /\ told /\ e.type \in {"round-started", "round-completed"}
            => IsLast(k + 1, VerdictTold(log, rounds, k + 1))
  BY <1>7, <1>9, <1>10
<1> HIDE DEF e
<1> SUFFICES /\ shown' \in ShownRow
             /\ RoundShows(log, rounds, shown', k + 1)
             /\ \A m \in Members : MemberShows(log, rounds, shown', k + 1, m)
             /\ VerdictShows(log, rounds, shown', k + 1)
  BY <1>1 DEF ShowsLastTold
<1>12. ASSUME ~(told /\ e.type = "round-started"), shown'.roundIndex = shown.roundIndex
       PROVE  RoundShows(log, rounds, shown', k + 1)
  BY <1>8, <1>9, <1>12 DEF RoundShows
<1>13. ASSUME ~(told /\ e.type \in {"round-started", "round-completed"}),
              shown'.verdict = shown.verdict, shown'.done = shown.done
       PROVE  VerdictShows(log, rounds, shown', k + 1)
  BY <1>8, <1>9, <1>13 DEF VerdictShows
<1>14. ASSUME NEW m \in Members, ~(told /\ OfMember(m)),
              m \in DOMAIN shown.agents =>
                m \in DOMAIN shown'.agents /\ shown'.agents[m] = shown.agents[m]
       PROVE  MemberShows(log, rounds, shown', k + 1, m)
  BY <1>8, <1>9, <1>14 DEF MemberShows
<1>15. ASSUME NEW m \in Members, told, OfMember(m),
              m \in DOMAIN shown'.agents, shown'.agents[m] = AgentTold(e)
       PROVE  MemberShows(log, rounds, shown', k + 1, m)
  BY <1>11, <1>15 DEF MemberShows, e
<1>16. CASE ~told
  <2>1. shown' = shown
    BY <1>6, <1>16
  <2> QED
    BY <1>2, <1>12, <1>13, <1>14, <1>16, <2>1
<1>17. CASE told /\ e.type = "round-started"
  <2>1. shown' = RoundShown(shown, e.round) /\ e.round \in Rounds
    BY <1>2, <1>4, <1>5, <1>17 DEF ApplyEvent, e
  <2>2. /\ rounds[e.round].index \in Nat
        /\ [m \in Members |-> Agent("pending", 0)] \in [Members -> InvocationRow]
    BY <2>1 DEF TypeOK, RoundRow, InvocationRow, InvocationStatus, Agent
  <2>3. /\ shown'.roundIndex = rounds[e.round].index
        /\ shown'.verdict = None /\ shown'.done = FALSE
        /\ shown'.agents = [m \in Members |-> Agent("pending", 0)]
    BY <2>1 DEF RoundShown
  <2>4. shown' \in ShownRow
    <3>1. shown'.agents \in UNION {[S -> InvocationRow] : S \in SUBSET Members}
      BY <2>2, <2>3
    <3> QED
      BY <2>1, <2>2, <2>3, <3>1 DEF RoundShown, ShownRow
  <2>5. RoundShows(log, rounds, shown', k + 1)
    BY <1>11, <1>17, <2>3 DEF RoundShows, e
  <2>6. VerdictShows(log, rounds, shown', k + 1)
    BY <1>11, <1>17, <2>3 DEF VerdictShows, VerdictOf, e
  <2>7. ASSUME NEW m \in Members
        PROVE  MemberShows(log, rounds, shown', k + 1, m)
    <3>1. AgentTold(e) = Agent("pending", 0)
      BY <1>17 DEF AgentTold
    <3>2. OfMember(m)
      BY <1>17 DEF OfMember
    <3>3. m \in DOMAIN shown'.agents /\ shown'.agents[m] = Agent("pending", 0)
      BY <2>3
    <3> QED
      BY <1>15, <1>17, <3>1, <3>2, <3>3
  <2> QED
    BY <2>4, <2>5, <2>6, <2>7
<1>18. CASE told /\ e.type \in {"invocation-started", "invocation-finished"}
  <2>1. shown' = PatchAgent(shown, e.member, AgentTold(e))
    BY <1>5, <1>18 DEF ApplyEvent, AgentTold, e
  <2>2. e.member \in Members
    BY <1>2, <1>18 DEF Event, Members, e
  <2>3. AgentTold(e) \in InvocationRow
    <3>1. CASE e.type = "invocation-started"
      <4>1. e.attempt \in Nat
        BY <1>2, <3>1 DEF Event, e
      <4> QED
        BY <3>1, <4>1 DEF AgentTold, Agent, InvocationRow, InvocationStatus
    <3>2. CASE e.type = "invocation-finished"
      <4>1. e.attempts \in Nat /\ e.status \in Terminal
        BY <1>2, <3>2 DEF Event, e
      <4> QED
        BY <3>2, <4>1 DEF AgentTold, Agent, InvocationRow, InvocationStatus, Terminal
    <3> QED
      BY <1>18, <3>1, <3>2
  <2>4. /\ shown' \in ShownRow
        /\ shown'.roundIndex = shown.roundIndex
        /\ shown'.verdict = shown.verdict /\ shown'.done = shown.done
        /\ e.member \in DOMAIN shown'.agents /\ shown'.agents[e.member] = AgentTold(e)
        /\ \A x \in DOMAIN shown.agents : x # e.member =>
             x \in DOMAIN shown'.agents /\ shown'.agents[x] = shown.agents[x]
    BY <1>2, <2>1, <2>2, <2>3, Patched
  <2>5. \A m : OfMember(m) <=> e.member = m
    BY <1>18 DEF OfMember
  <2>6. ASSUME NEW m \in Members
        PROVE  MemberShows(log, rounds, shown', k + 1, m)
    <3>1. CASE m = e.member
      BY <1>15, <1>18, <2>4, <2>5, <3>1
    <3>2. CASE m # e.member
      BY <1>14, <2>4, <2>5, <3>2
    <3> QED
      BY <3>1, <3>2
  <2>7. ~(e.type \in {"round-started", "round-completed"})
    BY <1>18
  <2> QED
    BY <1>12, <1>13, <2>4, <2>6, <2>7
<1>19. CASE told /\ e.type = "round-completed"
  <2>1. shown' = [shown EXCEPT !.verdict = e.verdict, !.done = TRUE]
    BY <1>5, <1>19 DEF ApplyEvent, e
  <2>2. e.verdict \in QuorumVerdict
    BY <1>2, <1>19 DEF Event, e
  <2>3. /\ shown' \in ShownRow
        /\ shown'.roundIndex = shown.roundIndex /\ shown'.agents = shown.agents
        /\ shown'.verdict = e.verdict /\ shown'.done = TRUE
    BY <1>2, <2>1, <2>2 DEF ShownRow
  <2>4. VerdictShows(log, rounds, shown', k + 1)
    BY <1>11, <1>19, <2>3 DEF VerdictShows, VerdictOf, e
  <2>5. \A m : ~OfMember(m)
    BY <1>19 DEF OfMember
  <2>6. e.type # "round-started"
    BY <1>19
  <2> QED
    BY <1>12, <1>14, <2>3, <2>4, <2>5, <2>6
<1>20. told => e.type \in {"round-started", "invocation-started", "invocation-finished",
                           "round-completed"}
  BY <1>2, <1>4 DEF Event, e
<1> QED
  BY <1>16, <1>17, <1>18, <1>19, <1>20

(* What the engine does on leaves what was told as it is.                  *)
LEMMA ReaderWaits ==
  ASSUME MemoryInv, RoundsLogged, ShowsLastTold(log, rounds, shown, seen), [Next]_vars
  PROVE  ShowsLastTold(log', rounds', shown, seen)
<1>1. /\ Grown(log, log')
      /\ \A r \in Rounds : rounds[r].state # "absent" =>
           rounds'[r].run = rounds[r].run /\ rounds'[r].index = rounds[r].index
  <2>1. CASE \A n \in Runs, r \in Rounds : ~StartRound(n, r)
    BY <2>1, RowsKept, NewsOfStarted
  <2>2. ASSUME NEW n \in Runs, NEW r \in Rounds, StartRound(n, r)
        PROVE  /\ Grown(log, log')
               /\ \A x \in Rounds : rounds[x].state # "absent" => rounds'[x] = rounds[x]
    BY <2>2, StartRow, StartLogsOnce DEF MemoryInv
  <2> QED
    BY <2>1, <2>2
<1>2. /\ log \in Seq(Event) /\ log' \in Seq(Event)
      /\ DOMAIN log = 1..Len(log) /\ DOMAIN log' = 1..Len(log')
      /\ Len(log) \in Nat /\ Len(log') \in Nat
  <2>1. TypeOK'
    BY MemoryStep DEF MemoryInv
  <2> QED
    BY <2>1, LenProperties DEF MemoryInv, TypeOK
<1>3. seen \in 0..Len(log) /\ seen \in 0..Len(log')
  BY <1>1, <1>2 DEF ShowsLastTold, Grown
<1>4. ASSUME NEW i \in 1..seen
      PROVE  /\ log'[i] = log[i]
             /\ log[i].type # "run-created" =>
                  /\ rounds'[log[i].round].run = rounds[log[i].round].run
                  /\ rounds'[log[i].round].index = rounds[log[i].round].index
  <2>1. i \in DOMAIN log
    BY <1>2, <1>3
  <2>2. log'[i] = log[i]
    BY <1>1, <2>1 DEF Grown
  <2>3. log[i].type # "run-created" =>
          log[i].round \in Rounds /\ rounds[log[i].round].state # "absent"
    BY <2>1, EventAbout DEF RoundsLogged, MemoryInv
  <2> QED
    BY <1>1, <2>2, <2>3
<1> QED
  BY <1>3, <1>4, ToldStays DEF ShowsLastTold

(***************************************************************************)
(* The snapshot.                                                           *)
(***************************************************************************)

(* A run has one latest round: numbering without a gap is without a        *)
(* duplicate.                                                              *)
LEMMA LatestRound ==
  ASSUME MemoryInv, RoundIndexes, NEW n \in Runs, RoundsOf(n) # {}
  PROVE  /\ Latest(n) \in RoundsOf(n)
         /\ \A r \in RoundsOf(n) : /\ rounds[r].index <= rounds[Latest(n)].index
                                   /\ rounds[r].index = rounds[Latest(n)].index => r = Latest(n)
<1> DEFINE S == RoundsOf(n)
           T == 0..(CountRounds(n) - 1)
           f == [r \in S |-> rounds[r].index]
<1>1. {rounds[r].index : r \in S} = T
  BY IndexesAreNumbers DEF NumberedUpTo
<1>2. IsFiniteSet(S) /\ CountRounds(n) = Cardinality(S) /\ CountRounds(n) \in Nat
  BY EngineAssumption, FS_Subset, CountRoundsType DEF RoundsOf, CountRounds
<1>3. Cardinality(T) = CountRounds(n) /\ IsFiniteSet(T)
  <2>1. IsFiniteSet(T)
    BY <1>2, FS_Interval
  <2>2. Cardinality(T) = IF 0 > CountRounds(n) - 1 THEN 0 ELSE (CountRounds(n) - 1) - 0 + 1
    BY <1>2, FS_Interval
  <2> QED
    BY <1>2, <2>1, <2>2
<1> HIDE DEF S, T
<1>4. f \in Surjection(S, T)
  <2>1. f \in [S -> T]
    BY <1>1
  <2>2. \A t \in T : \E r \in S : f[r] = t
    BY <1>1
  <2> QED
    BY <2>1, <2>2 DEF Surjection
<1>5. f \in Injection(S, T)
  BY <1>2, <1>3, <1>4, FS_Surjection
<1>6. \A x, y \in S : rounds[x].index = rounds[y].index => x = y
  BY <1>5 DEF Injection, IsInjective
<1>7. \A r \in S : rounds[r].index \in T
  BY <1>1
<1>8. CountRounds(n) - 1 \in T /\ \A i \in T : i <= CountRounds(n) - 1
  BY <1>2, <1>7 DEF S, T
<1>9. \E r \in S : rounds[r].index = CountRounds(n) - 1
  BY <1>1, <1>8
<1>10. Latest(n) \in S /\ rounds[Latest(n)].index = CountRounds(n) - 1
  BY <1>9 DEF Latest, S
<1> QED
  BY <1>6, <1>7, <1>8, <1>10 DEF S

(* With nothing told of the run after its latest round began but of that   *)
(* round, what was told last is the row, the state and the verdict.        *)
LEMMA CaughtUp ==
  ASSUME MemoryInv, AllLogged, RoundIndexes, RoundsLogged, RowsCount,
         ShowsLastTold(log, rounds, shown, seen)
  PROVE  TimelineIsSnapshot
<1> SUFFICES ASSUME seen = Len(log), Watched \in CreatedRuns, Sequential(Watched)
             PROVE  shown = SnapshotOf(Latest(Watched))
  BY DEF TimelineIsSnapshot
<1> DEFINE L == Latest(Watched)
<1>1. /\ L \in Rounds /\ rounds[L].run = Watched
      /\ \A r \in Rounds : rounds[r].run = Watched =>
           /\ rounds[r].index <= rounds[L].index
           /\ rounds[r].index = rounds[L].index => r = L
  <2>1. RoundsOf(Watched) # {}
    BY DEF CreatedRuns, RoundsOf
  <2> QED
    BY <2>1, LatestRound, TimelineAssumption DEF RoundsOf
<1> HIDE DEF L
<1>2. /\ log \in Seq(Event) /\ Len(log) \in Nat /\ DOMAIN log = 1..Len(log)
      /\ rounds \in [Rounds -> RoundRow] /\ inv \in [Rounds -> [Members -> InvocationRow]]
  BY LenProperties DEF MemoryInv, TypeOK
<1>3. rounds[L].state # "absent"
  BY <1>1, TimelineAssumption, EngineAssumption
     DEF MemoryInv, TailMatchesRows, RoundCoherent, NoRound
<1>4. PICK s : IsOpening(log, L, s)
  BY <1>1, <1>3 DEF RoundsLogged
<1>5. s \in 1..seen /\ log[s].type = "round-started" /\ log[s].round = L
  BY <1>2, <1>4 DEF IsOpening, RoundStarted
<1>6. \A i \in 1..seen : AboutWatched(log, rounds, i) => log[i].round \in Rounds
  BY <1>2, EventAbout DEF AboutWatched, MemoryInv
<1>7. ASSUME NEW i \in 1..seen, AboutWatched(log, rounds, i), s < i
      PROVE  log[i].round = L /\ log[i].type # "round-started"
  <2>1. rounds[L].index <= rounds[log[i].round].index
    BY <1>1, <1>2, <1>5, <1>7 DEF Sequential, RunOf, AboutWatched
  <2>2. rounds[log[i].round].index <= rounds[L].index /\ log[i].round \in Rounds
    BY <1>1, <1>6, <1>7 DEF AboutWatched
  <2>3. rounds[L].index \in Nat /\ rounds[log[i].round].index \in Nat
    BY <1>1, <1>2, <2>2 DEF RoundRow
  <2>4. log[i].round = L
    BY <1>1, <1>7, <2>1, <2>2, <2>3 DEF AboutWatched
  <2> QED
    BY <1>2, <1>4, <1>7, <2>4 DEF IsOpening, AboutWatched
<1>8. /\ s \in RoundTold(log, rounds, seen) /\ s \in VerdictTold(log, rounds, seen)
      /\ \A m : s \in MemberTold(log, rounds, seen, m)
  BY <1>1, <1>5 DEF RoundTold, VerdictTold, MemberTold, AboutWatched
<1>9. \A i \in DOMAIN log : log[i].type # "run-created" /\ log[i].round = L => i = s \/ s < i
  BY <1>4 DEF IsOpening
<1>10. \A i \in DOMAIN log : log[i].type # "run-created" /\ log[i].round = L =>
          AboutWatched(log, rounds, i) /\ i \in 1..seen
  BY <1>1, <1>2 DEF AboutWatched
<1>11. shown.roundIndex = rounds[L].index
  <2>1. PICK i : IsLast(i, RoundTold(log, rounds, seen))
                   /\ shown.roundIndex = rounds[log[i].round].index
    BY <1>8 DEF ShowsLastTold, RoundShows
  <2>2. /\ i \in 1..seen /\ AboutWatched(log, rounds, i) /\ log[i].type = "round-started"
        /\ s <= i
    BY <1>8, <2>1 DEF IsLast, RoundTold
  <2>3. i = s
    BY <1>5, <1>7, <2>2
  <2> QED
    BY <1>5, <2>1, <2>3
<1>12. /\ shown.verdict = rounds[L].verdict
       /\ shown.done = (rounds[L].state = "complete")
  <2>1. PICK i : /\ IsLast(i, VerdictTold(log, rounds, seen))
                 /\ shown.verdict = VerdictOf(log[i])
                 /\ shown.done = (log[i].type = "round-completed")
    BY <1>8 DEF ShowsLastTold, VerdictShows
  <2>2. /\ i \in 1..seen /\ AboutWatched(log, rounds, i) /\ s <= i
        /\ log[i].type \in {"round-started", "round-completed"}
        /\ \A j \in VerdictTold(log, rounds, seen) : j <= i
    BY <1>8, <2>1 DEF IsLast, VerdictTold
  <2>3. CompletionLogged(log, rounds[L], L)
    BY <1>1 DEF AllLogged
  <2>4. CASE i = s
    <3>1. CompletedAt(log, L) = {}
      <4> SUFFICES ASSUME NEW j \in CompletedAt(log, L) PROVE FALSE
        OBVIOUS
      <4>1. j \in DOMAIN log /\ log[j].type = "round-completed" /\ log[j].round = L
        BY DEF CompletedAt
      <4>2. j \in VerdictTold(log, rounds, seen) /\ (j = s \/ s < j)
        BY <1>9, <1>10, <4>1 DEF VerdictTold
      <4>3. j <= s /\ j \in Nat /\ s \in Nat
        BY <1>2, <1>5, <2>2, <2>4, <4>1, <4>2
      <4>4. j = s
        BY <4>2, <4>3
      <4> QED
        BY <1>5, <4>1, <4>4
    <3>2. rounds[L].state # "complete" /\ rounds[L].verdict = None
      BY <1>1, <2>3, <3>1
         DEF CompletionLogged, MemoryInv, TailMatchesRows, RoundCoherent
    <3> QED
      BY <1>5, <2>1, <2>4, <3>2 DEF VerdictOf
  <2>5. CASE i # s
    <3>1. log[i].round = L /\ log[i].type = "round-completed"
      BY <1>5, <1>7, <2>2, <2>5
    <3>2. i \in CompletedAt(log, L)
      BY <1>2, <2>2, <3>1 DEF CompletedAt
    <3>3. rounds[L].state = "complete" /\ log[i].verdict = rounds[L].verdict
      BY <2>3, <3>2 DEF CompletionLogged
    <3> QED
      BY <2>1, <3>1, <3>3 DEF VerdictOf
  <2> QED
    BY <2>4, <2>5
<1>13. ASSUME NEW m \in Members
       PROVE  m \in DOMAIN shown.agents /\ shown.agents[m] = inv[L][m]
  <2>1. PICK i : /\ IsLast(i, MemberTold(log, rounds, seen, m))
                 /\ m \in DOMAIN shown.agents /\ shown.agents[m] = AgentTold(log[i])
    BY <1>8 DEF ShowsLastTold, MemberShows
  <2>2. /\ i \in 1..seen /\ AboutWatched(log, rounds, i) /\ s <= i
        /\ \/ log[i].type = "round-started"
           \/ /\ log[i].type \in {"invocation-started", "invocation-finished"}
              /\ log[i].member = m
        /\ \A j \in MemberTold(log, rounds, seen, m) : j <= i
    BY <1>8, <2>1 DEF IsLast, MemberTold
  <2>3. FinishLogged(log, inv[L][m], L, m)
    BY <1>1 DEF AllLogged
  <2>4. inv[L][m] \in InvocationRow /\ RoundCoherent(L)
        /\ (inv[L][m].status = "pending" => inv[L][m].attempts = 0)
        /\ (inv[L][m].status = "running" => inv[L][m].attempts # 0)
    BY <1>1, <1>2 DEF RowsCount, MemoryInv, TailMatchesRows
  <2>5. inv[L][m] = Agent(inv[L][m].status, inv[L][m].attempts)
    BY <2>4 DEF InvocationRow, Agent
  <2>6. inv[L][m].status \notin Terminal => inv[L][m].status \in {"pending", "running"}
    BY <2>4 DEF InvocationRow, InvocationStatus, Terminal
  <2>7. \A j \in StartedAt(log, L, m) \cup FinishedAt(log, L, m) : j \in 1..seen /\ s < j /\ j <= i
    <3> SUFFICES ASSUME NEW j \in StartedAt(log, L, m) \cup FinishedAt(log, L, m)
                 PROVE  j \in 1..seen /\ s < j /\ j <= i
      OBVIOUS
    <3>1. /\ j \in DOMAIN log /\ log[j].round = L /\ log[j].member = m
          /\ log[j].type \in {"invocation-started", "invocation-finished"}
      BY DEF StartedAt, FinishedAt
    <3>2. j \in 1..seen /\ AboutWatched(log, rounds, j) /\ (j = s \/ s < j)
      BY <1>9, <1>10, <3>1
    <3>3. j \in MemberTold(log, rounds, seen, m)
      BY <3>1, <3>2 DEF MemberTold
    <3> QED
      BY <1>5, <2>2, <3>1, <3>2, <3>3
  <2>8. m \in Agents => AttemptsLogged(log, inv[L][m], L, m)
    BY <1>1 DEF AllLogged
  <2>9. CASE i = s
    <3>1. StartedAt(log, L, m) = {} /\ FinishedAt(log, L, m) = {}
      <4>1. \A j \in StartedAt(log, L, m) \cup FinishedAt(log, L, m) : FALSE
        BY <1>5, <2>7, <2>9
      <4> QED
        BY <4>1
    <3>2. inv[L][m].status \in {"pending", "running"}
      BY <2>3, <2>6, <3>1 DEF FinishLogged
    <3>3. inv[L][m].attempts = 0
      <4>1. CASE m \in Agents
        <5>1. 1..inv[L][m].attempts = {} /\ inv[L][m].attempts \in Nat
          BY <2>4, <2>8, <3>1, <4>1 DEF AttemptsLogged, InvocationRow
        <5> QED
          BY <5>1
      <4>2. CASE m \in Unavailable
        BY <2>4, <3>2, <4>2 DEF RoundCoherent
      <4> QED
        BY <4>1, <4>2 DEF Members
    <3>4. AgentTold(log[i]) = Agent("pending", 0)
      BY <1>5, <2>9 DEF AgentTold
    <3> QED
      BY <2>1, <2>4, <2>5, <3>2, <3>3, <3>4
  <2>10. CASE i # s /\ log[i].type = "invocation-finished"
    <3>1. log[i].round = L
      BY <1>5, <1>7, <2>2, <2>10
    <3>2. i \in FinishedAt(log, L, m)
      BY <1>2, <2>2, <2>10, <3>1 DEF FinishedAt
    <3>3. log[i].status = inv[L][m].status /\ log[i].attempts = inv[L][m].attempts
      BY <2>3, <3>2 DEF FinishLogged
    <3> QED
      BY <2>1, <2>5, <2>10, <3>3 DEF AgentTold
  <2>11. CASE i # s /\ log[i].type = "invocation-started"
    <3> DEFINE k == inv[L][m].attempts
    <3>1. log[i].round = L /\ i \in DOMAIN log
      BY <1>2, <1>5, <1>7, <2>2, <2>11
    <3>2. i \in StartedAt(log, L, m)
      BY <2>2, <2>11, <3>1 DEF StartedAt
    <3>3. m \in Agents /\ log[i].attempt \in Nat
      <4>1. log[i] \in Event
        BY <3>1, EventAbout DEF MemoryInv
      <4> QED
        BY <2>2, <2>11, <4>1 DEF Event
    <3>4. AttemptsLogged(log, inv[L][m], L, m) /\ k \in Nat
      BY <2>4, <2>8, <3>3 DEF InvocationRow
    <3>5. FinishedAt(log, L, m) = {}
      <4> SUFFICES ASSUME NEW j \in FinishedAt(log, L, m) PROVE FALSE
        OBVIOUS
      <4>1. i < j
        BY <3>2, <3>4 DEF AttemptsLogged
      <4> QED
        BY <2>2, <2>7, <4>1
    <3>6. inv[L][m].status \in {"pending", "running"}
      BY <2>3, <2>6, <3>5 DEF FinishLogged
    <3>7. log[i].attempt \in 1..k
      BY <3>2, <3>4 DEF AttemptsLogged
    <3>8. PICK j \in StartedAt(log, L, m) : log[j].attempt = k
      <4>1. k \in 1..k
        BY <3>4, <3>7
      <4> QED
        BY <3>4, <4>1 DEF AttemptsLogged
    <3>9. j = i
      <4>1. j \in 1..seen /\ j <= i
        BY <2>7
      <4>2. ~(j < i)
        <5>1. j < i => log[j].attempt < log[i].attempt
          BY <3>2, <3>4, <3>8 DEF AttemptsLogged
        <5> QED
          BY <3>4, <3>7, <3>8, <5>1
      <4> QED
        BY <2>2, <4>1, <4>2
    <3>10. inv[L][m].status = "running"
      BY <2>4, <3>4, <3>6, <3>7
    <3> QED
      BY <2>1, <2>5, <2>11, <3>8, <3>9, <3>10 DEF AgentTold
  <2>12. i # s => log[i].type # "round-started"
    BY <1>5, <1>7, <2>2
  <2> QED
    BY <2>2, <2>9, <2>10, <2>11, <2>12
<1>14. shown.agents = inv[L]
  <2>1. PICK S \in SUBSET Members : shown.agents \in [S -> InvocationRow]
    BY DEF ShowsLastTold, ShownRow
  <2>2. S = Members /\ inv[L] \in [Members -> InvocationRow]
    BY <1>1, <1>2, <1>13, <2>1
  <2> QED
    BY <1>13, <2>1, <2>2
<1>15. shown = [roundIndex |-> shown.roundIndex, agents |-> shown.agents,
                verdict |-> shown.verdict, done |-> shown.done]
  BY DEF ShowsLastTold, ShownRow
<1> QED
  BY <1>11, <1>12, <1>14, <1>15 DEF SnapshotOf, L

(* The engine's own steps are what they were without a reader, and the log *)
(* tells of every round from its start on.                                 *)
LEMMA TimelineReads == TimelineSpec => Spec /\ []RoundsLogged
<1>1. TimelineInit => Init /\ RoundsLogged
  <2> SUFFICES ASSUME TimelineInit PROVE Init /\ RoundsLogged
    OBVIOUS
  <2>1. Init /\ DOMAIN log = {}
    BY DEF TimelineInit, Init
  <2> QED
    BY <2>1 DEF Init, NoRound, RoundsLogged
<1>2. [EngineStep \/ Apply]_timelineVars => [Next]_vars
  BY DEF EngineStep, Apply, timelineVars, vars
<1>3. TimelineSpec => Spec
  BY <1>1, <1>2, PTL DEF TimelineSpec, Spec
<1>4. MemoryInv /\ RoundsLogged /\ [Next]_vars => RoundsLogged'
  BY RoundsLoggedStep
<1> QED
  BY <1>1, <1>2, <1>3, <1>4, MemoryMatchesTables, PTL DEF TimelineSpec

(* A reader that has caught up with the log has the durable state of the   *)
(* run's latest round before it, whatever was retried, cancelled or cut    *)
(* short by a crash, and at whatever pace it read.                         *)
THEOREM TimelineFollows == TimelineSpec => []TimelineIsSnapshot
<1> DEFINE Engines == MemoryInv /\ AllLogged /\ RoundIndexes
           Reader == RowsCount /\ ShowsLastTold(log, rounds, shown, seen)
<1>1. TimelineSpec => Spec /\ []RoundsLogged
  BY TimelineReads
<1>2. Spec => []Engines
  <2>1. Spec => []AllLogged
    BY LogStart, LogStep, MemoryMatchesTables, PTL DEF Spec
  <2> QED
    BY <2>1, MemoryMatchesTables, RoundsAreNumbered, PTL
<1>3. TimelineInit => Reader
  <2> SUFFICES ASSUME TimelineInit PROVE Reader
    OBVIOUS
  <2>1. DOMAIN log = {} /\ Len(log) = 0 /\ seen = 0 /\ shown = EmptyTimeline
    BY DEF TimelineInit, Init
  <2>2. RowsCount
    BY DEF TimelineInit, Init, Placeholder, RowsCount
  <2>3. shown \in ShownRow
    <3>1. <<>> \in [{} -> InvocationRow]
      OBVIOUS
    <3>2. <<>> \in UNION {[S -> InvocationRow] : S \in SUBSET Members}
      BY <3>1
    <3> QED
      BY <2>1, <3>2 DEF EmptyTimeline, ShownRow
  <2>4. /\ RoundTold(log, rounds, seen) = {} /\ VerdictTold(log, rounds, seen) = {}
        /\ \A m : MemberTold(log, rounds, seen, m) = {}
    BY <2>1 DEF RoundTold, VerdictTold, MemberTold
  <2> QED
    BY <2>1, <2>2, <2>3, <2>4 DEF ShowsLastTold, RoundShows, MemberShows, VerdictShows
<1>4. Engines /\ RoundsLogged /\ Reader /\ [EngineStep \/ Apply]_timelineVars => Reader'
  <2> SUFFICES ASSUME Engines, RoundsLogged, Reader, [EngineStep \/ Apply]_timelineVars PROVE Reader'
    OBVIOUS
  <2>1. [Next]_vars
    BY DEF EngineStep, Apply, timelineVars, vars
  <2>2. RowsCount'
    BY <2>1, RowsCountStep
  <2>3. CASE Apply
    <3>1. log' = log /\ rounds' = rounds
      BY <2>3 DEF Apply, vars
    <3>2. ShowsLastTold(log, rounds, shown', seen')
      BY <2>3, ApplyStep DEF MemoryInv
    <3> QED
      BY <2>2, <3>1, <3>2
  <2>4. CASE UNCHANGED <<shown, seen>>
    <3>1. ShowsLastTold(log', rounds', shown, seen)
      BY <2>1, ReaderWaits
    <3> QED
      BY <2>2, <2>4, <3>1
  <2> QED
    BY <2>3, <2>4 DEF EngineStep, timelineVars
<1>5. Engines /\ RoundsLogged /\ Reader => TimelineIsSnapshot
  BY CaughtUp
<1> QED
  BY <1>1, <1>2, <1>3, <1>4, <1>5, PTL DEF TimelineSpec

(***************************************************************************)
(* Rounds that follow each other.                                          *)
(***************************************************************************)
EarlierOver(n) ==
  \A r, x \in RoundsOf(n) : rounds[r].index < rounds[x].index => rounds[r].state = "complete"

(* A round that starts is the last of its run.                             *)
LEMMA StartsLast ==
  ASSUME MemoryInv, RoundIndexes, NEW n \in Runs, NEW r \in Rounds, StartRound(n, r)
  PROVE  /\ rounds'[r].run = n
         /\ \A x \in RoundsOf(n) : x # r /\ rounds[x].index < rounds'[r].index
         /\ RoundsOf(n)' = RoundsOf(n) \cup {r}
         /\ \A m \in Runs : m # n => RoundsOf(m)' = RoundsOf(m)
<1> DEFINE row == [run |-> n, index |-> CountRounds(n), state |-> "running", verdict |-> None]
<1>1. /\ rounds' = [rounds EXCEPT ![r] = row]
      /\ rounds[r] = NoRound /\ rounds \in [Rounds -> RoundRow]
  BY DEF StartRound, StartRoundWithPending, MemoryInv, TypeOK, TailMatchesRows,
         RoundCoherent
<1>2. rounds'[r] = row /\ \A x \in Rounds : x # r => rounds'[x] = rounds[x]
  BY <1>1
<1>3. row.run = n /\ row.index = CountRounds(n)
  OBVIOUS
<1> HIDE DEF row
<1>4. \A m \in Runs : r \notin RoundsOf(m)
  BY <1>1, EngineAssumption DEF NoRound, RoundsOf
<1>5. \A x \in RoundsOf(n) : rounds[x].index \in 0..(CountRounds(n) - 1)
  BY IndexesAreNumbers DEF NumberedUpTo
<1>6. CountRounds(n) \in Nat
  BY CountRoundsType
<1>7. \A x \in RoundsOf(n) : rounds[x].index < CountRounds(n)
  BY <1>5, <1>6
<1>8. RoundsOf(n)' = RoundsOf(n) \cup {r}
  BY <1>2, <1>3 DEF RoundsOf
<1>9. \A m \in Runs : m # n => RoundsOf(m)' = RoundsOf(m)
  BY <1>2, <1>3, <1>4 DEF RoundsOf
<1> QED
  BY <1>2, <1>3, <1>4, <1>7, <1>8, <1>9

LEMMA EarlierStep ==
  ASSUME MemoryInv, RoundIndexes, [Next]_vars, OneAtATime, NEW n \in Runs, EarlierOver(n)
  PROVE  EarlierOver(n)'
<1>1. CASE \A m \in Runs, r \in Rounds : ~StartRound(m, r)
  <2>1. \A r \in Rounds : /\ rounds'[r].run = rounds[r].run
                          /\ rounds'[r].index = rounds[r].index
                          /\ rounds[r].state = "complete" => rounds'[r].state = "complete"
    BY <1>1, RowsKept, FinalStep DEF FinalKept, vars
  <2> QED
    BY <2>1 DEF EarlierOver, RoundsOf
<1>2. ASSUME NEW m \in Runs, NEW r \in Rounds, StartRound(m, r)
      PROVE  EarlierOver(n)'
  <2>1. /\ rounds[r].state = "absent" /\ rounds'[r].state = "running"
        /\ \A x \in Rounds : x # r => rounds'[x] = rounds[x]
    BY <1>2, StartRow
  <2>2. /\ rounds'[r].run = m
        /\ \A x \in RoundsOf(m) : x # r /\ rounds[x].index < rounds'[r].index
        /\ RoundsOf(m)' = RoundsOf(m) \cup {r}
        /\ \A l \in Runs : l # m => RoundsOf(l)' = RoundsOf(l)
    BY <1>2, StartsLast
  <2>3. \A x \in RoundsOf(m) : rounds[x].state = "complete"
    BY <2>1, <2>2 DEF OneAtATime
  <2>4. CASE n = m
    <3>1. \A x \in RoundsOf(n)' : x # r => rounds'[x] = rounds[x] /\ rounds[x].state = "complete"
      BY <2>1, <2>2, <2>3, <2>4 DEF RoundsOf
    <3>2. \A x \in RoundsOf(n)' : rounds'[x].index \in Nat
      BY MemoryStep DEF MemoryInv, TypeOK, RoundRow, RoundsOf
    <3>3. \A x \in RoundsOf(n)' : ~(rounds'[r].index < rounds'[x].index)
      <4>1. \A x \in RoundsOf(n)' : x # r => rounds'[x].index < rounds'[r].index
        BY <2>2, <2>4, <3>1
      <4>2. r \in RoundsOf(n)'
        BY <2>2, <2>4
      <4> QED
        BY <3>2, <4>1, <4>2
    <3> QED
      BY <3>1, <3>3 DEF EarlierOver
  <2>5. CASE n # m
    <3>1. RoundsOf(n)' = RoundsOf(n)
      BY <2>2, <2>5
    <3>2. \A x \in RoundsOf(n) : x # r /\ x \in Rounds
      BY <2>2, <2>5, <3>1 DEF RoundsOf
    <3>3. \A x \in RoundsOf(n) : rounds'[x] = rounds[x]
      BY <2>1, <3>2
    <3> QED
      BY <3>1, <3>3 DEF EarlierOver
  <2> QED
    BY <2>4, <2>5
<1> QED
  BY <1>1, <1>2

(* What is logged of the run is about its last round.                      *)
LEMMA NewsOfLast ==
  ASSUME MemoryInv, VerdictHonest, RoundIndexes, ~StoreMayFail, [Next]_vars,
         NEW n \in Runs, EarlierOver(n),
         NEW j \in News(log, log'), log'[j].type # "run-created",
         rounds'[log'[j].round].run = n,
         NEW x \in Rounds, rounds'[x].run = n
  PROVE  rounds'[x].index <= rounds'[log'[j].round].index
<1> DEFINE y == log'[j].round
<1>1. CASE \A m \in Runs, r \in Rounds : ~StartRound(m, r)
  <2>1. y \in Rounds /\ rounds[y].state # "complete"
    BY <1>1, NewsOfStarted, NewsIsOpen DEF IsAbout
  <2>2. /\ rounds[y].run = n /\ rounds'[y].index = rounds[y].index
        /\ rounds[x].run = n /\ rounds'[x].index = rounds[x].index
    BY <1>1, <2>1, RowsKept
  <2>3. ~(rounds[y].index < rounds[x].index)
    BY <2>1, <2>2 DEF EarlierOver, RoundsOf
  <2>4. rounds[y].index \in Nat /\ rounds[x].index \in Nat
    BY <2>1 DEF MemoryInv, TypeOK, RoundRow
  <2> QED
    BY <2>2, <2>3, <2>4
<1>2. ASSUME NEW m \in Runs, NEW r \in Rounds, StartRound(m, r)
      PROVE  rounds'[x].index <= rounds'[y].index
  <2>1. y = r
    <3>1. log'[j] = RunCreated(m) \/ log'[j] = RoundStarted(r)
      BY <1>2, StartLogs DEF MemoryInv
    <3> QED
      BY <3>1 DEF RunCreated, RoundStarted
  <2>2. /\ rounds'[r].run = m
        /\ \A z \in RoundsOf(m) : z # r /\ rounds[z].index < rounds'[r].index
        /\ RoundsOf(m)' = RoundsOf(m) \cup {r}
    BY <1>2, StartsLast
  <2>3. x \in RoundsOf(m)'
    BY <2>1, <2>2 DEF RoundsOf
  <2>4. \A z \in Rounds : z # r => rounds'[z] = rounds[z]
    BY <1>2, StartRow
  <2>5. rounds'[x].index \in Nat /\ rounds'[r].index \in Nat
    BY MemoryStep DEF MemoryInv, TypeOK, RoundRow
  <2> QED
    BY <2>1, <2>2, <2>3, <2>4, <2>5
<1> QED
  BY <1>1, <1>2

LEMMA SequentialStep ==
  ASSUME MemoryInv, VerdictHonest, RoundIndexes, RoundsLogged, ~StoreMayFail, [Next]_vars,
         NEW n \in Runs, EarlierOver(n), Sequential(n)
  PROVE  Sequential(n)'
<1> SUFFICES ASSUME NEW i \in DOMAIN log', NEW j \in DOMAIN log', i < j,
                    log'[i].type # "run-created", log'[j].type # "run-created",
                    rounds'[log'[i].round].run = n, rounds'[log'[j].round].run = n
             PROVE  rounds'[log'[i].round].index <= rounds'[log'[j].round].index
  BY DEF Sequential, RunOf
<1>1. Grown(log, log')
  BY NewsIsOpen
<1>2. ASSUME NEW k \in DOMAIN log, log'[k].type # "run-created"
      PROVE  /\ log'[k] = log[k]
             /\ rounds'[log[k].round].run = rounds[log[k].round].run
             /\ rounds'[log[k].round].index = rounds[log[k].round].index
  <2>1. log'[k] = log[k]
    BY <1>1 DEF Grown
  <2>2. log[k].round \in Rounds /\ rounds[log[k].round].state # "absent"
    BY <1>2, <2>1, EventAbout DEF RoundsLogged, MemoryInv
  <2>3. \/ rounds'[log[k].round] = rounds[log[k].round]
        \/ /\ rounds'[log[k].round].run = rounds[log[k].round].run
           /\ rounds'[log[k].round].index = rounds[log[k].round].index
    BY <2>2, RowsKept, StartRow
  <2> QED
    BY <2>1, <2>3
<1>3. log'[i].round \in Rounds
  <2>1. TypeOK'
    BY MemoryStep DEF MemoryInv
  <2>2. log'[i] \in Event
    BY <2>1 DEF TypeOK
  <2> QED
    BY <2>2 DEF Event
<1>4. CASE j \in News(log, log')
  BY <1>3, <1>4, NewsOfLast
<1>5. CASE j \in DOMAIN log /\ i \in DOMAIN log
  BY <1>2, <1>5 DEF Sequential, RunOf
<1>6. CASE j \in DOMAIN log /\ i \in News(log, log')
  BY <1>1, <1>6 DEF Grown, News
<1> QED
  BY <1>4, <1>5, <1>6 DEF News

(* As long as writes succeed and clients ask for a round of a run only     *)
(* once the one before is over, the reader needs no further condition: what *)
(* it has on show when it has caught up is the snapshot.                   *)
THEOREM PatientClientsSeeSnapshots ==
  ASSUME ~StoreMayFail
  PROVE  TimelineSpec /\ [][OneAtATime]_vars =>
           [](seen = Len(log) /\ Watched \in CreatedRuns => shown = SnapshotOf(Latest(Watched)))
<1> DEFINE Known == MemoryInv /\ VerdictHonest /\ RoundIndexes /\ RoundsLogged
           Follow == EarlierOver(Watched) /\ Sequential(Watched)
<1>1. TimelineSpec => Spec /\ []TimelineIsSnapshot /\ []RoundsLogged
  BY TimelineReads, TimelineFollows
<1>2. Spec => []MemoryInv /\ []VerdictHonest /\ []RoundIndexes
  BY MemoryMatchesTables, VerdictsAreHonest, RoundsAreNumbered
<1>3. Init => Follow
  <2> SUFFICES ASSUME Init PROVE Follow
    OBVIOUS
  <2>1. RoundsOf(Watched) = {}
    BY EngineAssumption, TimelineAssumption DEF Init, RoundsOf, NoRound
  <2>2. DOMAIN log = {}
    BY DEF Init
  <2> QED
    BY <2>1, <2>2 DEF EarlierOver, Sequential
<1>4. Known /\ Follow /\ [Next]_vars /\ [OneAtATime]_vars => Follow'
  <2> SUFFICES ASSUME Known, Follow, [Next]_vars, [OneAtATime]_vars PROVE Follow'
    OBVIOUS
  <2>1. CASE OneAtATime
    BY <2>1, EarlierStep, SequentialStep, TimelineAssumption
  <2>2. CASE UNCHANGED vars
    <3>1. RoundsOf(Watched)' = RoundsOf(Watched) /\ rounds' = rounds /\ log' = log
      BY <2>2 DEF vars, RoundsOf
    <3> QED
      BY <3>1 DEF EarlierOver, Sequential, RunOf
  <2> QED
    BY <2>1, <2>2
<1>5. Follow /\ TimelineIsSnapshot =>
        (seen = Len(log) /\ Watched \in CreatedRuns => shown = SnapshotOf(Latest(Watched)))
  BY DEF TimelineIsSnapshot
<1> QED
  BY <1>1, <1>2, <1>3, <1>4, <1>5, PTL DEF Spec
=============================================================================
