------------------------------- MODULE Engine -------------------------------
(***************************************************************************)
(* The execution engine of packages/engine: rounds fanned out to the       *)
(* members of a panel, attempts and retries per member, the verdict, the   *)
(* durable tables and event log, cancellation, a crash at any point and    *)
(* the reconciliation at the next start.                                   *)
(*                                                                         *)
(* Durable state (SQLite, one transaction per action): rounds, inv, log.   *)
(* Memory, lost in a crash: task (executeAgent), tail (completeRoundAgents) *)
(* and aborted (the AbortController the daemon keeps per round).           *)
(*                                                                         *)
(* Queued members start in any order here: the semaphores and the chain    *)
(* per adapter that order them are the subject of module Dispatch.         *)
(***************************************************************************)
EXTENDS RoundModel, Sequences, SequencesExt

CONSTANTS
  Runs,           (* Run ids the program may create.                        *)
  Rounds,         (* Round ids the program may create.                      *)
  Agents,         (* Panel members with a resolvable adapter.               *)
  Unavailable,    (* Panel members whose adapter id is unknown.             *)
  MaxRetries,     (* Configured retries of each agent.                      *)
  Quorum,         (* The panel's quorum.                                    *)
  Outcomes,       (* What one attempt of an agent may end with.             *)
  StoreMayFail,   (* May a SQLite write throw (disk full, I/O error)?       *)
  None

Members == Agents \cup Unavailable

ASSUME EngineAssumption ==
  /\ IsFiniteSet(Rounds) /\ IsFiniteSet(Agents) /\ IsFiniteSet(Unavailable)
  /\ Agents \cap Unavailable = {}
  /\ MaxRetries \in [Agents -> Nat]
  /\ Quorum \in Nat \ {0}
  /\ Outcomes \subseteq SettledStatus
  /\ StoreMayFail \in BOOLEAN
  /\ None \notin Runs /\ None \notin QuorumVerdict /\ None \notin SettledStatus

VARIABLES
  up,       (* Is the daemon process running and reconciled?                *)
  rounds,   (* Table rounds, a row per round id.                            *)
  inv,      (* Table invocations, a row per round and member.               *)
  log,      (* Table events in seq order.                                   *)
  task,     (* The executeAgent call of each round and agent.               *)
  tail,     (* Progress of completeRoundAgents of each round.               *)
  aborted   (* Has the round's AbortSignal fired?                           *)

vars == <<up, rounds, inv, log, task, tail, aborted>>

(***************************************************************************)
(* Rows and events.                                                        *)
(***************************************************************************)
NoRound == [run |-> None, index |-> 0, state |-> "absent", verdict |-> None]

Placeholder == [status |-> "pending", attempts |-> 0]

IdleTask == [pc |-> "idle", attempt |-> 0, result |-> None]

RunCreated(n) == [type |-> "run-created", run |-> n]
RoundStarted(r) == [type |-> "round-started", round |-> r]
Started(r, m, k) ==
  [type |-> "invocation-started", round |-> r, member |-> m, attempt |-> k]
Finished(r, m, s, k) ==
  [type |-> "invocation-finished", round |-> r, member |-> m,
   status |-> s, attempts |-> k]
Completed(r, v) == [type |-> "round-completed", round |-> r, verdict |-> v]

CreatedRuns == {rounds[r].run : r \in Rounds} \ {None}

(* Mutated: counts only the rounds that are over.                          *)
CountCompleteRounds(n) ==
  Cardinality({r \in Rounds : rounds[r].run = n /\ rounds[r].state = "complete"})

CountRounds(n) == Cardinality({r \in Rounds : rounds[r].run = n})

Statuses(r) == [m \in Members |-> inv[r][m].status]

Init ==
  /\ up      = TRUE
  /\ rounds  = [r \in Rounds |-> NoRound]
  /\ inv     = [r \in Rounds |-> [m \in Members |-> Placeholder]]
  /\ log     = <<>>
  /\ task    = [r \in Rounds |-> [a \in Agents |-> IdleTask]]
  /\ tail    = [r \in Rounds |-> "none"]
  /\ aborted = [r \in Rounds |-> FALSE]

(* recordUnavailable and the scheduling of the agents run synchronously    *)
(* after the round's commit: nothing else runs on the event loop meanwhile, *)
(* although the process may crash between two of their commits.            *)
EventLoopFree == up /\ \A r \in Rounds : tail[r] # "recording"

(***************************************************************************)
(* openRun and dispatchRound: the round row, a pending row per declared    *)
(* member and the events in one transaction, which is also that of the run *)
(* when it is a new one.                                                   *)
(***************************************************************************)
StartRoundWithPending(r, n) ==
  /\ rounds[r].state = "absent"
  /\ rounds' = [rounds EXCEPT ![r] = [run |-> n, index |-> CountRounds(n),
                                      state |-> "running", verdict |-> None]]
  /\ inv' = [inv EXCEPT ![r] = [m \in Members |-> Placeholder]]
  /\ tail' = [tail EXCEPT ![r] = "recording"]
  /\ UNCHANGED <<up, task, aborted>>

OpenRun(n, r) == n \notin CreatedRuns /\ log' = log \o <<RunCreated(n), RoundStarted(r)>>

DispatchRound(n, r) == n \in CreatedRuns /\ log' = Append(log, RoundStarted(r))

StartRound(n, r) ==
  /\ EventLoopFree
  /\ StartRoundWithPending(r, n)
  /\ OpenRun(n, r) \/ DispatchRound(n, r)

(***************************************************************************)
(* completeRoundAgents, first part: a terminal row per unresolvable member, *)
(* then every agent is scheduled. A failed write here rejects the promise: *)
(* recordUnavailable is called outside the try block.                      *)
(***************************************************************************)
RecordUnavailable(r, m) ==
  /\ up /\ tail[r] = "recording"
  /\ inv[r][m].status = "pending"
  /\ \/ /\ inv' = [inv EXCEPT ![r][m] = [status |-> "unavailable", attempts |-> 0]]
        /\ log' = Append(log, Finished(r, m, "unavailable", 0))
        /\ tail' = tail
     \/ /\ StoreMayFail
        /\ tail' = [tail EXCEPT ![r] = "rejected"]
        /\ UNCHANGED <<inv, log>>
  /\ UNCHANGED <<up, rounds, task, aborted>>

DispatchAgents(r) ==
  /\ up /\ tail[r] = "recording"
  /\ \A m \in Unavailable : inv[r][m].status # "pending"
  /\ tail' = [tail EXCEPT ![r] = "dispatched"]
  /\ task' = [task EXCEPT ![r] = [a \in Agents |-> [IdleTask EXCEPT !.pc = "queued"]]]
  /\ UNCHANGED <<up, rounds, inv, log, aborted>>

(***************************************************************************)
(* executeAgent: the loop over the attempts of one agent. A write that     *)
(* throws leaves the function; everything else an attempt throws becomes an *)
(* error record.                                                           *)
(***************************************************************************)
Throw(r, a) ==
  /\ StoreMayFail
  /\ task' = [task EXCEPT ![r][a].pc = "thrown"]
  /\ UNCHANGED <<inv, log>>

(* The row is marked running with the current attempt number. runProcess   *)
(* does not spawn when the signal has already fired.                       *)
StartAttempt(r, a) ==
  /\ EventLoopFree
  /\ task[r][a].pc \in {"queued", "backoff"}
  /\ LET k == task[r][a].attempt + 1
     IN  \/ /\ inv' = [inv EXCEPT ![r][a] = [status |-> "running", attempts |-> k]]
            /\ log' = Append(log, Started(r, a, k))
            /\ task' = [task EXCEPT ![r][a] =
                          [pc |-> IF aborted[r] THEN "cancelled" ELSE "spawned",
                           attempt |-> k, result |-> None]]
         \/ Throw(r, a)
  /\ UNCHANGED <<up, rounds, tail, aborted>>

(* What runOnce can return. A process killed on abort is reported as       *)
(* cancelled unless a timeout or an output overflow (error) was latched    *)
(* first; error also stands for whatever runOnce throws.                   *)
AttemptOutcomes(r, a) ==
  Outcomes \cap
    CASE task[r][a].pc = "cancelled" -> {"cancelled", "error"}
      [] task[r][a].pc = "spawned" /\ aborted[r] -> {"cancelled", "timeout", "error", "unavailable"}
      [] task[r][a].pc = "spawned" /\ ~aborted[r] -> SettledStatus \ {"cancelled"}
      [] OTHER -> {}

(* Mutated: one attempt too many.                                          *)
PastLastAttempt(r, a) == task[r][a].attempt = MaxRetries[a] + 2

LastAttempt(r, a) == task[r][a].attempt = MaxRetries[a] + 1

(* A transient failure with attempts left: sleepOrAbort, nothing durable.  *)
RetryLater(r, a) ==
  /\ EventLoopFree
  /\ AttemptOutcomes(r, a) \cap Retriable # {}
  /\ ~LastAttempt(r, a)
  /\ task' = [task EXCEPT ![r][a].pc = "backoff"]
  /\ UNCHANGED <<up, rounds, inv, log, tail, aborted>>

FinishAgent(r, a, s) ==
  /\ EventLoopFree
  /\ s \in AttemptOutcomes(r, a)
  /\ s \in Retriable => LastAttempt(r, a)
  /\ LET k == task[r][a].attempt
     IN  \/ /\ inv' = [inv EXCEPT ![r][a] = [status |-> s, attempts |-> k]]
            /\ log' = Append(log, Finished(r, a, s, k))
            /\ task' = [task EXCEPT ![r][a] = [pc |-> "done", attempt |-> k, result |-> s]]
         \/ Throw(r, a)
  /\ UNCHANGED <<up, rounds, tail, aborted>>

(***************************************************************************)
(* completeRoundAgents, second part: once every executeAgent resolved, the *)
(* verdict over the records in memory; once one of them threw, the catch   *)
(* block completes the round as failed without waiting for the others.     *)
(***************************************************************************)
(* Mutated: members that could not be dispatched count as answers.         *)
RecordsWithUnavailableOk(r) ==
  [m \in Members |-> IF m \in Agents THEN task[r][m].result ELSE "ok"]

Records(r) ==
  [m \in Members |-> IF m \in Agents THEN task[r][m].result ELSE "unavailable"]

(* Mutated: the round completes with its first answer, or waits for an ok  *)
(* from everyone.                                                          *)
AnySettled(r) == \E a \in Agents : task[r][a].pc = "done"
AllOk(r) == \A a \in Agents : task[r][a].pc = "done" /\ task[r][a].result = "ok"

AllSettled(r) == \A a \in Agents : task[r][a].pc = "done"

CompleteWith(r, v, settled) ==
  \/ /\ rounds' = [rounds EXCEPT ![r].state = "complete", ![r].verdict = v]
     /\ log' = Append(log, Completed(r, v))
     /\ tail' = [tail EXCEPT ![r] = settled]
  \/ /\ StoreMayFail
     /\ tail' = [tail EXCEPT ![r] = "rejected"]
     /\ UNCHANGED <<rounds, log>>

DecideRound(r) ==
  /\ AllSettled(r)
  /\ CompleteWith(r, ComputeVerdict(Records(r), Quorum), "resolved")

FailRound(r) ==
  /\ \E a \in Agents : task[r][a].pc = "thrown"
  /\ CompleteWith(r, "failed", "rejected")

CompleteRound(r) ==
  /\ EventLoopFree
  /\ tail[r] = "dispatched"
  /\ DecideRound(r) \/ FailRound(r)
  /\ UNCHANGED <<up, inv, task, aborted>>

(***************************************************************************)
(* The daemon aborts a round it has in flight, at most once.               *)
(***************************************************************************)
CancelRound(r) ==
  /\ EventLoopFree
  /\ tail[r] = "dispatched"
  /\ ~aborted[r]
  /\ aborted' = [aborted EXCEPT ![r] = TRUE]
  /\ UNCHANGED <<up, rounds, inv, log, task, tail>>

(***************************************************************************)
(* The process dies; the next start reconciles before it accepts work, in  *)
(* one transaction: a terminal event and status for every row left pending *)
(* or running, then a verdict for every round left running.                *)
(***************************************************************************)
Crash ==
  /\ up
  /\ up' = FALSE
  /\ task' = [r \in Rounds |-> [a \in Agents |-> IdleTask]]
  /\ tail' = [r \in Rounds |-> "none"]
  /\ aborted' = [r \in Rounds |-> FALSE]
  /\ UNCHANGED <<rounds, inv, log>>

(* Mutated: everything but an ok answer is redone.                         *)
NotOk(r, m) == rounds[r].state # "absent" /\ inv[r][m].status # "ok"

InFlight(r, m) ==
  /\ rounds[r].state # "absent"
  /\ inv[r][m].status \in {"pending", "running"}

(* Mutated: no event for a member that was still pending.                  *)
InterruptedRunningEvents ==
  {Finished(rm[1], rm[2], "interrupted", inv[rm[1]][rm[2]].attempts) :
      rm \in {x \in Rounds \X Members : inv[x[1]][x[2]].status = "running"}}

InterruptedEvents ==
  {Finished(rm[1], rm[2], "interrupted", inv[rm[1]][rm[2]].attempts) :
      rm \in {x \in Rounds \X Members : InFlight(x[1], x[2])}}

AfterInterrupt(r, m) ==
  IF InFlight(r, m) THEN [inv[r][m] EXCEPT !.status = "interrupted"] ELSE inv[r][m]

RepairedVerdict(r) ==
  ComputeVerdict([m \in Members |-> AfterInterrupt(r, m).status], Quorum)

RepairedEvents ==
  {Completed(r, RepairedVerdict(r)) : r \in {x \in Rounds : rounds[x].state = "running"}}

Reconcile ==
  /\ ~up
  /\ up' = TRUE
  /\ inv' = [r \in Rounds |-> [m \in Members |-> AfterInterrupt(r, m)]]
  /\ rounds' = [r \in Rounds |->
                  IF rounds[r].state = "running"
                  THEN [rounds[r] EXCEPT !.state = "complete", !.verdict = RepairedVerdict(r)]
                  ELSE rounds[r]]
  /\ log' = log \o SetToSeq(InterruptedEvents) \o SetToSeq(RepairedEvents)
  /\ UNCHANGED <<task, tail, aborted>>

(***************************************************************************)
(* The specification.                                                      *)
(***************************************************************************)
AgentStep(r, a) ==
  \/ StartAttempt(r, a)
  \/ RetryLater(r, a)
  \/ \E s \in Outcomes : FinishAgent(r, a, s)

TailStep(r) ==
  \/ \E m \in Unavailable : RecordUnavailable(r, m)
  \/ DispatchAgents(r)
  \/ CompleteRound(r)

Next ==
  \/ \E n \in Runs, r \in Rounds : StartRound(n, r)
  \/ \E r \in Rounds : TailStep(r)
  \/ \E r \in Rounds, a \in Agents : AgentStep(r, a)
  \/ \E r \in Rounds : CancelRound(r)
  \/ Crash
  \/ Reconcile

Spec == Init /\ [][Next]_vars

(* Every attempt ends (the per-agent timeout kills the process tree), the  *)
(* event loop gets to every callback, and a crashed daemon is started      *)
(* again. Nothing obliges a client to start or cancel a round.             *)
Fairness ==
  /\ \A r \in Rounds : WF_vars(TailStep(r))
  /\ \A r \in Rounds, a \in Agents : WF_vars(AgentStep(r, a))
  /\ WF_vars(Reconcile)

FairSpec == Spec /\ Fairness

(***************************************************************************)
(* Properties.                                                             *)
(***************************************************************************)

(* What the tables, the log and the engine's memory hold.                  *)
Event ==
  [type : {"run-created"}, run : Runs]
  \cup [type : {"round-started"}, round : Rounds]
  \cup [type : {"invocation-started"}, round : Rounds, member : Agents, attempt : Nat]
  \cup [type : {"invocation-finished"}, round : Rounds, member : Members,
        status : Terminal, attempts : Nat]
  \cup [type : {"round-completed"}, round : Rounds, verdict : QuorumVerdict]

RoundRow ==
  [run : Runs \cup {None}, index : Nat,
   state : {"absent", "running", "complete"}, verdict : QuorumVerdict \cup {None}]

InvocationRow == [status : InvocationStatus, attempts : Nat]

Task ==
  [pc : {"idle", "queued", "spawned", "cancelled", "backoff", "done", "thrown"},
   attempt : Nat, result : SettledStatus \cup {None}]

TailState == {"none", "recording", "dispatched", "resolved", "rejected"}

(* Type invariant of the durable tables, the log and the engine's memory.  *)
TypeOK ==
  /\ up \in BOOLEAN
  /\ rounds \in [Rounds -> RoundRow]
  /\ inv \in [Rounds -> [Members -> InvocationRow]]
  /\ log \in Seq(Event)
  /\ task \in [Rounds -> [Agents -> Task]]
  /\ tail \in [Rounds -> TailState]
  /\ aborted \in [Rounds -> BOOLEAN]

(* Positions, in a log lg, of the events of one invocation and one round.  *)
StartedAt(lg, r, m) ==
  {i \in DOMAIN lg : /\ lg[i].type = "invocation-started"
                     /\ lg[i].round = r /\ lg[i].member = m}

FinishedAt(lg, r, m) ==
  {i \in DOMAIN lg : /\ lg[i].type = "invocation-finished"
                     /\ lg[i].round = r /\ lg[i].member = m}

CompletedAt(lg, r) ==
  {i \in DOMAIN lg : lg[i].type = "round-completed" /\ lg[i].round = r}

(* The event log and the tables tell the same story after every step, also *)
(* across crashes and failed writes: an invocation is terminal exactly when *)
(* the log holds its finished event, with the same status and attempts, and *)
(* there is only one; likewise a round and its round-completed event       *)
(* (commitWithEvent, reconcile).                                           *)
LogMatchesTables ==
  \A r \in Rounds :
    /\ \A m \in Members :
         /\ inv[r][m].status \in Terminal <=> FinishedAt(log, r, m) # {}
         /\ \A i, j \in FinishedAt(log, r, m) :
              /\ i = j
              /\ log[i].status = inv[r][m].status
              /\ log[i].attempts = inv[r][m].attempts
    /\ rounds[r].state = "complete" <=> CompletedAt(log, r) # {}
    /\ \A i, j \in CompletedAt(log, r) : i = j /\ log[i].verdict = rounds[r].verdict

(* The log of one invocation is its attempts 1, 2, ..., in order and without *)
(* a gap, up to the row's attempt count and never above the retry budget,  *)
(* and its finished event comes after all of them, whichever of them a     *)
(* crash or a cancel cut short (executeAgent, reconcile).                  *)
AttemptsInOrder ==
  \A r \in Rounds, a \in Agents :
    /\ {log[i].attempt : i \in StartedAt(log, r, a)} = 1..inv[r][a].attempts
    /\ inv[r][a].attempts <= MaxRetries[a] + 1
    /\ \A i, j \in StartedAt(log, r, a) : i < j => log[i].attempt < log[j].attempt
    /\ \A i \in StartedAt(log, r, a), j \in FinishedAt(log, r, a) : i < j

(* A round is reported complete only when every declared member is         *)
(* terminal, and its verdict is the quorum verdict over the stored         *)
(* statuses, whether it completed normally or was repaired after a crash.  *)
VerdictHonest ==
  \A r \in Rounds : rounds[r].state = "complete" =>
    /\ \A m \in Members : inv[r][m].status \in Terminal
    /\ rounds[r].verdict = ComputeVerdict(Statuses(r), Quorum)

(* round-completed is the last event of its round: a subscriber that stops *)
(* reading there has missed nothing.                                       *)
CompletionIsLastEvent ==
  \A r \in Rounds : \A i \in CompletedAt(log, r), j \in DOMAIN log :
    i < j => log[j].type = "run-created" \/ log[j].round # r

LogInv == LogMatchesTables /\ AttemptsInOrder /\ CompletionIsLastEvent

(* met is never claimed without a quorum of stored ok answers from         *)
(* resolvable agents, even when writes fail or the process crashes: an     *)
(* unresolvable member never counts (recordUnavailable, computeVerdict).   *)
OkAgents(r) == {a \in Agents : inv[r][a].status = "ok"}

NoFalseMet ==
  \A r \in Rounds : rounds[r].verdict = "met" => Cardinality(OkAgents(r)) >= Quorum

(* Rounds of one run are numbered 0, 1, ... in the order of their start,   *)
(* without a gap or a duplicate, across restarts (countRounds).            *)
RoundIndexes ==
  \A n \in Runs :
    {rounds[r].index : r \in {x \in Rounds : rounds[x].run = n}} = 0..(CountRounds(n) - 1)

(* What is terminal stays as it is: no step rewrites a finished invocation, *)
(* re-runs it, or changes the verdict of a complete round; in particular   *)
(* nothing a late agent, a retry or a restart does.                        *)
FinalKept ==
  \A r \in Rounds :
    /\ \A m \in Members : inv[r][m].status \in Terminal => inv'[r][m] = inv[r][m]
    /\ rounds[r].state = "complete" => rounds'[r] = rounds[r]

TerminalIsFinal == [][FinalKept]_vars

(* How the engine's memory, its progress and the rows go together: the part *)
(* of the inductive invariant that is not about the log.                   *)
RoundCoherent(r) ==
  /\ rounds[r].state = "absent" =>
       /\ rounds[r] = NoRound
       /\ tail[r] = "none"
       /\ \A m \in Members : inv[r][m] = Placeholder
  /\ ~up => tail[r] = "none"
  /\ tail[r] \in {"none", "recording"} => \A a \in Agents : task[r][a] = IdleTask
  /\ tail[r] \in {"recording", "dispatched"} => rounds[r].state = "running"
  /\ rounds[r].state # "complete" => rounds[r].verdict = None
  /\ tail[r] = "recording" =>
       /\ \A a \in Agents : inv[r][a] = Placeholder
       /\ \A m \in Unavailable : inv[r][m].status # "interrupted"
  /\ tail[r] \in {"dispatched", "resolved"} =>
       \A m \in Unavailable : inv[r][m].status = "unavailable"
  /\ \A m \in Unavailable : inv[r][m].status \in {"pending", "unavailable", "interrupted"}

TailMatchesRows == \A r \in Rounds : RoundCoherent(r)

TaskCoherent(r, a) ==
  LET t == task[r][a]
  IN  /\ t.pc = "queued" => inv[r][a] = Placeholder /\ t.attempt = 0
      /\ t.pc \in {"spawned", "cancelled", "backoff"} =>
           inv[r][a] = [status |-> "running", attempts |-> t.attempt]
      /\ t.pc \in {"spawned", "cancelled"} => t.attempt <= MaxRetries[a] + 1
      /\ t.pc = "backoff" => t.attempt <= MaxRetries[a]
      /\ t.pc = "done" =>
           /\ t.result \in SettledStatus
           /\ inv[r][a] = [status |-> t.result, attempts |-> t.attempt]

TaskMatchesRow == \A r \in Rounds, a \in Agents : TaskCoherent(r, a)

(* Without failing writes nothing is ever thrown out of executeAgent.      *)
NothingThrown ==
  ~StoreMayFail =>
    \A r \in Rounds : tail[r] # "rejected" /\ \A a \in Agents : task[r][a].pc # "thrown"

MemoryInv == TypeOK /\ TailMatchesRows /\ TaskMatchesRow /\ NothingThrown

(* Every started round completes: through retries, cancellation and        *)
(* crashes, provided that writes do not fail.                              *)
EveryRoundCompletes ==
  \A r \in Rounds : rounds[r].state = "running" ~> rounds[r].state = "complete"

(* The engine implements the promise of a round.                           *)
Promise == INSTANCE RoundPromise WITH
  opened  <- {r \in Rounds : rounds[r].state # "absent"},
  outcome <- [r \in Rounds |-> [m \in Members |->
                IF inv[r][m].status \in Terminal THEN inv[r][m].status ELSE None]],
  verdict <- [r \in Rounds |-> rounds[r].verdict]

KeepsPromise == Promise!Spec
=============================================================================
