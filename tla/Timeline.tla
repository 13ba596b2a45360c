------------------------------ MODULE Timeline ------------------------------
(***************************************************************************)
(* The TUI's timeline of a run (packages/tui timeline.ts): the state that  *)
(* useDaemonEvents keeps and applyEvent changes, one event of the log at a *)
(* time from seq 0, at its own pace, while the engine (module Engine) goes *)
(* on writing. How the events get from the log to the hook in order and    *)
(* without a loss is the subject of module EventStream.                    *)
(***************************************************************************)
EXTENDS Engine

CONSTANT Watched   (* The run that is on show.                              *)

ASSUME TimelineAssumption == Watched \in Runs

VARIABLES
  shown,   (* The timeline, `current` of the hook.                          *)
  seen     (* How many events of the log the hook was given.                *)

timelineVars == <<vars, shown, seen>>

EmptyTimeline == [roundIndex |-> 0, agents |-> <<>>, verdict |-> None, done |-> FALSE]

RunOf(e) == IF e.type = "run-created" THEN e.run ELSE rounds[e.round].run

Agent(status, attempts) == [status |-> status, attempts |-> attempts]

PatchAgent(t, m, agent) ==
  [t EXCEPT !.agents = [x \in {m} \cup DOMAIN @ |-> IF x = m THEN agent ELSE @[x]]]

(* Mutated: the verdict of the round before is kept on show.               *)
KeptOnShow(t, r) ==
  [t EXCEPT !.roundIndex = rounds[r].index, !.done = FALSE,
            !.agents = [m \in Members |-> Agent("pending", 0)]]

RoundShown(t, r) ==
  [roundIndex |-> rounds[r].index, verdict |-> None, done |-> FALSE,
   agents |-> [m \in Members |-> Agent("pending", 0)]]

ApplyEvent(t, e) ==
  CASE e.type = "round-started" -> RoundShown(t, e.round)
    [] e.type = "invocation-started" -> PatchAgent(t, e.member, Agent("running", e.attempt))
    [] e.type = "invocation-finished" -> PatchAgent(t, e.member, Agent(e.status, e.attempts))
    [] e.type = "round-completed" -> [t EXCEPT !.verdict = e.verdict, !.done = TRUE]
    [] OTHER -> t

TimelineInit == Init /\ shown = EmptyTimeline /\ seen = 0

(* onEvent: the next event, applied when it is one of the run on show.     *)
Apply ==
  /\ seen < Len(log)
  /\ seen' = seen + 1
  /\ shown' = IF RunOf(log[seen + 1]) = Watched
              THEN ApplyEvent(shown, log[seen + 1])
              ELSE shown
  /\ UNCHANGED vars

EngineStep == Next /\ UNCHANGED <<shown, seen>>

TimelineSpec == TimelineInit /\ [][EngineStep \/ Apply]_timelineVars

(***************************************************************************)
(* Properties.                                                             *)
(***************************************************************************)
RoundsOf(n) == {r \in Rounds : rounds[r].run = n}

Latest(n) == CHOOSE r \in RoundsOf(n) : rounds[r].index = CountRounds(n) - 1

SnapshotOf(r) ==
  [roundIndex |-> rounds[r].index, agents |-> inv[r],
   verdict |-> rounds[r].verdict, done |-> rounds[r].state = "complete"]

(* In the log no event of a round comes after the start of a later one.    *)
Sequential(n) ==
  \A i, j \in DOMAIN log :
    i < j /\ log[i].type # "run-created" /\ log[j].type # "run-created"
      /\ RunOf(log[i]) = n /\ RunOf(log[j]) = n
      => rounds[log[i].round].index <= rounds[log[j].round].index

(* A reader that has caught up with the log has the snapshot of the run's  *)
(* latest round before it, at every moment, retries, cancellation, crashes *)
(* and the repairs of a restart included, when the rounds of the run follow *)
(* each other (useDaemonEvents.ts:20-23, "that back-fill IS the snapshot"). *)
TimelineIsSnapshot ==
  seen = Len(log) /\ Watched \in CreatedRuns /\ Sequential(Watched)
    => shown = SnapshotOf(Latest(Watched))

(* A client asks for the next round of a run once the one before is over:  *)
(* until then the next action of a round is keep_polling (tools.ts:20-23). *)
OneAtATime ==
  \A r \in Rounds :
    rounds[r].state = "absent" /\ rounds'[r].state # "absent"
      => \A x \in RoundsOf(rounds'[r].run) : rounds[x].state = "complete"
=============================================================================
