# Verification of open-consensus

TLA+ modules of the state-changing core of open-consensus, the TLC runs that
check them and the theorems that TLAPS proves about them. `PROJECT.json` maps
every definition to the source lines it translates.

    tlasany M.tla                            parse a module
    tlc -workers 2 -config R.cfg M           a run (R and M from the table below)
    tlapm EngineProofs.tla                   check proofs

## The system

A client (CLI, TUI, or an MCP host through `packages/mcp`) asks a local daemon
to put a question to a *panel* of AI command line tools. The daemon starts a
*run* and its *rounds*; the engine fans a round out to the members, runs their
CLIs with time limits and retries, keeps everything in SQLite with an event
log, and gives a *verdict*: `met`, `degraded` or `failed` against the quorum.

| component | state | operations | made correct by |
|---|---|---|---|
| engine: rounds | tables `rounds`, `invocations`, `events`; the running coroutines | `openRun`, `dispatchRound`, `executeAgent`, `completeRoundAgents`, `reconcile` | log and tables agree; a verdict is the one its rows give; terminal is final; every round completes |
| engine: dispatch | two semaphores, a chain per adapter | `dispatchAgents`, `acquire`, `release` | exact counts within the caps, no overlap on one tool, no starvation |
| proc | the process tree of an attempt, captured bytes, timers; table `pgids` | `runProcess`, the terminator, `sweepOrphans` | an attempt always settles and reports honestly; killed trees die; orphans are swept |
| daemon core | tables `runs`, `idempotency`; maps `inflight`, `lastTouched` | `startRun`, `startRound`, `waitRound`, `status`, `readRaw`, `cancel*`, `reapIdle`, `drain` | one answer per idempotency key; only idle runs are parked; a stop loses nothing; the version tells every change |
| daemon lifecycle | lock, socket, discovery file | `startDaemon`, `stop`, `ensureDaemonRunning`, `stopDaemonCommand` | one writer of the database; a serving daemon can be found; the right configuration |
| event stream | the log, the frames on a connection, `lastEventId` | `handleSse`, `startEventStream`, `close`, `SseParser` | each event once, in order, in the end all of them |
| TUI session | `runId`, the refs `startingRun`, `cancelRequested`, `cancelling`, `committed`; what the last render closed over | `handleSubmit`, `/run`, `/quit`, Ctrl+C, renders and effects | one run at a time, printed once and never displaced; a first Ctrl+C cancels, two quit; a cancel reaches its run |
| MCP server, raw output | endpoint and token, read once; the orchestrator's place | the tools, `distill`, `readRaw` | each question is asked once, decided in the end, and judged on the whole answer or on all that was kept of the output |
| TUI timeline | the timeline of one run, the events applied so far | `applyEvent` | equals the durable state of the run once all its events are applied |
| configuration | the JSON file | the commands of `config-ops`, `init`, `saveConfig`; `resolvePanel` | the file always loads; no edit is lost to an await; a forced removal is not blocked; each panel resolves without dropping a member |

### Not modelled

* Adapters (command lines and output formats of external programs), `ansi`,
  redaction, paths and packaging: pure functions of text. An attempt has any
  outcome that `mapStatus` can give.
* The CLI's argument parsing and printing, the layout of the TUI, and the slash
  commands whose effect is that of a configuration command: in `App` they keep
  the prompt busy.
* `mcp-install`: one read and one rename of another tool's file, without an
  await; what it preserves of that file is a matter of text.
* The MCP tools `list_panels` (reads only), `cancel` and `cancel_agent` (they are
  `CancelRun` and `CancelRound` of `Daemon`).
* Migrations: there is one schema version. `pruneRun` and `prunePlan`: only tests
  call them.
* HTTP authentication beyond the token of a start, limits on bodies and streams,
  the Windows terminator.
* The configuration that a daemon loaded is not carried through: whether a panel
  resolves is a variable of `Daemon`, and its members are constants of `Engine`.
  What `resolvePanel` makes of a file is in `ConfigStore`, with a theorem that
  it is what `Engine` assumes of those constants.

`components` in `PROJECT.json` lists them with their sources.

How they interact: clients call the daemon over HTTP; a handler runs without an
await up to its answer (only the long-poll waits), so it is one action of
`Daemon`. The daemon calls the engine and keeps a promise per round; the
engine's coroutines interleave at each await, so each stretch between two
awaits is one action of `Engine`. Engine and daemon share the SQLite tables,
one transaction per change together with its event. The daemon's instances and
the clients share three names in the runtime directory. The stream and the TUI
read the log. The MCP server translates each tool call of an orchestrating agent
to one request, with the endpoint and the token it found when it was started.

What is hard: the coroutines of a round against cancellation, retries, failed
writes and a crash at any point; the chains of slots under which everyone might
wait for everyone; the race of timeout, cancel, overflow and exit of a process
whose helpers outlive it; retried calls around restarts; the reaper against
clients; instances that race, crash and stall around a lock that goes stale; a
connection that breaks within a frame; keys that are handled by the closures of
an earlier render; an orchestrator that repeats calls whose answers it has not
seen. `hazards` in `PROJECT.json` lists them at
their lines with the properties aimed at each.

## Modules

| module | models | notes |
|---|---|---|
| `RoundModel` | `engine/src/model.ts` | statuses, `isRetriable`, `computeVerdict` |
| `RoundPromise` | what a round promises | the abstract specification: outcomes are set once, a verdict is decided once, from all the outcomes |
| `Engine` | `engine.ts`, `store.ts`, the daemon's aborts | implements `RoundPromise`; queued members start in any order here |
| `Dispatch` | `Semaphore`, `dispatchAgents` | the order that `Engine` leaves open |
| `Runner` | `runner.ts`, `terminator.ts`, `runOnce`, the registry and the sweep | one adapter's successive attempts; a CLI is a leader and one helper, in its group or not, on the pipes or not |
| `Daemon` | `daemon.ts`, routes of `server.ts`, `stop` | a round is running or complete; time in ticks |
| `Lifecycle` | `bootstrap.ts`, `lifecycle.ts`, `daemon-control.ts` | proper-lockfile is external: a lock is stale when its owner is dead or does not beat |
| `LogReader` | what a subscriber is promised | the abstract specification of the stream |
| `EventStream` | `handleSse`, `sse.ts` | implements `LogReader`; a subscription is opened and closed by its user; keep-alive comments and refused connections leave the state alone |
| `App` | `app.tsx`, `/run` and `/quit` of `registry.ts`, `useDaemonEvents.ts` | extends `EventStream`: a session over a stream that breaks, with the daemon reduced to runs that are alive or not |
| `Timeline` | `timeline.ts`, `useDaemonEvents.ts` | extends `Engine`: a reader that watches one run applies the events of the engine's log to what it shows, one at a time (`Apply`), while the engine works |
| `RawOutput` | `distill.ts`, `readRaw` | operators on texts of bytes, of which the place in a character and being a newline are told apart |
| `Orchestrator` | `packages/mcp`, with an agent that does what `docs/mcp.md` tells it | uses `RawOutput`; the daemon is reduced to one run, its rounds, parking and crashes |
| `ConfigStore` | `config/src/store.ts`, `schema.ts`, `config-ops.ts`, `init.ts`, `resolver.ts` | the cross-field rules of the schema |
| `EngineProofs`, `DispatchProofs`, `RunnerProofs`, `DaemonProofs`, `LifecycleProofs`, `SessionProofs`, `OrchestratorProofs`, `ConfigProofs` | | theorems and proofs about the module of that name; `EngineProofs` also about `Timeline`, `SessionProofs` about `EventStream` and `App`, `ConfigProofs` about `ConfigStore` |
| `MCEngine`, `MCDispatch`, `MCTimeline`, `MCDaemon`, `MCLifecycle`, `MCApp`, `MCOrchestrator`, `MCConfigStore` | | constants of the instances |

In each module a group of definitions marked *Mutated* gives the plausible bugs
that the properties must notice (`mutants` in `PROJECT.json`); no action uses
them.

State to code, where the names differ: `Engine!task` is the local state of an
`executeAgent` call (waiting, spawned, in its back-off, done or thrown), `tail`
that of `completeRoundAgents` (recording unavailable members, waiting for the
agents, resolved or rejected). `Dispatch!prev` is the promise an invocation is
chained behind. `Runner!job` holds the variables of `runProcess`, `term` the
terminator's loop. `Timeline!shown` is the state the hook keeps, `seen` how much of the log was
applied to it. `Daemon!version` is `latestSeq`, `clock` is `lastTouched` as
the ticks since; `quiet`, `answers` and `failed` are history that no action
reads, but for the choice of fresh ids. `Lifecycle!pc` and `peer` are a client's
place in its command and the daemon it read of. `App!view` is what the closures of
the last render hold, against `runId` and the refs, which are current; `streamed`
is the subscription of the hook; `command` is the promise `handleSubmit` waits
for; `printed`, `viewed`, `refused` and `pressed` are history. `Orchestrator!host` is
what the agent has made of the answers (`next_action` is its `phase`), `call` its
tool call with, on the way back, what it will make of the answer; `server` is the
start of the daemon whose token the MCP server holds; `late` are the questions
whose caller gave up while the request was on its way. `ConfigStore!probing` is a
command that awaits `detect()`.

## Runs

| run | module | shows | distinct states |
|---|---|---|---|
| `MCEngine_round` | `MCEngine` | one round, end to end: `LogInv` (log and tables agree, attempts in order, completion is the last event), an honest verdict, terminal is final, the round completes, `RoundPromise` is kept | 3.7 k |
| `MCTimeline_overlap` | `MCTimeline` | two rounds, of one run or two, overlapping or not, with failing writes: the proofs' invariant, no false `met`, round numbers, and what a reader of one run shows when it has caught up | 729 k |
| `MCDispatch` | `MCDispatch` | `DispatchInv` (exact semaphores within their caps, no overlap per adapter), every task runs | 719 |
| `MCRunner` | `Runner` | `RunnerInv` (honest output), the first reason wins, attempts settle, killed trees die, lost attempts are swept | 11 k |
| `MCDaemon` | `MCDaemon` | one answer per key, `DaemonInv` (live runs are not parked), parking, long-polls against their timer, stop, versions | 154 k |
| `MCLifecycle_names` | `MCLifecycle` | `LifecycleInv` (one writer), discoverable, what is reported stopped is over | 803 k |
| `MCLifecycle_heal` | `MCLifecycle` | stalls heal; a start race resolves | 13 k |
| `MCLifecycle_config` | `MCLifecycle` | **violated**: a client connects only to a daemon of its configuration | |
| `MCApp` | `MCApp` | `SessionInv` (one run on view, none displaced, each printed once; place kept in the stream), `LogReader` is implemented, Ctrl+C is obeyed, a cancel reaches its run, an ended run is handed over | 121 k |
| `MCOrchestrator` | `MCOrchestrator` | `OrchestratorInv` (asked once), honest distillation, judged on all that was kept (`KeptTextJudged`), every question decided | 187 k |
| `MCOrchestrator_restart` | `MCOrchestrator` | **violated**: polling again is enough after a tool error | |
| `MCConfigStore` | `MCConfigStore` | the file loads, forced removal works, no lost edit, `init` seeds only an empty file | 321 k |

Each invariant ending in `Inv` has the type invariant of its module as its first
part.

`CHECK_DEADLOCK FALSE` stands where the system may really stop: all rounds
dispatched and done (`Dispatch`), every process launched and ended and every
client answered (`Lifecycle`), a session quit (`App`), an agent that has finished
(`Orchestrator`).

### Bounds, and why they are enough

* `MCEngine_round`: two agents, one with a retry and one without, and one
  unresolvable member, quorum 2. Every status, a retry and its limit, and all
  three verdicts occur. Rounds share nothing in the engine but the count of
  rounds, so two rounds with one agent (`MCTimeline_overlap`) have the rest. There
  the reader applies what is in the log before the engine goes on (`CatchesUp`):
  it looks at nothing but the log, so what it shows once it has caught up does
  not depend on its pace, and the theorem is about any pace.
  A second round of a run (`DispatchRound`) and a round that a failed write ends
  (`FailRound`) occur in this instance only.
* `MCDispatch`: the first panel uses one adapter twice and shares both with the
  second; global limit 2 is below the five or six ready tasks and the first
  round's limit of 1 is below the global one, which is what a deadlock of the
  two semaphores would need.
* `MCRunner`: a cap of 2 bytes and 3 received give below, at and above the cap;
  one attempt has every race, since what it shares with the next one of its
  adapter (the registry) is keyed by attempt.
* `MCDaemon`: a run, three rounds, a key of each kind, `Ttl` 1, versions up to 5:
  a round completes, its key is retried, a second round starts, the run is
  parked, re-adopted and parked again, with a restart anywhere. A client asks to
  wait for no time, for longer than the ceiling of one tick, or says nothing, so a
  timer is over at once or runs down, before or after the round ends. Unused round ids
  are interchangeable, so the run draws the smallest (`DrawnInOrder`); no action
  that is scheduled fairly draws one.
* `MCLifecycle_*`: three instances (an owner, a successor, and a loser of the
  race between them) and two configurations.
* `MCApp`: two runs, so that one may be started, watched or cancelled while the
  other ends; four events, so that a run may get a second round from another
  client; one broken connection.
* `MCOrchestrator`: two questions; the answers to the first are ten of up to
  three bytes, with a cap of two and pages of one and two, so that cuts and pages
  fall before, in and after characters of two and three bytes and line ends. With
  its line break an answer fits the capture of four; with two bytes of stderr,
  which arrive anywhere among it, it does not, and the end of the blob is missing,
  in the middle of a character too. Two starts of the daemon and one restart of
  the agent.
* `MCConfigStore`: two agents, one panel, two processes, quorums to 3, one
  more than a panel can have. Agents and processes are symmetric: no
  definition tells them apart.

### Fairness

* `Engine`: weak fairness of each agent's and each round's next step and of the
  restart. The per-agent timeout ends every attempt (`Runner` shows it), node's
  event loop reaches every callback, and the next client starts a crashed
  daemon (`ensureDaemonRunning`). Nothing obliges anybody to start or cancel.
* `Dispatch`: promise callbacks run, and `executeAgent` settles.
* `Runner`: timers fire, `close` and `error` are delivered, a daemon is
  started again. Nothing is assumed of the CLI.
* `Daemon`: time passes, which runs the timers of the polls down, the reaper's
  interval fires, and a poll is resumed that its round or its timer has woken
  (`Woken`). Rounds need not end: `EveryPollReturns` rests on the timer, which the
  mutant takes away.
* `Lifecycle`: a launched process gets on with its start, the heartbeat of a
  process that is not stalled fires, a waiting client polls.
* `EventStream`, `App`: the reconnect timer fires and in the end finds a daemon that
  accepts the stream; what was sent arrives while the connection lasts. Of `App`
  also: renders are scheduled, and requests are answered or fail. Nothing is
  assumed of the user, nor that a run ends unless it is cancelled.
* `Orchestrator`: rounds complete (`EveryRoundCompletes`), a client starts the
  daemon again, the agent follows `next_action`, and a tool call that is repeated
  for ever is answered in the end (strong fairness: a single answer may always be
  lost). Only `Spec` assumes that somebody restarts the MCP server; the violated
  run does without (`UnaidedSpec`).

`EveryRoundCompletes`, `KeepsPromise` and `VerdictHonest` are checked with writes
that succeed, since the engine does not retry a failed write; the runs with
`StoreMayFail` check what must hold all the same.

## What the violated runs show

* `MCLifecycle_config`: two clients with different configurations find no
  daemon and launch one each. The loser's poll takes the winner's daemon and
  never calls `assertConfigMatches` (`daemon-control.ts:320-328`).
* `MCOrchestrator_restart`: the MCP server resolves its client once
  (`mcp/src/run.ts:15`). A daemon that starts again has a new token
  (`bootstrap.ts:135`), so every later call is answered 401 and polling again,
  which `docs/mcp.md:28` tells the agent to do, never helps: somebody has to
  restart the MCP server.

Seen while modelling, in the models, without a run of their own:

* `recordUnavailable` is called outside the `try` (`engine.ts:371`), although the
  comment at 377-378 wants no round to be left stuck: a write that fails there
  leaves it running until the next restart repairs it.
* One member's failed write rejects `Promise.all`, and the round completes as
  failed while others still run (`engine.ts:376-386`; `docs/architecture.md:51`
  says every agent is terminal by then). `NoFalseMet` holds all the same.
* An adapter's chain goes on when the promise before has settled, which is not
  when all its processes are gone (`engine.ts:442-446`).
* `startRound` answers with the id of its round before it knows of the commit
  (`daemon.ts:218`); `OneAnswerPerKey` states what holds in spite of that.
* `applyEvent` does not look at the round of an event, and the daemon lets a run
  have several rounds in flight, so a late event of the older round is shown in
  the newer one (`timeline.ts:49-77`). `TimelineIsSnapshot` claims the snapshot
  only for rounds that follow each other. They do when clients ask for one round
  at a time and no write fails (`PatientClientsSeeSnapshots`); a round in which a
  write failed may complete while members still run, and those log into the next
  one even then.
* `runOnce` forgets the process group as soon as the attempt settles, which a
  `close` or the fallback timer may bring about while the group is alive and the
  terminator still waits in its grace (`engine.ts:613-622`). A crash then leaves a
  tree nobody sweeps; `LostAttemptsSwept` is about attempts that had not settled.
* The raw capture is cut at 1,000,000 bytes of stdout and stderr together, without
  a flag (`engine.ts:586-593`), while the runner kills a member, and calls its output
  truncated, at that many bytes of either stream (`runner.ts:32-35`, `173-193`). A
  CLI that writes 0.2 MB to stderr and then an answer of 0.9 MB ends ok; the
  last 0.1 MB of the answer is not in the blob, and its pages end with `eof`. The
  tools promise more: "the full raw output" and "the complete transcript"
  (`tools.ts:242`), "the full text before judging" (`tools.ts:70`). In
  `MCOrchestrator` the first question is judged on such blobs too; `KeptTextJudged`
  claims all of the output only where both streams fit the capture together, and
  exactly the part that was kept where they do not.
* Ctrl+C between the answer of `/run` and the render that publishes its `runId`
  quits and leaves the run alive (`app.tsx:150-152`); so does a start whose answer
  is lost, since `/run` sends no idempotency key and the `finally` drops the wish
  to cancel (`app.tsx:139-145`).
* `distill` drops the first line of the tail even when the cut falls on a line
  boundary, and its marker counts only the bytes before the cut
  (`distill.ts:26-34`); `DistillHonest` asks that it does not claim more.
* `isTransport` of `tools.ts:76-88` waits for errors that say `timed out`, which no
  call can raise: the client passes no time limit (`client.ts:116-119`).
* A daemon that was suspended may write once more before its heartbeat tells it
  that its lock is gone (`bootstrap.ts:95-98`); `SplitBrainHeals` states what holds.

## Proofs

TLAPS proves the theorems below for every value of the constants, under the
module's assumption on them alone unless said otherwise. The bounds of the
modules are constants too, so that the theorems hold for any of them.

| theorem | states |
|---|---|
| `EngineProofs!TypeCorrect` | `Spec => []TypeOK` |
| `EngineProofs!MemoryMatchesTables` | `Spec => []MemoryInv` |
| `EngineProofs!TerminalStaysFinal` | `Spec => TerminalIsFinal` |
| `EngineProofs!MetIsEarned` | `Spec => []NoFalseMet` |
| `EngineProofs!VerdictsAreHonest` | `Spec => []VerdictHonest`, given `~StoreMayFail` |
| `EngineProofs!EngineKeepsPromise` | `Spec => KeepsPromise`: `Engine` implements `RoundPromise`, given `~StoreMayFail` |
| `EngineProofs!LogTellsTables` | `Spec => [](LogMatchesTables /\ AttemptsInOrder)` |
| `EngineProofs!LogTellsAll` | `Spec => []LogInv`, given `~StoreMayFail` |
| `EngineProofs!RoundsAreNumbered` | `Spec => []RoundIndexes` |
| `EngineProofs!TimelineFollows` | `TimelineSpec => []TimelineIsSnapshot` of `Timeline` |
| `EngineProofs!PatientClientsSeeSnapshots` | with one round of a run at a time (`OneAtATime`), a reader of `Timeline` that has caught up has the snapshot, given `~StoreMayFail` |
| `DispatchProofs!DispatchIsSafe` | `Spec => []DispatchInv` |
| `RunnerProofs!OutputIsHonest` | `Spec => []RunnerInv` |
| `RunnerProofs!FirstReasonKept` | `Spec => FirstReasonWins` |
| `RunnerProofs!OrphansAreSwept` | `Spec => []LostAttemptsSwept` |
| `DaemonProofs!RunsStayAlive` | `Spec => []DaemonInv` |
| `DaemonProofs!RetriesAgree` | `Spec => []OneAnswerPerKey` |
| `DaemonProofs!GracefulStop` | `Spec => []StopLosesNothing` |
| `DaemonProofs!ParkedLate` | `Spec => NotParkedEarly` |
| `DaemonProofs!VersionTells` | `Spec => VersionTellsChange` |
| `LifecycleProofs!NeverTwoWriters` | `Spec => []LifecycleInv`, given `~MayStall` |
| `LifecycleProofs!ServingIsFound` | `Spec => []ServingIsDiscoverable`, given `~MayStall` |
| `LifecycleProofs!StoppedMeansOver` | `Spec => []StopReported`, given `~MayStall` |
| `SessionProofs!PlaceIsKept` | `Spec => []StreamInv` of `EventStream` |
| `SessionProofs!StreamReadsInOrder` | `Spec => ReadsInOrder`: the safety part of "`EventStream` implements `LogReader`" |
| `SessionProofs!SessionReadsInOrder` | `AppSpec => ReadsInOrder`: the same within a session |
| `SessionProofs!NoRunIsLost` | `AppSpec => []SessionInv` |
| `SessionProofs!CtrlCIsObeyed` | `AppSpec => PressesObeyed` |
| `OrchestratorProofs!QuestionsAreAskedOnce` | `UnaidedSpec => []OrchestratorInv` |
| `OrchestratorProofs!DistillIsHonest` | `UnaidedSpec => []DistillHonest` |
| `OrchestratorProofs!KeptTextIsJudged` | `UnaidedSpec => []KeptTextJudged` |
| `ConfigProofs!ConfigTypeCorrect` | `Spec => []TypeOK` of `ConfigStore` |
| `ConfigProofs!FileStaysValid` | `Spec => []FileValid` |
| `ConfigProofs!ForcedRemovalNeverBlocked` | `Spec => []ForceRemovalWorks` |
| `ConfigProofs!NoEditIsLost` | `Spec => NoLostUpdate` |
| `ConfigProofs!SeedNeverBlocked` | what `init` seeds passes the validation, whatever it found |
| `ConfigProofs!PanelsAlwaysResolve` | `Spec => []PanelsResolve`: each panel of the file resolves to what `EngineAssumption` asks of a panel |

### What is assumed of the constants

Each module names its assumption (`EngineAssumption` and so on), and TLC evaluates
it in the runs. Sets of rounds, of agents, of streams are finite where their
elements are counted or summed up. Bounds are natural numbers. Most of the rest
says that `None`, which stands for `null`, is none of the values it is told from,
that the run on show is a run (`Timeline`),
and that a key of `startRun` is not one of `startRound` (`Daemon`; in the code the
key of a round carries its run). Of the answers of the members, `Orchestrator`
assumes that they are decoded text, in which every byte is part of a character
or of a replacement: `runProcess` decodes what it captures. Nothing is assumed of
their stderr or of its size. The ceiling of a long-poll and the waits that clients
ask for (`Daemon`) are any natural numbers; `server.ts:294` clamps the others to 0.

### The arguments

**Engine.** None of its safety properties is inductive by itself: `CompleteRound`
computes the verdict from the records in memory, and the crash throws those
away, so the rows must agree with the memory at every moment. `MemoryInv` says
so: `TypeOK`; `TailMatchesRows` (which rows a round has at each stage of
`completeRoundAgents`); `TaskMatchesRow` (the row of an invocation is what its
coroutine believes); `NothingThrown` (no coroutine is rejected when writes do not
fail). It is inductive with one lemma per action, and `MCTimeline_overlap` checks
it too. `TerminalIsFinal` is then an argument about each step under `MemoryInv`.
`NoFalseMet` is carried along with it: `CompleteRound` decides from results that
are the rows' statuses, `Reconcile` from the rows, and no step takes an `ok` away.
`VerdictHonest` also needs that a complete round has only terminal rows, which a
failed write may break (the second item of the list above), hence the premise.

**The promise.** Under `MemoryInv` and `VerdictHonest` each step is one of
`RoundPromise` or a stutter: a start opens a round, the outcome of an agent is a
`Settle`, a completion a `Decide` of exactly the outcomes set, and `Reconcile` the
abstract restart, which settles what was in flight and decides it at once. With
failing writes it is not so: a completion may decide what is not settled.

**The log.** `AllLogged` relates each row to the events of its cell: the events of
an attempt are 1 to `attempts` in order, there is one end exactly when the row is
terminal, and it says what the row says. An event that is appended belongs to one
cell, so each action needs its own cell and a lemma for the others. The
repair appends the events of a set in any order, which is why `SetToSeqProperties`
is there. `CompletionIsLastEvent` needs that a complete round has no coroutine left,
which only holds when no write fails. Round numbers are an argument about
cardinalities: `CountRounds` is what the next round is given, so the
numbers taken are always those below it.

**Timeline.** What is shown is what the events applied so far told last
(`ShowsLastTold`): of the round the last start, of each member and of the verdict
the last event since that start. Applying one more event keeps that; so no
induction over the log is needed, and the pace of the reader does not matter. When
all is applied, the invariants about the log do the rest: each round's start
is logged once and before its other events (`RoundsLogged`), so among rounds that
follow each other the last start is that of the latest round, which the numbering
makes unique; an event about a member since then is one of that round; and the
last thing told of a member is its row (`LogMatchesTables`, `AttemptsInOrder`,
`RowsCount`). The premise `Sequential` is a condition on the log, not on the
clients. That it holds for clients that wait for each round is a theorem of its
own: a round that is complete has no coroutine left that could still write, if no
write fails, so every event is of a round that was not over (`SequentialStep`).

**Dispatch.** `SemaphoresSound` says that holders and free slots of each semaphore
make up its limit, that its queue is exactly who waits for it, each once, and that
nobody waits next to a free slot. That agents of one adapter do not overlap is
not inductive with `prev` alone, which knows one predecessor: `ChainsInLine` says
that there is an order of the scheduled tasks in which `prev` is the one just
before, `chains` the last, and whoever has left the chain has only settled tasks
before it.

**Runner.** Each job agrees with its processes and counts (`JobSound`: it is killed
for a reason, it is truncated when it dropped bytes, `exited` means that the pipes
are closed and all is kept); each group that may be alive without its job is
in the registry until a sweep that sees it dead (`RegistrySound`). That a daemon
serves only after its sweep has finished with every group gives `LostAttemptsSwept`.

**Daemon.** `CoreInv` relates the tables, the memory and the history: a round that is
running is in flight unless its last write failed (`RunningIsTracked`), a run with
one is not parked (`LiveRunNotParked`), a reserved key names a round of its run and
still gives each answer that names a round which is there (`KeysNameRounds`,
`AnswersKept`), and the clock of a run never runs ahead of the quiet since the last
call (`ClockWithinQuiet`). The two action properties follow step by step.

**Lifecycle.** From the lock to its exit an instance is the one the lock names
(`ActiveHoldsLock`), since only a dead owner's lock is ever taken while nobody
stalls; so any two active instances are one. It alone touches the socket and the
discovery file, hence both name it as long as it serves (`NamesHeld`), and a stop
that has been signalled is followed to the exit of the instance it was confirmed
with (`StopFollowed`). A stalled owner breaks the first part, hence the premise:
with stalls, none of the three theorems is left to hold at every moment: an owner
that resumes after its lock was taken and is then stopped removes the socket and
the discovery file of its successor (`bootstrap.ts:159-177`), and a client takes
the missing file for the end of a daemon that serves. What holds is that this
heals, `SplitBrainHeals`, a liveness property that TLC checks.

**Event stream and session.** `StreamSound`: what was handed on is the log up to
`lastEventId`, and the wire of an open connection holds exactly what comes after
that. So a delivery is the next event of `LogReader`, and everything else
a stutter. Every step of `App` is a step of the stream as well, which carries the
result over. `SessionSound` relates the refs to what the last render saw: a
command at work is shown (`BusyShown`), a closure that believes in a run means the
one on view (`OneAtATime`), and a wish to cancel is kept as long as it can still be
granted (`PressesNoted`); `NoRunLost` and `PrintedOnce` follow each other around the
hand-over.

**Orchestrator.** `TalkSound` says that what the agent holds is true of the round it
holds it of: the page position is on a character boundary and the text is what
comes before it, a call is one of the phase the agent is in, an answer on its way
is one that the tables bear out, and every judgement is on a round's whole answer or
on all that was kept of its output. Pages are read only where the answer was
truncated, and the blob never changes once it is written.
Rounds only grow and complete (`Grown`), so what was true of a complete round stays
true. Text needs two facts: what was decoded is whole, wherever the capture or the other
stream cut it (`DecodedIsWhole`), and between two character boundaries a slice of
whole text decodes to itself (`SliceIsWhole`); both cuts, of a page and of
`distill`, are moved to boundaries. The theorems are about `UnaidedSpec`: nothing of safety
rests on somebody restarting the MCP server.

**Configuration.** The file is only ever replaced by what `Revalidated` let through,
so `FileValid` is inductive with `pending` being valid as well; a forced removal
clamps each quorum to the members left, and the cardinality lemmas do the rest.
`NoLostUpdate` is an argument about each command: what it is about to save is one
edit of the file as it is then, whatever was awaited before. `PanelsResolve`
follows from a valid file: no member dangles, so whoever is unavailable lacks an
adapter, and the quorum is within the members. No run lists it; TLC finds it to
hold on the instance of `MCConfigStore`.

### Only model-checked

Every invariant and every action property of a passing run is a theorem. Not
proved are:

* Everything under fairness: `EveryRoundCompletes`, `EveryTaskRuns`,
  `EveryAttemptSettles`, `KilledTreeDies`, `EveryPollReturns`, `IdleRunsParked`, `RaceResolves`,
  `SplitBrainHeals`, `CancelReachesRun`, `FinishedRunCommitted`,
  `EveryQuestionDecided`, and the fairness part of `ReadsTheLog`. The prover has no
  ENABLED.
* `Lifecycle` when processes stall, for the reason given above.
* What the violated runs show.

## Plan

Done first, since everything else rests on it: `RoundModel`, `Engine` and its
proofs; then the parts it leaves open (`Dispatch`, `Runner`), its caller
(`Daemon`), the process around it (`Lifecycle`), its readers (`EventStream`,
`Timeline`), the configuration, and then what drives it: the TUI session (`App`)
and the orchestrator behind the MCP server (`Orchestrator`, with the pure
algorithms of `RawOutput`); last `resolvePanel`, which says why the constants of
`Engine` are what it assumes.

What could be added: a daemon that carries the configuration it loaded from
`ConfigStore` through `Daemon` to `Engine`; `updateAgentCommand`, when agents get
fields that a property is about; the Windows terminator, when it is certified;
migrations, when there is a second schema version.
