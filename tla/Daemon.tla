------------------------------- MODULE Daemon -------------------------------
(***************************************************************************)
(* The daemon's core (packages/daemon, DaemonCore): starting runs and      *)
(* rounds with deduplication of retried calls, long-polling, cancelling,   *)
(* the reaper of idle runs and their re-adoption, graceful stop, crash and *)
(* restart. Clients call in any order and retry what they like; whatever   *)
(* the engine does within a round is RoundCompletes here (module Engine).  *)
(*                                                                         *)
(* A handler runs without an await up to its answer, so it is one action;  *)
(* only the long-poll waits. Time is counted in ticks.                     *)
(***************************************************************************)
EXTENDS Integers, FiniteSets

CONSTANTS
  Runs, Rounds,  (* Ids the daemon may draw.                                *)
  StartKeys,     (* Idempotency keys of startRun (with their panel).        *)
  RoundKeys,     (* Idempotency keys of startRound, scoped by the run.      *)
  Clients,       (* Connections with a long-poll.                           *)
  Ttl,           (* idleTtlMs, in ticks.                                    *)
  MaxWait,       (* maxWaitMs, the longest a long-poll waits, in ticks.     *)
  Waits,         (* The waitMs clients ask for, in ticks; None is no wish.  *)
  MaxVersion,    (* Bound: events of one run.                               *)
  StoreMayFail,  (* May a commit throw?                                     *)
  None

(* What a key is answered with, a tracked dispatch, a long-poll (the round *)
(* it waits for and what is left of its timer) and a run's clock.          *)
KeyEntry == [run : Runs, round : Rounds]

Dispatched == [run : Runs, aborted : BOOLEAN]

LongPoll == [round : Rounds, left : 0..MaxWait]

Ticks == 0..Ttl

(* Both kinds of keys are rows of one table, told apart by their prefix.   *)
ASSUME DaemonAssumption ==
  /\ IsFiniteSet(Rounds)
  /\ Ttl \in Nat \ {0} /\ MaxVersion \in Nat
  /\ MaxWait \in Nat /\ Waits \subseteq Nat
  /\ StoreMayFail \in BOOLEAN
  /\ StartKeys \cap (Runs \X RoundKeys) = {}
  /\ None \notin Runs \cup Rounds \cup StartKeys \cup RoundKeys
  /\ None \notin KeyEntry \cup Dispatched \cup LongPoll \cup Ticks \cup Waits

VARIABLES
  phase,     (* "serving", "closing", "stopped" or "crashed".               *)
  panelOk,   (* Does the config this daemon loaded resolve the panel?       *)
  runs,      (* Table runs: the state of each run.                          *)
  rounds,    (* Table rounds.                                               *)
  version,   (* latestSeq: the events logged for each run.                  *)
  keys,      (* Table idempotency.                                          *)
  inflight,  (* Map inflight of each round with a dispatch under way.       *)
  clock,     (* Map lastTouched, as the ticks since then.                   *)
  waiting,   (* The long-poll each connection is waiting in.                *)
  quiet,     (* History: ticks since the last call about a run.             *)
  answers,   (* History: what keyed calls were answered.                    *)
  failed     (* History: rounds whose last write failed.                    *)

durable == <<runs, rounds, version, keys>>
memory == <<inflight, clock, waiting>>
vars == <<phase, panelOk, durable, memory, quiet, answers, failed>>

Keys == StartKeys \cup (Runs \X RoundKeys)

NoRound == [run |-> None, state |-> "absent"]

Init ==
  /\ phase    = "serving"
  /\ panelOk  = TRUE
  /\ runs     = [n \in Runs |-> "absent"]
  /\ rounds   = [r \in Rounds |-> NoRound]
  /\ version  = [n \in Runs |-> 0]
  /\ keys     = [k \in Keys |-> None]
  /\ inflight = [r \in Rounds |-> None]
  /\ clock    = [n \in Runs |-> None]
  /\ waiting  = [c \in Clients |-> None]
  /\ quiet    = [n \in Runs |-> 0]
  /\ answers  = {}
  /\ failed   = {}

HasInflight(n) == \E r \in Rounds : inflight[r] # None /\ inflight[r].run = n

(* A round id that was neither committed nor answered before.              *)
Fresh(r) ==
  /\ rounds[r].state = "absent" /\ inflight[r] = None
  /\ \A x \in answers : x.round # r

(* Every call about a run restarts its idle clock.                         *)
Touch(n) ==
  /\ clock' = [clock EXCEPT ![n] = 0]
  /\ quiet' = [quiet EXCEPT ![n] = 0]

Answer(k, n, r) ==
  answers' = IF k = None THEN answers ELSE answers \cup {[key |-> k, run |-> n, round |-> r]}

(***************************************************************************)
(* Starting work. A known key is answered from the table, whatever became  *)
(* of the panel or the run since; a new one is committed with the rows.    *)
(***************************************************************************)
(* Mutated: a key is looked up only while its run is being worked on.      *)
KnownInMemory(k) ==
  k # None /\ keys[k] # None /\ inflight[keys[k].round] # None

Known(k) == k # None /\ keys[k] # None

Replay(k) ==
  /\ Known(k)
  /\ Answer(k, keys[k].run, keys[k].round)
  /\ Touch(keys[k].run)
  /\ UNCHANGED <<durable, inflight>>

ReservedKeys(k, n, r) ==
  IF k = None THEN keys ELSE [keys EXCEPT ![k] = [run |-> n, round |-> r]]

Commit(k, n, r, events) ==
  /\ rounds' = [rounds EXCEPT ![r] = [run |-> n, state |-> "running"]]
  /\ version' = [version EXCEPT ![n] = @ + events]
  /\ keys' = ReservedKeys(k, n, r)

Track(n, r) ==
  /\ inflight' = [inflight EXCEPT ![r] = [run |-> n, aborted |-> FALSE]]
  /\ Touch(n)

StartRun(k, n, r) ==
  /\ phase = "serving"
  /\ \/ Replay(k)
     \/ /\ ~Known(k)
        /\ panelOk
        /\ runs[n] = "absent" /\ Fresh(r)
        /\ Commit(k, n, r, 2)
        /\ runs' = [runs EXCEPT ![n] = "running"]
        /\ Track(n, r)
        /\ Answer(k, n, r)
  /\ UNCHANGED <<phase, panelOk, waiting, failed>>

(* dispatchRound is async: a commit that throws rejects its promise, which *)
(* trackInflight swallows, and the caller gets the round id all the same.  *)
StartRound(k, n, r) ==
  /\ phase = "serving"
  /\ runs[n] # "absent"
  /\ \/ Replay(k)
     \/ /\ ~Known(k)
        /\ runs[n] = "running"
        /\ panelOk
        /\ Fresh(r)
        /\ \/ Commit(k, n, r, 1)
           \/ StoreMayFail /\ UNCHANGED <<rounds, version, keys>>
        /\ Track(n, r)
        /\ Answer(k, n, r)
        /\ UNCHANGED runs
  /\ UNCHANGED <<phase, panelOk, waiting, failed>>

(***************************************************************************)
(* A dispatched round ends: with its round-completed event, or without one *)
(* when a write failed. Either way it leaves the map.                      *)
(***************************************************************************)
RoundCompletes(r) ==
  /\ phase \in {"serving", "closing"}
  /\ inflight[r] # None
  /\ inflight' = [inflight EXCEPT ![r] = None]
  /\ \/ /\ rounds[r].state = "running"
        /\ rounds' = [rounds EXCEPT ![r].state = "complete"]
        /\ version' = [version EXCEPT ![rounds[r].run] = @ + 1]
        /\ UNCHANGED failed
     \/ /\ StoreMayFail
        /\ failed' = failed \cup {r}
        /\ UNCHANGED <<rounds, version>>
  /\ UNCHANGED <<phase, panelOk, runs, keys, clock, waiting, quiet, answers>>

(***************************************************************************)
(* waitRound: waits for the in-flight round or for a timer, whichever is   *)
(* first, and then answers with a snapshot. The timer is what the client   *)
(* asked for, but never longer than the daemon's ceiling. A round that is  *)
(* not in flight is answered at once.                                      *)
(***************************************************************************)
WaitTicks(asked) == IF asked = None \/ asked > MaxWait THEN MaxWait ELSE asked

Poll(c, n, r) ==
  /\ phase = "serving"
  /\ waiting[c] = None
  /\ rounds[r].run = n
  /\ Touch(n)
  /\ \E asked \in Waits \cup {None} :
       waiting' = IF inflight[r] = None THEN waiting
                  ELSE [waiting EXCEPT ![c] = [round |-> r, left |-> WaitTicks(asked)]]
  /\ UNCHANGED <<phase, panelOk, durable, inflight, answers, failed>>

(* The two sides of the race. Mutated: only the round's end wakes the poll.*)
RoundEnded(c) == inflight[waiting[c].round] = None

TimerFired(c) == waiting[c].left = 0

Woken(c) == RoundEnded(c) \/ TimerFired(c)

PollReturns(c) ==
  /\ phase = "serving"
  /\ waiting[c] # None
  /\ Woken(c)
  /\ waiting' = [waiting EXCEPT ![c] = None]
  /\ UNCHANGED <<phase, panelOk, durable, inflight, clock, quiet, answers, failed>>

(***************************************************************************)
(* The other calls about a run: status re-adopts a parked one; reading raw *)
(* output, or an event sent to a subscriber, only touches it.              *)
(***************************************************************************)
Status(n) ==
  /\ phase = "serving"
  /\ runs[n] # "absent"
  /\ Touch(n)
  /\ IF runs[n] = "abandoned"
     THEN /\ version[n] < MaxVersion
          /\ runs' = [runs EXCEPT ![n] = "running"]
          /\ version' = [version EXCEPT ![n] = @ + 1]
     ELSE UNCHANGED <<runs, version>>
  /\ UNCHANGED <<phase, panelOk, rounds, keys, inflight, waiting, answers, failed>>

ReadRaw(n) ==
  /\ phase = "serving"
  /\ Touch(n)
  /\ UNCHANGED <<phase, panelOk, durable, inflight, waiting, answers, failed>>

Aborted(S) == [r \in Rounds |-> IF r \in S THEN [inflight[r] EXCEPT !.aborted = TRUE] ELSE inflight[r]]

CancelRun(n) ==
  /\ phase = "serving"
  /\ Touch(n)
  /\ inflight' = Aborted({r \in Rounds : inflight[r] # None /\ inflight[r].run = n})
  /\ UNCHANGED <<phase, panelOk, durable, waiting, answers, failed>>

CancelRound(n, r) ==
  /\ phase = "serving"
  /\ inflight[r] # None /\ inflight[r].run = n
  /\ Touch(n)
  /\ inflight' = Aborted({r})
  /\ UNCHANGED <<phase, panelOk, durable, waiting, answers, failed>>

(***************************************************************************)
(* Time passes for the idle clocks and for the timers of the long-polls.   *)
(***************************************************************************)
Older(t) == IF t = None THEN None ELSE IF t < Ttl THEN t + 1 ELSE t

Nearer(w) == IF w = None \/ w.left = 0 THEN w ELSE [w EXCEPT !.left = @ - 1]

Tick ==
  /\ clock' = [n \in Runs |-> Older(clock[n])]
  /\ quiet' = [n \in Runs |-> Older(quiet[n])]
  /\ waiting' = [c \in Clients |-> Nearer(waiting[c])]
  /\ UNCHANGED <<phase, panelOk, durable, inflight, answers, failed>>

(***************************************************************************)
(* The reaper.                                                             *)
(***************************************************************************)
(* Mutated: a run in flight is parked, or one without a clock is.          *)
ExpiredInFlight(n) == runs[n] = "running" /\ clock[n] # None /\ clock[n] >= Ttl
ExpiredUnseen(n) ==
  runs[n] = "running" /\ ~HasInflight(n) /\ (clock[n] = None \/ clock[n] >= Ttl)

Expired(n) ==
  /\ runs[n] = "running" /\ ~HasInflight(n)
  /\ clock[n] # None /\ clock[n] >= Ttl

(* Mutated: parked without its event.                                      *)
ParkedUnlogged(n) == version[n]

ParkedVersion(n) == IF Expired(n) THEN version[n] + 1 ELSE version[n]

ParkedState(n) == IF Expired(n) THEN "abandoned" ELSE runs[n]

(* Mutated: the first sighting starts no clock.                            *)
UnclockedAfterReap(n) ==
  IF runs[n] # "running" \/ Expired(n) THEN None
  ELSE IF HasInflight(n) THEN 0 ELSE clock[n]

ClockAfterReap(n) ==
  IF runs[n] # "running" \/ Expired(n) THEN None
  ELSE IF HasInflight(n) \/ clock[n] = None THEN 0 ELSE clock[n]

Reap ==
  /\ phase = "serving"
  /\ runs' = [n \in Runs |-> ParkedState(n)]
  /\ version' = [n \in Runs |-> ParkedVersion(n)]
  /\ clock' = [n \in Runs |-> ClockAfterReap(n)]
  /\ UNCHANGED <<phase, panelOk, rounds, keys, inflight, waiting, quiet, answers, failed>>

(***************************************************************************)
(* Graceful stop: no more requests, then the rounds in flight end, then    *)
(* the store is closed. A crash may come at any time. The next start       *)
(* reconciles first, and may have loaded another config.                   *)
(***************************************************************************)
Close ==
  /\ phase = "serving"
  /\ phase' = "closing"
  /\ waiting' = [c \in Clients |-> None]
  /\ UNCHANGED <<panelOk, durable, inflight, clock, quiet, answers, failed>>

(* Mutated: the store is closed with rounds in flight.                     *)
DrainSkipped == TRUE

Drained == \A r \in Rounds : inflight[r] = None

Down(how) ==
  /\ phase' = how
  /\ inflight' = [r \in Rounds |-> None]
  /\ clock' = [n \in Runs |-> None]
  /\ waiting' = [c \in Clients |-> None]
  /\ UNCHANGED <<panelOk, durable, quiet, answers, failed>>

Stop == phase = "closing" /\ Drained /\ Down("stopped")

Crash == phase \in {"serving", "closing"} /\ Down("crashed")

Interrupted(n) == {r \in Rounds : rounds[r].run = n /\ rounds[r].state = "running"}

Restart ==
  /\ phase \in {"stopped", "crashed"}
  /\ phase' = "serving"
  /\ panelOk' \in BOOLEAN
  /\ rounds' = [r \in Rounds |->
                  IF rounds[r].state = "running" THEN [rounds[r] EXCEPT !.state = "complete"]
                                                 ELSE rounds[r]]
  /\ version' = [n \in Runs |-> version[n] + Cardinality(Interrupted(n))]
  /\ UNCHANGED <<runs, keys, memory, quiet, answers, failed>>

(***************************************************************************)
(* The specification.                                                      *)
(***************************************************************************)
Call(n, r) ==
  \/ \E k \in StartKeys \cup {None} : StartRun(k, n, r)
  \/ \E k \in ({n} \X RoundKeys) \cup {None} : StartRound(k, n, r)
  \/ \E c \in Clients : Poll(c, n, r)
  \/ CancelRound(n, r)

Next ==
  \/ \E n \in Runs, r \in Rounds : Call(n, r)
  \/ \E n \in Runs : Status(n) \/ ReadRaw(n) \/ CancelRun(n)
  \/ \E c \in Clients : PollReturns(c)
  \/ \E r \in Rounds : RoundCompletes(r)
  \/ Tick \/ Reap \/ Close \/ Stop \/ Crash \/ Restart

Spec == Init /\ [][Next]_vars

(* Time passes, the reaper's interval comes round and a poll whose race is *)
(* decided is resumed. Rounds need not end and clients need not call.      *)
Fairness ==
  /\ WF_vars(Tick) /\ WF_vars(Reap)
  /\ \A c \in Clients : WF_vars(PollReturns(c))

FairSpec == Spec /\ Fairness

(***************************************************************************)
(* Properties.                                                             *)
(***************************************************************************)
RoundRow == [run : Runs \cup {None}, state : {"absent", "running", "complete"}]

(* Type invariant.                                                         *)
TypeOK ==
  /\ phase \in {"serving", "closing", "stopped", "crashed"}
  /\ panelOk \in BOOLEAN
  /\ runs \in [Runs -> {"absent", "running", "abandoned"}]
  /\ rounds \in [Rounds -> RoundRow]
  /\ version \in [Runs -> Nat]
  /\ keys \in [Keys -> KeyEntry \cup {None}]
  /\ inflight \in [Rounds -> Dispatched \cup {None}]
  /\ clock \in [Runs -> Ticks \cup {None}]
  /\ waiting \in [Clients -> LongPoll \cup {None}]
  /\ quiet \in [Runs -> Ticks]
  /\ answers \subseteq [key : Keys, run : Runs, round : Rounds]
  /\ failed \subseteq Rounds

(* docs/mcp.md:53-56: a retried call with the same key starts no duplicate *)
(* work, across restarts, parking and changes of the panel: the answers to *)
(* one key that name a round which is really there agree. Only startRound  *)
(* answers before it knows of its commit, and may name one that failed.    *)
Committed == {x \in answers : rounds[x.round].run = x.run}

OneAnswerPerKey ==
  /\ \A x, y \in Committed : x.key = y.key => x = y
  /\ \A x \in answers \ Committed : x.key \notin StartKeys

(* A run is never parked while a round of it is in flight, nor is a round  *)
(* ever started on a parked run: the reaper, a start and a re-adoption     *)
(* cannot cross (D14).                                                     *)
LiveRunNotParked ==
  \A r \in Rounds : inflight[r] # None => runs[inflight[r].run] = "running"

DaemonInv == TypeOK /\ LiveRunNotParked

(* The reaper parks a run only when nobody has called about it for the     *)
(* whole TTL, also after a restart, which forgets every clock.             *)
NotParkedEarly ==
  [][\A n \in Runs :
       runs[n] = "running" /\ runs'[n] = "abandoned" => quiet[n] >= Ttl]_vars

(* stateVersion detects change: whatever a snapshot of a run shows cannot  *)
(* change while its version stays, and the version never goes back, not    *)
(* even across a restart.                                                  *)
Snapshot(n) ==
  <<runs[n], {<<r, rounds[r].state>> : r \in {x \in Rounds : rounds[x].run = n}}>>

VersionTellsChange ==
  [][\A n \in Runs :
       /\ version'[n] >= version[n]
       /\ Snapshot(n)' # Snapshot(n) => version'[n] > version[n]]_vars

(* A graceful stop loses no work: once the store is closed no round is     *)
(* left running for the next start to interrupt, unless its last write     *)
(* failed.                                                                 *)
StopLosesNothing ==
  phase = "stopped" => \A r \in Rounds \ failed : rounds[r].state # "running"

(* A long-poll returns, even when its round never ends and whatever wait   *)
(* the client asked for: its timer is set and runs down, and the race is   *)
(* decided by either side.                                                 *)
EveryPollReturns ==
  \A c \in Clients : waiting[c] # None ~> waiting[c] = None

(* A run nobody calls about is parked in the end, the ones a restart found *)
(* included, unless the daemon goes down first.                            *)
Neglected(n) == runs[n] = "running" /\ quiet[n] >= Ttl /\ ~HasInflight(n)

IdleRunsParked ==
  \A n \in Runs : Neglected(n) ~> (~Neglected(n) \/ phase # "serving")
=============================================================================
