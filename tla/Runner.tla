------------------------------- MODULE Runner -------------------------------
(***************************************************************************)
(* The process runner of packages/proc (runProcess, the POSIX terminator)  *)
(* with the caller's part of it in the engine (runOnce) and the daemon:    *)
(* the registry of process groups and the sweep of the orphans of an       *)
(* earlier daemon. The attempts are the successive invocations of one      *)
(* adapter: the engine's chain starts one when the one before has settled. *)
(*                                                                         *)
(* A CLI is its leader and at most one helper process. A helper is in the  *)
(* leader's group or has left it (setsid), and may hold the CLI's output   *)
(* pipes open after the leader's exit.                                     *)
(***************************************************************************)
EXTENDS Integers, FiniteSets

CONSTANTS
  MaxAttempts,  (* Bound: invocations of the adapter.                       *)
  Streams,      (* The captured streams.                                    *)
  MaxOutput,    (* maxOutputBytes, the cap of each stream.                  *)
  MaxReceived,  (* Bound: bytes a CLI writes to one stream.                 *)
  None

Attempts == 1..MaxAttempts

Reasons == {"timeout", "cancelled", "output-overflow"}

ASSUME RunnerAssumption ==
  /\ MaxAttempts \in Nat /\ MaxOutput \in Nat /\ MaxReceived \in Nat
  /\ IsFiniteSet(Streams)
  /\ None \notin Reasons \cup {"exited", "spawn-error"}

VARIABLES
  daemon,    (* "serving", "down", or "sweeping" while it starts.           *)
  proc,      (* The processes of each attempt.                              *)
  job,       (* runProcess's local state, lost in a crash.                  *)
  term,      (* The terminator's progress on each group.                    *)
  aborted,   (* Has the attempt's AbortSignal fired?                        *)
  registry   (* Table pgids: the groups recorded.                           *)

vars == <<daemon, proc, job, term, aborted, registry>>

IdleJob ==
  [pc |-> "idle", outcome |-> "exited", latched |-> FALSE, killing |-> FALSE,
   truncated |-> FALSE, kept |-> [s \in Streams |-> 0],
   received |-> [s \in Streams |-> 0], recorded |-> FALSE, result |-> None]

Init ==
  /\ daemon   = "serving"
  /\ proc     = [k \in Attempts |-> [leader |-> "none", helper |-> "none"]]
  /\ job      = [k \in Attempts |-> IdleJob]
  /\ term     = [k \in Attempts |-> "off"]
  /\ aborted  = [k \in Attempts |-> FALSE]
  /\ registry = {}

GroupAlive(k) == proc[k].leader = "alive" \/ proc[k].helper \in {"quiet", "piping"}
PipesOpen(k) == proc[k].leader = "alive" \/ proc[k].helper \in {"piping", "escaped"}
HasPid(k) == proc[k].leader # "failed"
Running(k) == daemon = "serving" /\ job[k].pc = "running"

(***************************************************************************)
(* Settling: the first call of finish resolves the promise, and runOnce    *)
(* forgets the group. The registry is advisory: a write of it may fail.    *)
(***************************************************************************)
Settled(j, result) == [j EXCEPT !.pc = "settled", !.result = result]

Finish(k, result) ==
  /\ job' = [job EXCEPT ![k] = Settled(@, result)]
  /\ registry' \in {registry \ {k}, registry}

(***************************************************************************)
(* The start of an attempt: a signal that has already fired launches       *)
(* nothing; spawn may throw; an unknown executable yields a child without  *)
(* a pid and an error event later.                                         *)
(***************************************************************************)
MayStart(k) ==
  /\ daemon = "serving"
  /\ job[k].pc = "idle"
  /\ k > 1 => job[k - 1].pc \in {"settled", "lost"}

NotLaunched(k) ==
  /\ MayStart(k)
  /\ job' = [job EXCEPT ![k] = Settled(@, IF aborted[k] THEN "cancelled" ELSE "spawn-error")]
  /\ UNCHANGED <<daemon, proc, term, aborted, registry>>

Launch(k) ==
  /\ MayStart(k)
  /\ ~aborted[k]
  /\ \/ /\ proc' = [proc EXCEPT ![k].leader = "failed"]
        /\ job' = [job EXCEPT ![k].pc = "running"]
        /\ UNCHANGED registry
     \/ \E recorded \in BOOLEAN :
          /\ proc' = [proc EXCEPT ![k].leader = "alive"]
          /\ job' = [job EXCEPT ![k].pc = "running", ![k].recorded = recorded]
          /\ registry' = IF recorded THEN registry \cup {k} ELSE registry
  /\ UNCHANGED <<daemon, term, aborted>>

ErrorEvent(k) ==
  /\ Running(k)
  /\ ~HasPid(k)
  /\ Finish(k, "spawn-error")
  /\ UNCHANGED <<daemon, proc, term, aborted>>

(***************************************************************************)
(* requestKill and killTree: the first reason is latched, the terminator   *)
(* is called once and signals SIGTERM at once, which a process may ignore. *)
(***************************************************************************)
(* Mutated: the last reason is reported.                                   *)
LastReason(j, reason) == reason

Reason(j, reason) == IF j.latched THEN j.outcome ELSE reason

Requested(k, j, reason) ==
  [j EXCEPT !.outcome = Reason(j, reason), !.latched = TRUE, !.killing = HasPid(k)]

Terminate(k) == IF GroupAlive(k) THEN "grace" ELSE "done"

KillTree(k) ==
  term' = IF job[k].killing \/ ~HasPid(k) THEN term ELSE [term EXCEPT ![k] = Terminate(k)]

RequestKill(k, reason) ==
  /\ job' = [job EXCEPT ![k] = Requested(k, @, reason)]
  /\ KillTree(k)

Timeout(k) ==
  /\ Running(k)
  /\ RequestKill(k, "timeout")
  /\ UNCHANGED <<daemon, proc, aborted, registry>>

Abort(k) ==
  /\ daemon = "serving"
  /\ ~aborted[k]
  /\ aborted' = [aborted EXCEPT ![k] = TRUE]
  /\ IF Running(k) THEN RequestKill(k, "cancelled") ELSE UNCHANGED <<job, term>>
  /\ UNCHANGED <<daemon, proc, registry>>

(* collect: n bytes of stream s arrive, possibly after the leader's exit.  *)
Overflows(k, s, n) == job[k].kept[s] + n > MaxOutput

Collect(k, s, n) ==
  LET got == [job[k] EXCEPT !.received[s] = @ + n]
  IN  /\ Running(k)
      /\ HasPid(k)
      /\ got.received[s] <= MaxReceived
      /\ IF Overflows(k, s, n)
         THEN /\ job' = [job EXCEPT ![k] =
                   Requested(k, [got EXCEPT !.kept[s] = MaxOutput, !.truncated = TRUE],
                             "output-overflow")]
              /\ KillTree(k)
         ELSE /\ job' = [job EXCEPT ![k] = [got EXCEPT !.kept[s] = @ + n]]
              /\ UNCHANGED term
      /\ UNCHANGED <<daemon, proc, aborted, registry>>

(* Mutated: on the exit event, with output still to come.                  *)
Exited(k) == proc[k].leader = "exited"

(* The close event: the leader has exited and nobody holds the pipes.      *)
Closed(k) == proc[k].leader = "exited" /\ ~PipesOpen(k)

Close(k) ==
  /\ Running(k)
  /\ Closed(k)
  /\ Finish(k, job[k].outcome)
  /\ UNCHANGED <<daemon, proc, term, aborted>>

(* Mutated: gives up only once the pipes are closed.                       *)
FallbackExpiredOnClose(k) == job[k].killing /\ term[k] = "done" /\ ~PipesOpen(k)

(* The fallback timer (8 s) is armed with the kill and is longer than the  *)
(* terminator's grace (2 s), so the terminator is done when it fires.      *)
FallbackExpired(k) == job[k].killing /\ term[k] = "done"

Fallback(k) ==
  /\ Running(k)
  /\ FallbackExpired(k)
  /\ Finish(k, job[k].outcome)
  /\ UNCHANGED <<daemon, proc, term, aborted>>

(***************************************************************************)
(* The terminator: polls the group during the grace, then SIGKILL.         *)
(***************************************************************************)
TermPoll(k) ==
  /\ daemon # "down"
  /\ term[k] = "grace"
  /\ ~GroupAlive(k)
  /\ term' = [term EXCEPT ![k] = "done"]
  /\ UNCHANGED <<daemon, proc, job, aborted, registry>>

(* Mutated: only the leader is killed.                                     *)
LeaderKilled(p) == [p EXCEPT !.leader = IF @ = "alive" THEN "exited" ELSE @]

GroupKilled(p) ==
  [leader |-> IF p.leader = "alive" THEN "exited" ELSE p.leader,
   helper |-> IF p.helper \in {"quiet", "piping"} THEN "gone" ELSE p.helper]

TermKill(k) ==
  /\ daemon # "down"
  /\ term[k] = "grace"
  /\ GroupAlive(k)
  /\ term' = [term EXCEPT ![k] = "done"]
  /\ proc' = [proc EXCEPT ![k] = GroupKilled(@)]
  /\ UNCHANGED <<daemon, job, aborted, registry>>

(***************************************************************************)
(* The CLI itself.                                                         *)
(***************************************************************************)
LeaderExits(k) ==
  /\ proc[k].leader = "alive"
  /\ proc' = [proc EXCEPT ![k].leader = "exited"]
  /\ UNCHANGED <<daemon, job, term, aborted, registry>>

HelperStarts(k) ==
  /\ proc[k].leader = "alive"
  /\ proc[k].helper = "none"
  /\ \E kind \in {"quiet", "piping", "escaped"} : proc' = [proc EXCEPT ![k].helper = kind]
  /\ UNCHANGED <<daemon, job, term, aborted, registry>>

HelperExits(k) ==
  /\ proc[k].helper \in {"quiet", "piping", "escaped"}
  /\ proc' = [proc EXCEPT ![k].helper = "gone"]
  /\ UNCHANGED <<daemon, job, term, aborted, registry>>

(***************************************************************************)
(* The daemon dies; the next one sweeps the recorded groups, all at once,  *)
(* and clears their rows before it serves (sweepOrphans). It may die again *)
(* meanwhile.                                                              *)
(***************************************************************************)
Crash ==
  /\ daemon # "down"
  /\ daemon' = "down"
  /\ job' = [k \in Attempts |-> IF job[k].pc = "running" THEN [job[k] EXCEPT !.pc = "lost"]
                                                         ELSE job[k]]
  /\ term' = [k \in Attempts |-> "off"]
  /\ UNCHANGED <<proc, aborted, registry>>

(* Mutated: the rows are cleared while the groups are being killed.        *)
SweepStarted == daemon = "sweeping"

Swept == \A k \in registry : term[k] = "done"

Restart ==
  /\ daemon = "down"
  /\ daemon' = "sweeping"
  /\ term' = [k \in Attempts |-> IF k \in registry THEN Terminate(k) ELSE term[k]]
  /\ UNCHANGED <<proc, job, aborted, registry>>

SweepDone ==
  /\ daemon = "sweeping"
  /\ Swept
  /\ daemon' = "serving"
  /\ registry' = {}
  /\ UNCHANGED <<proc, job, term, aborted>>

(***************************************************************************)
(* The specification.                                                      *)
(***************************************************************************)
RunnerStep(k) ==
  \/ NotLaunched(k) \/ Launch(k) \/ ErrorEvent(k)
  \/ Timeout(k) \/ Abort(k) \/ Close(k) \/ Fallback(k)
  \/ \E s \in Streams, n \in 1..MaxReceived : Collect(k, s, n)
  \/ TermPoll(k) \/ TermKill(k)

CliStep(k) == LeaderExits(k) \/ HelperStarts(k) \/ HelperExits(k)

Next ==
  \/ \E k \in Attempts : RunnerStep(k) \/ CliStep(k)
  \/ Crash \/ Restart \/ SweepDone

Spec == Init /\ [][Next]_vars

(* Timers fire, events are delivered and a crashed daemon is started again. *)
(* Nothing is assumed of the CLI: it may never exit and ignore SIGTERM.    *)
Fairness ==
  /\ \A k \in Attempts :
       /\ WF_vars(ErrorEvent(k)) /\ WF_vars(Timeout(k)) /\ WF_vars(Close(k))
       /\ WF_vars(Fallback(k)) /\ WF_vars(TermPoll(k)) /\ WF_vars(TermKill(k))
  /\ WF_vars(Restart) /\ WF_vars(SweepDone)

FairSpec == Spec /\ Fairness

(***************************************************************************)
(* Properties.                                                             *)
(***************************************************************************)
Job ==
  [pc : {"idle", "running", "settled", "lost"}, outcome : Reasons \cup {"exited"},
   latched : BOOLEAN, killing : BOOLEAN, truncated : BOOLEAN,
   kept : [Streams -> 0..MaxOutput], received : [Streams -> 0..MaxReceived],
   recorded : BOOLEAN, result : Reasons \cup {"exited", "spawn-error", None}]

Process == [leader : {"none", "alive", "exited", "failed"},
            helper : {"none", "quiet", "piping", "escaped", "gone"}]

(* Type invariant; the captured bytes of a stream never exceed its cap.    *)
TypeOK ==
  /\ daemon \in {"serving", "down", "sweeping"}
  /\ proc \in [Attempts -> Process]
  /\ job \in [Attempts -> Job]
  /\ term \in [Attempts -> {"off", "grace", "done"}]
  /\ aborted \in [Attempts -> BOOLEAN]
  /\ registry \subseteq Attempts

(* Whatever races with whatever (timeout, cancel, overflow, the CLI's own  *)
(* exit, the fallback), the reason reported is the one that was first to   *)
(* ask for the kill, and an answer once given is never revised.            *)
ReasonKept(k) ==
  /\ job[k].latched => job'[k].outcome = job[k].outcome
  /\ job[k].latched /\ job[k].pc = "running" /\ job'[k].pc = "settled" =>
       job'[k].result \in {job[k].outcome, "spawn-error"}
  /\ job[k].pc = "settled" => job'[k].result = job[k].result

FirstReasonWins == [][\A k \in Attempts : ReasonKept(k)]_vars

(* Output is never dropped silently: bytes were dropped exactly when the   *)
(* result is marked truncated, and a CLI whose output was cut is being     *)
(* killed; an exited result holds all that the CLI, its helpers included,  *)
(* will ever write.                                                        *)
OutputHonest ==
  \A k \in Attempts :
    /\ job[k].truncated <=> job[k].kept # job[k].received
    /\ job[k].truncated => job[k].killing
    /\ job[k].result = "exited" => ~job[k].truncated /\ ~PipesOpen(k)

RunnerInv == TypeOK /\ OutputHonest

(* An attempt always ends, whatever the CLI does: it may never exit, ignore *)
(* SIGTERM, or leave behind a helper that holds the pipes open.            *)
EveryAttemptSettles ==
  \A k \in Attempts : job[k].pc = "running" ~> job[k].pc # "running"

(* A terminator that was started reaches the whole group, the helpers that *)
(* outlive the leader included, unless the daemon dies first.              *)
KilledTreeDies ==
  \A k \in Attempts : term[k] # "off" ~> (~GroupAlive(k) \/ daemon = "down")

(* A new daemon serves only when no recorded group of an attempt its       *)
(* predecessors left running is alive, however often they crashed, during  *)
(* the sweep too (sweepOrphans before listening).                          *)
LostAttemptsSwept ==
  daemon = "serving" =>
    \A k \in Attempts : job[k].pc = "lost" /\ job[k].recorded => ~GroupAlive(k)
=============================================================================
