---------------------------- MODULE RunnerProofs ----------------------------
(***************************************************************************)
(* Proofs about module Runner, for any number of attempts and streams and  *)
(* any limits.                                                             *)
(***************************************************************************)
EXTENDS Runner, TLAPS

(***************************************************************************)
(* The inductive invariant.                                                *)
(***************************************************************************)
GroupUp(p) == p.leader = "alive" \/ p.helper \in {"quiet", "piping"}
PipesHeld(p) == p.leader = "alive" \/ p.helper \in {"piping", "escaped"}

(* What a job's own state says of it and of its processes p.               *)
JobSound(j, p) ==
  /\ j.pc = "idle" => ~j.killing /\ ~j.recorded
  /\ j.killing => j.latched /\ p.leader # "failed"
  /\ j.latched => j.outcome # "exited"
  /\ \A s \in Streams : j.kept[s] <= j.received[s]
  /\ j.truncated <=> j.kept # j.received
  /\ j.truncated => j.killing
  /\ j.result = "exited" => j.pc = "settled" /\ ~j.truncated /\ ~PipesHeld(p)

JobsSound == \A k \in Attempts : JobSound(job[k], proc[k])

(* Only a serving daemon has attempts running; a group that may be alive   *)
(* without it is recorded.                                                 *)
Attended(k) ==
  /\ job[k].pc = "running" => daemon = "serving"
  /\ job[k].recorded /\ job[k].pc = "running" => k \in registry
  /\ job[k].recorded /\ job[k].pc = "lost" /\ GroupUp(proc[k]) =>
       daemon # "serving" /\ k \in registry

(* The sweep is done with a group only when it is dead.                    *)
SweepSound(k) ==
  /\ daemon = "down" => term[k] = "off"
  /\ daemon = "sweeping" /\ term[k] = "done" => ~GroupUp(proc[k])

RegistrySound == \A k \in Attempts : Attended(k) /\ SweepSound(k)

RunInv == TypeOK /\ JobsSound /\ RegistrySound

(***************************************************************************)
(* A step of one attempt, which leaves the others and the daemon alone.    *)
(***************************************************************************)
Frame(k, j, p) ==
  /\ job' = [job EXCEPT ![k] = j]
  /\ proc' = [proc EXCEPT ![k] = p]
  /\ term' \in [Attempts -> {"off", "grace", "done"}]
  /\ \A q \in Attempts : q # k => term'[q] = term[q]
  /\ \A q \in Attempts : q # k => (q \in registry' <=> q \in registry)
  /\ aborted' \in [Attempts -> BOOLEAN] /\ registry' \subseteq Attempts
  /\ daemon' = daemon

LEMMA FrameStep ==
  ASSUME RunInv, NEW k \in Attempts, NEW j \in Job, NEW p \in Process, Frame(k, j, p),
         JobSound(j, p), Attended(k)', SweepSound(k)'
  PROVE  RunInv'
<1>1. /\ job \in [Attempts -> Job] /\ proc \in [Attempts -> Process]
      /\ daemon \in {"serving", "down", "sweeping"}
  BY DEF RunInv, TypeOK
<1>2. /\ job' = [job EXCEPT ![k] = j] /\ proc' = [proc EXCEPT ![k] = p] /\ daemon' = daemon
  BY DEF Frame
<1>3. job'[k] = j /\ proc'[k] = p
  BY <1>1, <1>2
<1>4. \A q \in Attempts : q # k => job'[q] = job[q] /\ proc'[q] = proc[q]
  BY <1>1, <1>2
<1>5. job' \in [Attempts -> Job] /\ proc' \in [Attempts -> Process]
  BY <1>1, <1>2
<1>6. TypeOK'
  BY <1>1, <1>2, <1>5 DEF Frame, TypeOK
<1>7. JobsSound'
  <2> SUFFICES ASSUME NEW q \in Attempts PROVE JobSound(job'[q], proc'[q])
    BY DEF JobsSound, JobSound, PipesHeld
  <2>1. JobSound(job[q], proc[q])
    BY DEF RunInv, JobsSound
  <2> QED
    BY <1>3, <1>4, <2>1
<1>8. RegistrySound'
  <2> SUFFICES ASSUME NEW q \in Attempts, q # k PROVE Attended(q)' /\ SweepSound(q)'
    BY DEF RegistrySound
  <2>1. Attended(q) /\ SweepSound(q)
    BY DEF RunInv, RegistrySound
  <2>2. job'[q] = job[q] /\ proc'[q] = proc[q] /\ daemon' = daemon
    BY <1>2, <1>4
  <2>3. term'[q] = term[q] /\ (q \in registry' <=> q \in registry)
    BY DEF Frame
  <2> QED
    BY <2>1, <2>2, <2>3 DEF Attended, SweepSound
<1> QED
  BY <1>6, <1>7, <1>8 DEF RunInv

(* What the invariant says of one attempt.                                 *)
LEMMA OneAttempt ==
  ASSUME RunInv, NEW k \in Attempts
  PROVE  /\ job[k] \in Job /\ proc[k] \in Process
         /\ JobSound(job[k], proc[k]) /\ Attended(k) /\ SweepSound(k)
         /\ job = [job EXCEPT ![k] = job[k]] /\ proc = [proc EXCEPT ![k] = proc[k]]
         /\ job \in [Attempts -> Job] /\ proc \in [Attempts -> Process]
         /\ term \in [Attempts -> {"off", "grace", "done"}]
         /\ aborted \in [Attempts -> BOOLEAN] /\ registry \subseteq Attempts
         /\ HasPid(k) <=> proc[k].leader # "failed"
         /\ GroupAlive(k) <=> GroupUp(proc[k])
         /\ PipesOpen(k) <=> PipesHeld(proc[k])
<1>1. /\ job \in [Attempts -> Job] /\ proc \in [Attempts -> Process]
      /\ term \in [Attempts -> {"off", "grace", "done"}]
      /\ aborted \in [Attempts -> BOOLEAN] /\ registry \subseteq Attempts
  BY DEF RunInv, TypeOK
<1>2. JobSound(job[k], proc[k]) /\ Attended(k) /\ SweepSound(k)
  BY DEF RunInv, JobsSound, RegistrySound
<1>3. job = [job EXCEPT ![k] = job[k]] /\ proc = [proc EXCEPT ![k] = proc[k]]
  BY <1>1
<1> QED
  BY <1>1, <1>2, <1>3 DEF HasPid, GroupAlive, GroupUp, PipesOpen, PipesHeld

(***************************************************************************)
(* What the operations on a job do.                                        *)
(***************************************************************************)
LEMMA SettledEffect ==
  ASSUME NEW j \in Job, NEW p \in Process, JobSound(j, p),
         NEW result \in Reasons \cup {"exited", "spawn-error"},
         result = "exited" => ~j.truncated /\ ~PipesHeld(p)
  PROVE  /\ Settled(j, result) \in Job /\ JobSound(Settled(j, result), p)
         /\ Settled(j, result).pc = "settled"
BY DEF Settled, Job, JobSound

LEMMA RequestedEffect ==
  ASSUME NEW k \in Attempts, NEW j \in Job, JobSound(j, proc[k]), NEW reason \in Reasons,
         j.pc # "idle"
  PROVE  /\ Requested(k, j, reason) \in Job /\ JobSound(Requested(k, j, reason), proc[k])
         /\ Requested(k, j, reason).pc = j.pc
         /\ Requested(k, j, reason).recorded = j.recorded
         /\ Requested(k, j, reason).result = j.result
         /\ j.latched => Requested(k, j, reason).outcome = j.outcome
<1> DEFINE r == Requested(k, j, reason)
<1>1. r \in Job
  BY DEF Requested, Reason, Job, HasPid, Reasons
<1>2. /\ r.pc = j.pc /\ r.recorded = j.recorded /\ r.result = j.result
      /\ r.kept = j.kept /\ r.received = j.received /\ r.truncated = j.truncated
      /\ r.latched = TRUE /\ r.killing = HasPid(k)
      /\ r.outcome = IF j.latched THEN j.outcome ELSE reason
  BY DEF Requested, Reason, Job
<1>3. reason # "exited"
  BY DEF Reasons
<1> HIDE DEF r
<1>4. JobSound(r, proc[k])
  BY <1>2, <1>3 DEF JobSound, HasPid
<1> QED
  BY <1>1, <1>2, <1>4 DEF r

(* Bytes that arrive: kept as they are, or cut at the cap.                 *)
Grown(j, s, n) == [j EXCEPT !.received[s] = @ + n]
KeptAll(j, s, n) == [Grown(j, s, n) EXCEPT !.kept[s] = @ + n]
KeptCut(j, s, n) == [Grown(j, s, n) EXCEPT !.kept[s] = MaxOutput, !.truncated = TRUE]
Cut(k, s, n) == Requested(k, KeptCut(job[k], s, n), "output-overflow")

LEMMA KeptEffect ==
  ASSUME NEW j \in Job, NEW p, JobSound(j, p), NEW s \in Streams, NEW n \in 1..MaxReceived,
         j.received[s] + n <= MaxReceived, j.kept[s] + n <= MaxOutput
  PROVE  /\ KeptAll(j, s, n) \in Job /\ JobSound(KeptAll(j, s, n), p)
         /\ KeptAll(j, s, n).pc = j.pc /\ KeptAll(j, s, n).recorded = j.recorded
         /\ KeptAll(j, s, n).result = j.result /\ KeptAll(j, s, n).outcome = j.outcome
<1> DEFINE g == KeptAll(j, s, n)
<1>1. /\ j.kept \in [Streams -> 0..MaxOutput] /\ j.received \in [Streams -> 0..MaxReceived]
      /\ MaxOutput \in Nat /\ MaxReceived \in Nat
  BY RunnerAssumption DEF Job
<1>2. /\ g.kept = [j.kept EXCEPT ![s] = @ + n] /\ g.received = [j.received EXCEPT ![s] = @ + n]
      /\ g.pc = j.pc /\ g.recorded = j.recorded /\ g.result = j.result /\ g.outcome = j.outcome
      /\ g.latched = j.latched /\ g.killing = j.killing /\ g.truncated = j.truncated
  BY DEF Job, KeptAll, Grown
<1>3. g.kept \in [Streams -> 0..MaxOutput] /\ g.received \in [Streams -> 0..MaxReceived]
  BY <1>1, <1>2
<1>4. g \in Job
  BY <1>1, <1>3 DEF Job, KeptAll, Grown
<1>5. \A t \in Streams : /\ g.kept[t] <= g.received[t]
                         /\ g.kept[t] = g.received[t] <=> j.kept[t] = j.received[t]
  BY <1>1, <1>2 DEF JobSound
<1>6. g.kept = g.received <=> j.kept = j.received
  BY <1>1, <1>3, <1>5
<1> HIDE DEF g
<1>7. JobSound(g, p)
  BY <1>2, <1>5, <1>6 DEF JobSound
<1> QED
  BY <1>2, <1>4, <1>7 DEF g

LEMMA CutEffect ==
  ASSUME NEW k \in Attempts, job[k] \in Job, JobSound(job[k], proc[k]), NEW s \in Streams,
         NEW n \in 1..MaxReceived, HasPid(k), job[k].pc # "idle", job[k].result # "exited",
         job[k].received[s] + n <= MaxReceived, job[k].kept[s] + n > MaxOutput
  PROVE  /\ Cut(k, s, n) \in Job /\ JobSound(Cut(k, s, n), proc[k])
         /\ Cut(k, s, n).pc = job[k].pc /\ Cut(k, s, n).recorded = job[k].recorded
         /\ Cut(k, s, n).result = job[k].result
         /\ job[k].latched => Cut(k, s, n).outcome = job[k].outcome
<1> DEFINE j == job[k]
           cut == KeptCut(j, s, n)
           g == Cut(k, s, n)
<1>1. /\ j.kept \in [Streams -> 0..MaxOutput] /\ j.received \in [Streams -> 0..MaxReceived]
      /\ MaxOutput \in Nat /\ MaxReceived \in Nat
  BY RunnerAssumption DEF Job
<1>2. /\ cut.kept = [j.kept EXCEPT ![s] = MaxOutput]
      /\ cut.received = [j.received EXCEPT ![s] = @ + n]
      /\ cut.pc = j.pc /\ cut.recorded = j.recorded /\ cut.result = j.result
      /\ cut.outcome = j.outcome /\ cut.latched = j.latched /\ cut.truncated = TRUE
  BY DEF Job, KeptCut, Grown
<1>3. cut.kept \in [Streams -> 0..MaxOutput] /\ cut.received \in [Streams -> 0..MaxReceived]
  BY <1>1, <1>2
<1>4. cut \in Job
  BY <1>1, <1>3 DEF Job, KeptCut, Grown
<1> HIDE DEF cut
<1>5. g \in Job
  BY <1>4 DEF cut, Cut, Requested, Reason, Job, HasPid, Reasons
<1>6. /\ g.pc = cut.pc /\ g.recorded = cut.recorded /\ g.result = cut.result
      /\ g.kept = cut.kept /\ g.received = cut.received /\ g.truncated = cut.truncated
      /\ g.latched = TRUE /\ g.killing = HasPid(k)
      /\ g.outcome = IF cut.latched THEN cut.outcome ELSE "output-overflow"
  BY <1>4 DEF cut, Cut, Requested, Reason, Job
<1>7. \A t \in Streams : cut.kept[t] <= cut.received[t]
  BY <1>1, <1>2 DEF JobSound
<1>8. cut.kept # cut.received
  <2>1. cut.kept[s] < cut.received[s]
    BY <1>1, <1>2 DEF JobSound
  <2> QED
    BY <1>3, <2>1
<1> HIDE DEF g
<1>9. JobSound(g, proc[k])
  BY <1>2, <1>6, <1>7, <1>8 DEF JobSound, HasPid
<1> QED
  BY <1>2, <1>5, <1>6, <1>9 DEF g, cut

(***************************************************************************)
(* The steps of the runner.                                                *)
(***************************************************************************)
LEMMA NotLaunchedStep ==
  ASSUME RunInv, NEW k \in Attempts, NotLaunched(k)
  PROVE  RunInv'
<1> DEFINE j == Settled(job[k], IF aborted[k] THEN "cancelled" ELSE "spawn-error")
<1>1. job[k] \in Job /\ proc[k] \in Process /\ JobSound(job[k], proc[k]) /\ job[k].pc = "idle"
  BY OneAttempt DEF NotLaunched, MayStart
<1>2. j \in Job /\ JobSound(j, proc[k]) /\ j.pc = "settled"
  BY <1>1, SettledEffect DEF Reasons
<1>3. job' = [job EXCEPT ![k] = j] /\ UNCHANGED <<daemon, proc, term, aborted, registry>>
  BY DEF NotLaunched
<1> HIDE DEF j
<1>4. Frame(k, j, proc[k])
  BY <1>3, OneAttempt DEF Frame
<1>5. job'[k] = j /\ proc'[k] = proc[k] /\ Attended(k) /\ SweepSound(k)
  BY <1>3, OneAttempt
<1>6. Attended(k)' /\ SweepSound(k)'
  BY <1>2, <1>3, <1>5 DEF Attended, SweepSound
<1> QED
  BY <1>1, <1>2, <1>4, <1>6, FrameStep

LEMMA LaunchStep ==
  ASSUME RunInv, NEW k \in Attempts, Launch(k)
  PROVE  RunInv'
<1>1. /\ job[k] \in Job /\ proc[k] \in Process /\ JobSound(job[k], proc[k])
      /\ job[k].pc = "idle" /\ daemon = "serving"
  BY OneAttempt DEF Launch, MayStart
<1>2. ~job[k].killing /\ ~job[k].recorded /\ job[k].result # "exited" /\ ~job[k].truncated
  BY <1>1 DEF JobSound
<1>3. ASSUME NEW lead \in {"failed", "alive"}, NEW recorded \in BOOLEAN,
             lead = "failed" => ~recorded,
             proc' = [proc EXCEPT ![k].leader = lead],
             job' = [job EXCEPT ![k].pc = "running", ![k].recorded = recorded],
             registry' = IF recorded THEN registry \cup {k} ELSE registry
      PROVE  RunInv'
  <2> DEFINE p == [proc[k] EXCEPT !.leader = lead]
             j == [[job[k] EXCEPT !.pc = "running"] EXCEPT !.recorded = recorded]
  <2>1. job' = [job EXCEPT ![k] = j] /\ proc' = [proc EXCEPT ![k] = p]
    <3>1. proc' = [proc EXCEPT ![k] = p]
      BY <1>3, OneAttempt
    <3>2. job' = [job EXCEPT ![k] = j]
      BY <1>3, OneAttempt DEF Job
    <3> QED
      BY <3>1, <3>2
  <2>2. p \in Process /\ p.leader = lead
    BY <1>1 DEF Process
  <2>3. /\ j \in Job /\ j.pc = "running" /\ j.recorded = recorded
        /\ j.killing = job[k].killing /\ j.latched = job[k].latched
        /\ j.outcome = job[k].outcome /\ j.kept = job[k].kept
        /\ j.received = job[k].received /\ j.truncated = job[k].truncated
        /\ j.result = job[k].result
    BY <1>1 DEF Job
  <2> HIDE DEF p, j
  <2>4. JobSound(j, p)
    BY <1>1, <1>2, <2>3 DEF JobSound
  <2>5. Frame(k, j, p)
    BY <1>3, <2>1, OneAttempt DEF Frame, Launch
  <2>6. job'[k] = j /\ proc'[k] = p /\ daemon' = "serving"
    BY <1>1, <2>1, <2>5, OneAttempt DEF Frame
  <2>7. Attended(k)' /\ SweepSound(k)'
    BY <1>3, <2>3, <2>6 DEF Attended, SweepSound
  <2> QED
    BY <2>2, <2>3, <2>4, <2>5, <2>7, FrameStep
<1>4. CASE /\ proc' = [proc EXCEPT ![k].leader = "failed"]
           /\ job' = [job EXCEPT ![k].pc = "running"]
           /\ UNCHANGED registry
  <2>1. job' = [job EXCEPT ![k].pc = "running", ![k].recorded = FALSE]
    <3>1. [job[k] EXCEPT !.pc = "running"] = [job[k] EXCEPT !.pc = "running", !.recorded = FALSE]
      BY <1>1, <1>2 DEF Job
    <3>2. job' = [job EXCEPT ![k] = [job[k] EXCEPT !.pc = "running"]]
      BY <1>4
    <3>3. [job EXCEPT ![k].pc = "running", ![k].recorded = FALSE]
            = [job EXCEPT ![k] = [job[k] EXCEPT !.pc = "running", !.recorded = FALSE]]
      BY OneAttempt
    <3> QED
      BY <3>1, <3>2, <3>3
  <2> QED
    BY <1>3, <1>4, <2>1
<1>5. CASE \E recorded \in BOOLEAN :
             /\ proc' = [proc EXCEPT ![k].leader = "alive"]
             /\ job' = [job EXCEPT ![k].pc = "running", ![k].recorded = recorded]
             /\ registry' = IF recorded THEN registry \cup {k} ELSE registry
  BY <1>3, <1>5
<1> QED
  BY <1>4, <1>5 DEF Launch

(* The calls of finish.                                                    *)
LEMMA FinishStep ==
  ASSUME RunInv, NEW k \in Attempts, Running(k),
         NEW result \in Reasons \cup {"exited", "spawn-error"}, Finish(k, result),
         result = "exited" => ~job[k].truncated /\ ~PipesHeld(proc[k]),
         UNCHANGED <<daemon, proc, term, aborted>>
  PROVE  RunInv'
<1> DEFINE j == Settled(job[k], result)
<1>1. job[k] \in Job /\ proc[k] \in Process /\ JobSound(job[k], proc[k]) /\ daemon = "serving"
  BY OneAttempt DEF Running
<1>2. j \in Job /\ JobSound(j, proc[k]) /\ j.pc = "settled"
  BY <1>1, SettledEffect
<1>3. job' = [job EXCEPT ![k] = j] /\ registry' \in {registry \ {k}, registry}
  BY DEF Finish
<1> HIDE DEF j
<1>4. Frame(k, j, proc[k])
  BY <1>3, OneAttempt DEF Frame
<1>5. job'[k] = j /\ proc'[k] = proc[k]
  BY <1>3, OneAttempt
<1>6. Attended(k)' /\ SweepSound(k)'
  BY <1>1, <1>2, <1>5 DEF Attended, SweepSound
<1> QED
  BY <1>1, <1>2, <1>4, <1>6, FrameStep

LEMMA EndStep ==
  ASSUME RunInv, NEW k \in Attempts, ErrorEvent(k) \/ Close(k) \/ Fallback(k)
  PROVE  RunInv'
<1>1. /\ job[k] \in Job /\ JobSound(job[k], proc[k]) /\ Running(k)
      /\ PipesOpen(k) <=> PipesHeld(proc[k])
      /\ UNCHANGED <<daemon, proc, term, aborted>>
  BY OneAttempt DEF ErrorEvent, Close, Fallback
<1>2. job[k].outcome \in Reasons \cup {"exited", "spawn-error"}
  BY <1>1 DEF Job
<1>3. job[k].outcome = "exited" => ~job[k].truncated /\ ~job[k].killing
  BY <1>1 DEF JobSound
<1>4. CASE ErrorEvent(k)
  BY <1>1, <1>4, FinishStep DEF ErrorEvent
<1>5. CASE Close(k)
  <2>1. ~PipesHeld(proc[k]) /\ Finish(k, job[k].outcome)
    BY <1>1, <1>5 DEF Close, Closed
  <2> QED
    BY <1>1, <1>2, <1>3, <2>1, FinishStep
<1>6. CASE Fallback(k)
  <2>1. job[k].killing /\ Finish(k, job[k].outcome)
    BY <1>6 DEF Fallback, FallbackExpired
  <2> QED
    BY <1>1, <1>2, <1>3, <2>1, FinishStep
<1> QED
  BY <1>4, <1>5, <1>6

(* Killing and collecting: the attempt runs on, with another job state.    *)
LEMMA RunsOn ==
  ASSUME RunInv, NEW k \in Attempts, Running(k), NEW j \in Job, JobSound(j, proc[k]),
         j.pc = "running", j.recorded = job[k].recorded,
         job' = [job EXCEPT ![k] = j],
         term' = term \/ KillTree(k),
         aborted' \in [Attempts -> BOOLEAN], UNCHANGED <<daemon, proc, registry>>
  PROVE  RunInv'
<1>1. proc[k] \in Process /\ Attended(k) /\ daemon = "serving" /\ job[k].pc = "running"
  BY OneAttempt DEF Running
<1>2. /\ term' \in [Attempts -> {"off", "grace", "done"}]
      /\ \A q \in Attempts : q # k => term'[q] = term[q]
  BY OneAttempt DEF KillTree, Terminate
<1>3. Frame(k, j, proc[k])
  BY <1>2, OneAttempt DEF Frame
<1>4. job'[k] = j /\ proc'[k] = proc[k]
  BY OneAttempt
<1>5. Attended(k)' /\ SweepSound(k)'
  BY <1>1, <1>4 DEF Attended, SweepSound
<1> QED
  BY <1>1, <1>3, <1>5, FrameStep

LEMMA KillStep ==
  ASSUME RunInv, NEW k \in Attempts, Running(k), NEW reason \in Reasons, RequestKill(k, reason),
         aborted' \in [Attempts -> BOOLEAN], UNCHANGED <<daemon, proc, registry>>
  PROVE  RunInv'
<1> DEFINE j == Requested(k, job[k], reason)
<1>1. job[k] \in Job /\ JobSound(job[k], proc[k]) /\ job[k].pc = "running"
  BY OneAttempt DEF Running
<1>2. /\ j \in Job /\ JobSound(j, proc[k]) /\ j.pc = "running"
      /\ j.recorded = job[k].recorded
  BY <1>1, RequestedEffect
<1>3. job' = [job EXCEPT ![k] = j] /\ KillTree(k)
  BY DEF RequestKill
<1> HIDE DEF j
<1> QED
  BY <1>2, <1>3, RunsOn

LEMMA AbortStep ==
  ASSUME RunInv, NEW k \in Attempts, Abort(k)
  PROVE  RunInv'
<1>1. aborted' \in [Attempts -> BOOLEAN] /\ UNCHANGED <<daemon, proc, registry>>
  BY OneAttempt DEF Abort
<1>2. CASE Running(k)
  BY <1>1, <1>2, KillStep DEF Abort, Reasons
<1>3. CASE ~Running(k)
  <2>1. UNCHANGED <<job, term>>
    BY <1>3 DEF Abort
  <2>2. TypeOK'
    BY <1>1, <2>1 DEF RunInv, TypeOK
  <2> QED
    BY <1>1, <2>1, <2>2 DEF RunInv, JobsSound, RegistrySound, Attended, SweepSound
<1> QED
  BY <1>2, <1>3

LEMMA CollectStep ==
  ASSUME RunInv, NEW k \in Attempts, NEW s \in Streams, NEW n \in 1..MaxReceived, Collect(k, s, n)
  PROVE  RunInv'
<1>1. /\ job[k] \in Job /\ JobSound(job[k], proc[k]) /\ job[k].pc = "running"
      /\ HasPid(k) /\ Running(k)
  BY OneAttempt DEF Collect, Running
<1>2. UNCHANGED <<daemon, proc, registry>> /\ aborted' \in [Attempts -> BOOLEAN]
  BY OneAttempt DEF Collect
<1>3. job[k].received[s] + n <= MaxReceived
  <2>1. Grown(job[k], s, n).received[s] = job[k].received[s] + n
    BY <1>1 DEF Job, Grown
  <2> QED
    BY <2>1 DEF Collect, Grown
<1>4. job[k].kept[s] \in Nat /\ MaxOutput \in Nat /\ n \in Nat
  BY <1>1, RunnerAssumption DEF Job
<1>5. CASE Overflows(k, s, n)
  <2>1. job[k].kept[s] + n > MaxOutput /\ job[k].result # "exited"
    BY <1>1, <1>5 DEF Overflows, JobSound
  <2>2. /\ Cut(k, s, n) \in Job /\ JobSound(Cut(k, s, n), proc[k])
        /\ Cut(k, s, n).pc = "running" /\ Cut(k, s, n).recorded = job[k].recorded
    BY <1>1, <1>3, <2>1, CutEffect
  <2>3. job' = [job EXCEPT ![k] = Cut(k, s, n)] /\ KillTree(k)
    BY <1>5 DEF Collect, Cut, KeptCut, Grown
  <2> QED
    BY <1>1, <1>2, <2>2, <2>3, RunsOn
<1>6. CASE ~Overflows(k, s, n)
  <2> DEFINE j == KeptAll(job[k], s, n)
  <2>1. job[k].kept[s] + n <= MaxOutput
    BY <1>4, <1>6 DEF Overflows
  <2>2. j \in Job /\ JobSound(j, proc[k]) /\ j.pc = "running" /\ j.recorded = job[k].recorded
    BY <1>1, <1>3, <2>1, KeptEffect
  <2>3. job' = [job EXCEPT ![k] = j] /\ term' = term
    BY <1>6 DEF Collect, KeptAll, Grown
  <2> HIDE DEF j
  <2> QED
    BY <1>1, <1>2, <2>2, <2>3, RunsOn
<1> QED
  BY <1>5, <1>6

(* Processes die, and a leader that lives may start a helper: no group and *)
(* no pipe comes back to life.                                             *)
LEMMA ProcessStep ==
  ASSUME RunInv, NEW k \in Attempts, NEW p \in Process,
         proc' = [proc EXCEPT ![k] = p],
         p.leader = "failed" => proc[k].leader = "failed",
         GroupUp(p) => GroupUp(proc[k]), PipesHeld(p) => PipesHeld(proc[k]),
         term' \in [Attempts -> {"off", "grace", "done"}],
         \A q \in Attempts : q # k => term'[q] = term[q],
         daemon = "down" => term'[k] = term[k],
         daemon = "sweeping" /\ term'[k] = "done" => ~GroupUp(p),
         UNCHANGED <<daemon, job, aborted, registry>>
  PROVE  RunInv'
<1>1. job[k] \in Job /\ JobSound(job[k], proc[k]) /\ Attended(k) /\ SweepSound(k)
  BY OneAttempt
<1>2. JobSound(job[k], p)
  BY <1>1 DEF JobSound
<1>3. job' = [job EXCEPT ![k] = job[k]] /\ aborted' \in [Attempts -> BOOLEAN] /\ registry' \subseteq Attempts
  BY OneAttempt
<1>4. Frame(k, job[k], p)
  BY <1>3 DEF Frame
<1>5. job'[k] = job[k] /\ proc'[k] = p
  BY OneAttempt
<1>6. Attended(k)'
  BY <1>1, <1>5 DEF Attended
<1>7. SweepSound(k)'
  BY <1>1, <1>5 DEF SweepSound
<1> QED
  BY <1>1, <1>2, <1>4, <1>6, <1>7, FrameStep

LEMMA TermStep ==
  ASSUME RunInv, NEW k \in Attempts, TermPoll(k) \/ TermKill(k)
  PROVE  RunInv'
<1>1. /\ proc[k] \in Process /\ term \in [Attempts -> {"off", "grace", "done"}]
      /\ GroupAlive(k) <=> GroupUp(proc[k])
      /\ proc = [proc EXCEPT ![k] = proc[k]]
  BY OneAttempt
<1>2. /\ daemon # "down" /\ term' = [term EXCEPT ![k] = "done"]
      /\ UNCHANGED <<daemon, job, aborted, registry>>
  BY DEF TermPoll, TermKill
<1>3. /\ term' \in [Attempts -> {"off", "grace", "done"}]
      /\ \A q \in Attempts : q # k => term'[q] = term[q]
  BY <1>1, <1>2
<1>4. CASE TermPoll(k)
  <2>1. proc' = [proc EXCEPT ![k] = proc[k]] /\ ~GroupUp(proc[k])
    BY <1>1, <1>4 DEF TermPoll
  <2> QED
    BY <1>1, <1>2, <1>3, <2>1, ProcessStep
<1>5. CASE TermKill(k)
  <2> DEFINE p == GroupKilled(proc[k])
  <2>1. PipesHeld(p) => PipesHeld(proc[k])
    BY <1>1 DEF GroupKilled, Process, PipesHeld
  <2>2. p.leader = "failed" => proc[k].leader = "failed"
    BY <1>1 DEF GroupKilled
  <2>3. proc' = [proc EXCEPT ![k] = p]
    BY <1>5 DEF TermKill
  <2>4. p \in Process /\ ~GroupUp(p)
    BY <1>1 DEF GroupKilled, Process, GroupUp
  <2> HIDE DEF p
  <2> QED
    BY <1>2, <1>3, <2>1, <2>2, <2>3, <2>4, ProcessStep
<1> QED
  BY <1>4, <1>5

LEMMA CliKeeps ==
  ASSUME RunInv, NEW k \in Attempts, CliStep(k)
  PROVE  RunInv'
<1>1. proc[k] \in Process /\ proc \in [Attempts -> Process]
      /\ SweepSound(k) /\ term \in [Attempts -> {"off", "grace", "done"}]
  BY OneAttempt
<1>2. UNCHANGED <<daemon, job, term, aborted, registry>>
  BY DEF CliStep, LeaderExits, HelperStarts, HelperExits
<1>3. PICK p \in Process :
        /\ proc' = [proc EXCEPT ![k] = p]
        /\ p.leader = "failed" => proc[k].leader = "failed"
        /\ GroupUp(p) => GroupUp(proc[k])
        /\ PipesHeld(p) => PipesHeld(proc[k])
  <2>1. CASE LeaderExits(k)
    <3> DEFINE p == [proc[k] EXCEPT !.leader = "exited"]
    <3>1. p \in Process /\ p.leader = "exited" /\ p.helper = proc[k].helper
      BY <1>1 DEF Process
    <3>2. proc' = [proc EXCEPT ![k] = p]
      BY <2>1, <1>1 DEF LeaderExits
    <3> HIDE DEF p
    <3>3. (GroupUp(p) => GroupUp(proc[k])) /\ (PipesHeld(p) => PipesHeld(proc[k]))
      BY <3>1 DEF GroupUp, PipesHeld
    <3> QED
      BY <3>1, <3>2, <3>3
  <2>2. CASE HelperStarts(k)
    <3>1. PICK kind \in {"quiet", "piping", "escaped"} : proc' = [proc EXCEPT ![k].helper = kind]
      BY <2>2 DEF HelperStarts
    <3> DEFINE p == [proc[k] EXCEPT !.helper = kind]
    <3>2. p \in Process /\ p.leader = proc[k].leader
      BY <1>1 DEF Process
    <3>3. proc' = [proc EXCEPT ![k] = p]
      BY <3>1, <1>1
    <3> HIDE DEF p
    <3>4. GroupUp(proc[k]) /\ PipesHeld(proc[k])
      BY <2>2 DEF HelperStarts, GroupUp, PipesHeld
    <3> QED
      BY <3>2, <3>3, <3>4
  <2>3. CASE HelperExits(k)
    <3> DEFINE p == [proc[k] EXCEPT !.helper = "gone"]
    <3>1. p \in Process /\ p.leader = proc[k].leader /\ p.helper = "gone"
      BY <1>1 DEF Process
    <3>2. proc' = [proc EXCEPT ![k] = p]
      BY <2>3, <1>1 DEF HelperExits
    <3> HIDE DEF p
    <3>3. (GroupUp(p) => GroupUp(proc[k])) /\ (PipesHeld(p) => PipesHeld(proc[k]))
      BY <3>1 DEF GroupUp, PipesHeld
    <3> QED
      BY <3>1, <3>2, <3>3
  <2> QED
    BY <2>1, <2>2, <2>3 DEF CliStep
<1> QED
  BY <1>1, <1>2, <1>3, ProcessStep DEF SweepSound

(***************************************************************************)
(* The daemon dies and the next one sweeps.                                *)
(***************************************************************************)
LEMMA CrashStep ==
  ASSUME RunInv, Crash
  PROVE  RunInv'
<1> DEFINE lost(k) == [job[k] EXCEPT !.pc = "lost"]
<1>1. /\ daemon # "down" /\ daemon' = "down" /\ UNCHANGED <<proc, aborted, registry>>
      /\ job' = [k \in Attempts |-> IF job[k].pc = "running" THEN lost(k) ELSE job[k]]
      /\ term' = [k \in Attempts |-> "off"]
  BY DEF Crash
<1>2. ASSUME NEW k \in Attempts
      PROVE  /\ job'[k] \in Job /\ JobSound(job'[k], proc[k])
             /\ Attended(k)' /\ SweepSound(k)'
  <2>1. job[k] \in Job /\ JobSound(job[k], proc[k]) /\ Attended(k)
    BY <1>2, OneAttempt
  <2>2. CASE job[k].pc = "running"
    <3>1. /\ lost(k) \in Job /\ lost(k).pc = "lost" /\ lost(k).recorded = job[k].recorded
          /\ lost(k).killing = job[k].killing /\ lost(k).latched = job[k].latched
          /\ lost(k).outcome = job[k].outcome /\ lost(k).kept = job[k].kept
          /\ lost(k).received = job[k].received /\ lost(k).truncated = job[k].truncated
          /\ lost(k).result = job[k].result
      BY <2>1 DEF Job
    <3>2. job'[k] = lost(k)
      BY <1>1, <2>2
    <3> HIDE DEF lost
    <3>3. JobSound(lost(k), proc[k])
      BY <2>1, <2>2, <3>1 DEF JobSound
    <3> QED
      BY <1>1, <2>1, <2>2, <3>1, <3>2, <3>3 DEF Attended, SweepSound
  <2>3. CASE job[k].pc # "running"
    <3>1. job'[k] = job[k]
      BY <1>1, <2>3
    <3> QED
      BY <1>1, <2>1, <2>3, <3>1 DEF Attended, SweepSound
  <2> QED
    BY <2>2, <2>3
<1>3. TypeOK'
  BY <1>1, <1>2 DEF RunInv, TypeOK
<1>4. JobsSound'
  BY <1>1, <1>2 DEF JobsSound, JobSound, PipesHeld
<1> QED
  BY <1>2, <1>3, <1>4 DEF RunInv, RegistrySound

LEMMA RestartStep ==
  ASSUME RunInv, Restart
  PROVE  RunInv'
<1>1. /\ daemon = "down" /\ daemon' = "sweeping" /\ UNCHANGED <<proc, job, aborted, registry>>
      /\ term' = [k \in Attempts |-> IF k \in registry THEN Terminate(k) ELSE term[k]]
  BY DEF Restart
<1>2. ASSUME NEW k \in Attempts
      PROVE  Attended(k)' /\ SweepSound(k)' /\ term'[k] \in {"off", "grace", "done"}
  <2>1. Attended(k) /\ SweepSound(k) /\ (GroupAlive(k) <=> GroupUp(proc[k]))
    BY <1>2, OneAttempt
  <2>2. Attended(k)'
    BY <1>1, <2>1 DEF Attended
  <2>3. term[k] = "off"
    BY <1>1, <2>1 DEF SweepSound
  <2>4. /\ term'[k] \in {"off", "grace", "done"}
        /\ term'[k] = "done" => ~GroupUp(proc[k])
    BY <1>1, <2>1, <2>3 DEF Terminate
  <2> QED
    BY <1>1, <2>2, <2>4 DEF SweepSound
<1>3. TypeOK' /\ JobsSound'
  <2>1. term' \in [Attempts -> {"off", "grace", "done"}]
    BY <1>1, <1>2
  <2> QED
    BY <1>1, <2>1 DEF RunInv, TypeOK, JobsSound
<1> QED
  BY <1>2, <1>3 DEF RunInv, RegistrySound

LEMMA SweepDoneStep ==
  ASSUME RunInv, SweepDone
  PROVE  RunInv'
<1>1. /\ daemon = "sweeping" /\ daemon' = "serving" /\ registry' = {} /\ Swept
      /\ UNCHANGED <<proc, job, term, aborted>>
  BY DEF SweepDone
<1>2. ASSUME NEW k \in Attempts
      PROVE  Attended(k)' /\ SweepSound(k)'
  <2>1. Attended(k) /\ SweepSound(k)
    BY <1>2, OneAttempt
  <2>2. k \in registry => ~GroupUp(proc[k])
    BY <1>1, <2>1 DEF Swept, SweepSound
  <2> QED
    BY <1>1, <2>1, <2>2 DEF Attended, SweepSound
<1>3. TypeOK' /\ JobsSound'
  BY <1>1 DEF RunInv, TypeOK, JobsSound
<1> QED
  BY <1>2, <1>3 DEF RunInv, RegistrySound

(***************************************************************************)
(* The invariant.                                                          *)
(***************************************************************************)
LEMMA RunInit == Init => RunInv
<1> SUFFICES ASSUME Init PROVE RunInv
  OBVIOUS
<1>1. IdleJob \in Job
  BY RunnerAssumption DEF IdleJob, Job
<1>2. [leader |-> "none", helper |-> "none"] \in Process
  BY DEF Process
<1>3. TypeOK
  BY <1>1, <1>2 DEF Init, TypeOK
<1>4. \A k \in Attempts : JobSound(job[k], proc[k])
  BY RunnerAssumption DEF Init, IdleJob, JobSound
<1>5. RegistrySound
  BY DEF Init, IdleJob, RegistrySound, Attended, SweepSound
<1> QED
  BY <1>3, <1>4, <1>5 DEF RunInv, JobsSound

LEMMA RunStep == RunInv /\ [Next]_vars => RunInv'
<1> SUFFICES ASSUME RunInv, [Next]_vars PROVE RunInv'
  OBVIOUS
<1>1. CASE UNCHANGED vars
  BY <1>1 DEF vars, RunInv, TypeOK, JobsSound, RegistrySound, Attended, SweepSound
<1>2. ASSUME NEW k \in Attempts, RunnerStep(k) PROVE RunInv'
  <2>1. CASE NotLaunched(k) \/ Launch(k)
    BY <2>1, NotLaunchedStep, LaunchStep
  <2>2. CASE ErrorEvent(k) \/ Close(k) \/ Fallback(k)
    BY <2>2, EndStep
  <2>3. CASE Timeout(k)
    <3>1. aborted' \in [Attempts -> BOOLEAN]
      BY <2>3, OneAttempt DEF Timeout
    <3> QED
      BY <2>3, <3>1, KillStep DEF Timeout, Reasons
  <2>4. CASE Abort(k)
    BY <2>4, AbortStep
  <2>5. CASE \E s \in Streams, n \in 1..MaxReceived : Collect(k, s, n)
    BY <2>5, CollectStep
  <2>6. CASE TermPoll(k) \/ TermKill(k)
    BY <2>6, TermStep
  <2> QED
    BY <1>2, <2>1, <2>2, <2>3, <2>4, <2>5, <2>6 DEF RunnerStep
<1>3. CASE Next
  BY <1>2, <1>3, CliKeeps, CrashStep, RestartStep, SweepDoneStep DEF Next
<1> QED
  BY <1>1, <1>3

LEMMA RunInvariant == Spec => []RunInv
BY RunInit, RunStep, PTL DEF Spec

(***************************************************************************)
(* The theorems.                                                           *)
(***************************************************************************)
(* Output is never dropped silently, and an exited result is complete.     *)
THEOREM OutputIsHonest == Spec => []RunnerInv
<1>1. RunInv => RunnerInv
  <2> SUFFICES ASSUME RunInv, NEW k \in Attempts
               PROVE  /\ job[k].truncated <=> job[k].kept # job[k].received
                      /\ job[k].truncated => job[k].killing
                      /\ job[k].result = "exited" => ~job[k].truncated /\ ~PipesOpen(k)
    BY DEF RunInv, RunnerInv, OutputHonest
  <2>1. JobSound(job[k], proc[k]) /\ (PipesOpen(k) <=> PipesHeld(proc[k]))
    BY OneAttempt
  <2> QED
    BY <2>1 DEF JobSound
<1> QED
  BY <1>1, RunInvariant, PTL

(* A daemon serves only when no group of a lost attempt that an earlier    *)
(* one recorded is alive, however often it crashed.                        *)
THEOREM OrphansAreSwept == Spec => []LostAttemptsSwept
<1>1. RunInv => LostAttemptsSwept
  <2> SUFFICES ASSUME RunInv, daemon = "serving", NEW k \in Attempts,
                      job[k].pc = "lost", job[k].recorded
               PROVE  ~GroupAlive(k)
    BY DEF LostAttemptsSwept
  <2>1. Attended(k) /\ (GroupAlive(k) <=> GroupUp(proc[k]))
    BY OneAttempt
  <2> QED
    BY <2>1 DEF Attended
<1> QED
  BY <1>1, RunInvariant, PTL

(* The reason that was first to ask for a kill is the one reported, and an *)
(* answer once given is never revised.                                     *)
ReasonsKept == \A k \in Attempts : ReasonKept(k)

LEMMA ReasonFrame ==
  ASSUME RunInv, NEW k \in Attempts, NEW j, job' = [job EXCEPT ![k] = j],
         job[k].latched => j.outcome = job[k].outcome,
         job[k].latched /\ job[k].pc = "running" /\ j.pc = "settled" =>
           j.result \in {job[k].outcome, "spawn-error"},
         job[k].pc = "settled" => j.result = job[k].result
  PROVE  ReasonsKept
<1>1. job'[k] = j /\ \A q \in Attempts : q # k => job'[q] = job[q]
  BY OneAttempt
<1> QED
  BY <1>1 DEF ReasonsKept, ReasonKept

LEMMA ReasonStep == RunInv /\ [Next]_vars => ReasonsKept
<1> SUFFICES ASSUME RunInv, [Next]_vars PROVE ReasonsKept
  OBVIOUS
<1>1. CASE job' = job
  BY <1>1 DEF ReasonsKept, ReasonKept
<1>2. CASE Crash
  <2>1. \A k \in Attempts :
          \/ job'[k] = job[k]
          \/ /\ job[k].pc = "running" /\ job'[k].pc = "lost"
             /\ job'[k].outcome = job[k].outcome
    <3>1. \A k \in Attempts : /\ [job[k] EXCEPT !.pc = "lost"].pc = "lost"
                              /\ [job[k] EXCEPT !.pc = "lost"].outcome = job[k].outcome
      BY OneAttempt DEF Job
    <3> QED
      BY <1>2, <3>1 DEF Crash
  <2> QED
    BY <2>1 DEF ReasonsKept, ReasonKept
<1>3. ASSUME NEW k \in Attempts, NotLaunched(k) PROVE ReasonsKept
  <2> DEFINE j == Settled(job[k], IF aborted[k] THEN "cancelled" ELSE "spawn-error")
  <2>1. job' = [job EXCEPT ![k] = j] /\ job[k].pc = "idle"
    BY <1>3 DEF NotLaunched, MayStart
  <2>2. j.outcome = job[k].outcome
    BY <1>3, OneAttempt DEF Settled, Job
  <2> HIDE DEF j
  <2> QED
    BY <1>3, <2>1, <2>2, ReasonFrame
<1>4. ASSUME NEW k \in Attempts, Launch(k) PROVE ReasonsKept
  <2>1. job[k].pc = "idle" /\ job \in [Attempts -> Job]
    BY <1>4, OneAttempt DEF Launch, MayStart
  <2>2. \A q \in Attempts :
          /\ q # k => job'[q] = job[q]
          /\ job'[q].outcome = job[q].outcome
          /\ q = k => job'[q].pc # "settled"
    BY <1>4, <2>1 DEF Launch, Job
  <2> QED
    BY <2>1, <2>2 DEF ReasonsKept, ReasonKept
<1>5. ASSUME NEW k \in Attempts, ErrorEvent(k) \/ Close(k) \/ Fallback(k) PROVE ReasonsKept
  <2>1. PICK result \in {job[k].outcome, "spawn-error"} : Finish(k, result)
    BY <1>5 DEF ErrorEvent, Close, Fallback
  <2> DEFINE j == Settled(job[k], result)
  <2>2. job' = [job EXCEPT ![k] = j] /\ job[k].pc = "running"
    BY <1>5, <2>1 DEF Finish, ErrorEvent, Close, Fallback, Running
  <2>3. j.outcome = job[k].outcome /\ j.result = result
    BY <1>5, OneAttempt DEF Settled, Job
  <2> HIDE DEF j
  <2> QED
    BY <1>5, <2>1, <2>2, <2>3, ReasonFrame
<1>6. ASSUME NEW k \in Attempts, Running(k), NEW reason \in Reasons, RequestKill(k, reason)
      PROVE  ReasonsKept
  <2> DEFINE j == Requested(k, job[k], reason)
  <2>1. job' = [job EXCEPT ![k] = j] /\ job[k].pc = "running"
    BY <1>6 DEF RequestKill, Running
  <2>2. (job[k].latched => j.outcome = job[k].outcome) /\ j.pc = "running"
    BY <1>6, <2>1, OneAttempt, RequestedEffect
  <2> HIDE DEF j
  <2> QED
    BY <1>6, <2>1, <2>2, ReasonFrame
<1>7. ASSUME NEW k \in Attempts, NEW s \in Streams, NEW n \in 1..MaxReceived, Collect(k, s, n)
      PROVE  ReasonsKept
  <2>1. job[k] \in Job /\ job[k].pc = "running"
    BY <1>7, OneAttempt DEF Collect, Running
  <2>2. CASE Overflows(k, s, n)
    <3> DEFINE j == Cut(k, s, n)
               cut == KeptCut(job[k], s, n)
    <3>1. job' = [job EXCEPT ![k] = j]
      BY <1>7, <2>2 DEF Collect, Cut, KeptCut, Grown
    <3>2. cut.pc = job[k].pc /\ cut.latched = job[k].latched /\ cut.outcome = job[k].outcome
      BY <2>1 DEF Job, KeptCut, Grown
    <3>3. j.pc = cut.pc /\ (cut.latched => j.outcome = cut.outcome)
      BY <2>1 DEF Cut, Requested, Reason, KeptCut, Grown, Job
    <3> HIDE DEF j, cut
    <3> QED
      BY <1>7, <2>1, <3>1, <3>2, <3>3, ReasonFrame
  <2>3. CASE ~Overflows(k, s, n)
    <3> DEFINE j == KeptAll(job[k], s, n)
    <3>1. job' = [job EXCEPT ![k] = j]
      BY <1>7, <2>3 DEF Collect, KeptAll, Grown
    <3>2. j.pc = job[k].pc /\ j.outcome = job[k].outcome
      BY <2>1 DEF Job, KeptAll, Grown
    <3> HIDE DEF j
    <3> QED
      BY <1>7, <2>1, <3>1, <3>2, ReasonFrame
  <2> QED
    BY <2>2, <2>3
<1>8. ASSUME NEW k \in Attempts, RunnerStep(k) PROVE ReasonsKept
  <2>1. CASE Timeout(k)
    BY <1>6, <2>1 DEF Timeout, Reasons
  <2>2. CASE Abort(k)
    BY <1>1, <1>6, <2>2 DEF Abort, Reasons
  <2>3. CASE TermPoll(k) \/ TermKill(k)
    BY <1>1, <2>3 DEF TermPoll, TermKill
  <2> QED
    BY <1>3, <1>4, <1>5, <1>7, <1>8, <2>1, <2>2, <2>3 DEF RunnerStep
<1>9. (\E k \in Attempts : CliStep(k)) \/ Restart \/ SweepDone \/ UNCHANGED vars => job' = job
  BY DEF CliStep, LeaderExits, HelperStarts, HelperExits, Restart, SweepDone, vars
<1> QED
  BY <1>1, <1>2, <1>8, <1>9 DEF Next

THEOREM FirstReasonKept == Spec => FirstReasonWins
<1>1. RunInv /\ [Next]_vars => [ReasonsKept]_vars
  BY ReasonStep
<1>2. Spec => [][ReasonsKept]_vars
  BY <1>1, RunInvariant, PTL DEF Spec
<1> QED
  BY <1>2 DEF FirstReasonWins, ReasonsKept
=============================================================================
