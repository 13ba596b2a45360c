------------------------------ MODULE Dispatch ------------------------------
(***************************************************************************)
(* How the engine orders the agents of concurrent rounds (dispatchAgents,  *)
(* class Semaphore): invocations of one adapter are chained across all     *)
(* rounds; an invocation whose turn has come takes a slot of the           *)
(* engine-global semaphore, then one of its round's, runs, and gives both  *)
(* back. This is the part of module Engine hidden between a task's being   *)
(* queued and its first attempt.                                           *)
(***************************************************************************)
EXTENDS Integers, Sequences, FiniteSets, SequencesExt

CONSTANTS
  Rounds,
  Panel,        (* The tasks of each round, in panel order.                 *)
  Adapter,      (* The adapter id of each task.                             *)
  GlobalLimit,  (* Engine concurrency.                                      *)
  RoundLimit,   (* Panel concurrency of each round.                         *)
  None

Tasks == UNION {ToSet(Panel[r]) : r \in Rounds}

Adapters == {Adapter[t] : t \in Tasks}

ASSUME DispatchAssumption ==
  /\ Panel \in [Rounds -> Seq(Tasks)]
  /\ \A r \in Rounds : IsInjective(Panel[r])
  /\ \A r, q \in Rounds : r # q => ToSet(Panel[r]) \cap ToSet(Panel[q]) = {}
  /\ GlobalLimit \in Nat \ {0}
  /\ RoundLimit \in [Rounds -> Nat \ {0}]
  /\ None \notin Tasks

RoundOf(t) == CHOOSE r \in Rounds : t \in ToSet(Panel[r])

VARIABLES
  pc,        (* Where each task is on its way to executeAgent.              *)
  prev,      (* The task each scheduled task is chained behind.             *)
  chains,    (* The last task of each adapter's chain.                      *)
  globalSem, (* The engine-global semaphore.                                *)
  roundSem   (* The semaphore of each round.                                *)

vars == <<pc, prev, chains, globalSem, roundSem>>

FreeSemaphore == [active |-> 0, waiters |-> <<>>]

Init ==
  /\ pc        = [t \in Tasks |-> "idle"]
  /\ prev      = [t \in Tasks |-> None]
  /\ chains    = [x \in Adapters |-> None]
  /\ globalSem = FreeSemaphore
  /\ roundSem  = [r \in Rounds |-> FreeSemaphore]

(***************************************************************************)
(* Semaphore.acquire and release. A release hands the slot it frees to the *)
(* first waiter before anything else runs.                                 *)
(***************************************************************************)

HasSlot(s, limit) == s.active < limit

Acquired(s, limit, t) ==
  IF HasSlot(s, limit) THEN [s EXCEPT !.active = @ + 1]
                       ELSE [s EXCEPT !.waiters = Append(@, t)]

Released(s) ==
  IF s.waiters = <<>> THEN [s EXCEPT !.active = @ - 1] ELSE [s EXCEPT !.waiters = Tail(@)]

(* Mutated: nobody.                                                        *)
WokenNobody(s) == None

Woken(s) == IF s.waiters = <<>> THEN None ELSE Head(s.waiters)

(***************************************************************************)
(* Scheduling a round: each agent, in panel order, is chained behind the   *)
(* last task of its adapter, of this round or an earlier one.              *)
(***************************************************************************)
EarlierSameAdapter(r, t) ==
  {u \in ToSet(Panel[r]) : /\ Adapter[u] = Adapter[t]
                           /\ \E i, j \in DOMAIN Panel[r] :
                                i < j /\ Panel[r][i] = u /\ Panel[r][j] = t}

LastOf(r, S) == Panel[r][CHOOSE i \in DOMAIN Panel[r] :
                   /\ Panel[r][i] \in S
                   /\ \A j \in DOMAIN Panel[r] : Panel[r][j] \in S => j <= i]

(* Mutated: a chain per round only.                                        *)
PrevInRound(r, t) ==
  IF EarlierSameAdapter(r, t) # {} THEN LastOf(r, EarlierSameAdapter(r, t)) ELSE None

PrevOf(r, t) ==
  IF EarlierSameAdapter(r, t) # {} THEN LastOf(r, EarlierSameAdapter(r, t))
                                   ELSE chains[Adapter[t]]

Schedule(r) ==
  LET mine(x) == {t \in ToSet(Panel[r]) : Adapter[t] = x}
  IN  /\ \A t \in ToSet(Panel[r]) : pc[t] = "idle"
      /\ pc' = [t \in Tasks |-> IF t \in ToSet(Panel[r]) THEN "chained" ELSE pc[t]]
      /\ prev' = [t \in Tasks |-> IF t \in ToSet(Panel[r]) THEN PrevOf(r, t) ELSE prev[t]]
      /\ chains' = [x \in Adapters |-> IF mine(x) # {} THEN LastOf(r, mine(x)) ELSE chains[x]]
      /\ UNCHANGED <<globalSem, roundSem>>

(***************************************************************************)
(* One task: its turn in the chain comes when its predecessor has settled, *)
(* however that ended.                                                     *)
(***************************************************************************)
AcquireGlobal(t) ==
  /\ pc[t] = "chained"
  /\ \A u \in Tasks : prev[t] = u => pc[u] = "done"
  /\ globalSem' = Acquired(globalSem, GlobalLimit, t)
  /\ pc' = [pc EXCEPT ![t] = IF HasSlot(globalSem, GlobalLimit) THEN "slotted" ELSE "waitGlobal"]
  /\ UNCHANGED <<prev, chains, roundSem>>

AcquireRound(t) ==
  LET r == RoundOf(t)
  IN  /\ pc[t] = "slotted"
      /\ roundSem' = [roundSem EXCEPT ![r] = Acquired(@, RoundLimit[r], t)]
      /\ pc' = [pc EXCEPT ![t] = IF HasSlot(roundSem[r], RoundLimit[r]) THEN "running" ELSE "waitRound"]
      /\ UNCHANGED <<prev, chains, globalSem>>

(* executeAgent settles, by returning or by throwing; the finally block    *)
(* releases the round's slot, then the global one.                         *)
Settle(t) ==
  LET r == RoundOf(t)
  IN  /\ pc[t] = "running"
      /\ pc' = [u \in Tasks |-> CASE u = t -> "done"
                                  [] u = Woken(roundSem[r]) -> "running"
                                  [] u = Woken(globalSem) -> "slotted"
                                  [] OTHER -> pc[u]]
      /\ roundSem' = [roundSem EXCEPT ![r] = Released(@)]
      /\ globalSem' = Released(globalSem)
      /\ UNCHANGED <<prev, chains>>

Next ==
  \/ \E r \in Rounds : Schedule(r)
  \/ \E t \in Tasks : AcquireGlobal(t) \/ AcquireRound(t) \/ Settle(t)

Spec == Init /\ [][Next]_vars

(* Promise callbacks run, and every executeAgent settles: each attempt is  *)
(* bounded by the agent's timeout and the number of attempts by its retries. *)
Fairness ==
  \A t \in Tasks : /\ WF_vars(AcquireGlobal(t))
                   /\ WF_vars(AcquireRound(t))
                   /\ WF_vars(Settle(t))

FairSpec == Spec /\ Fairness

(***************************************************************************)
(* Properties.                                                             *)
(***************************************************************************)
Holding == {t \in Tasks : pc[t] \in {"slotted", "waitRound", "running"}}
Running(r) == {t \in ToSet(Panel[r]) : pc[t] = "running"}

(* Type invariant.                                                         *)
TypeOK ==
  /\ pc \in [Tasks -> {"idle", "chained", "waitGlobal", "slotted", "waitRound", "running", "done"}]
  /\ prev \in [Tasks -> Tasks \cup {None}]
  /\ chains \in [Adapters -> Tasks \cup {None}]
  /\ globalSem \in [active : Nat, waiters : Seq(Tasks)]
  /\ roundSem \in [Rounds -> [active : Nat, waiters : Seq(Tasks)]]

(* The counters are exact and within the caps, the waiting lists hold      *)
(* exactly the waiting tasks, and nobody waits while a slot is free: a slot *)
(* handed to a waiter and a slot taken by a newcomer in the same instant   *)
(* are never the same slot, and no wake-up is lost.                        *)
CountsRight(sem, limit, holders, waiters) ==
  /\ sem.active = Cardinality(holders) /\ sem.active <= limit
  /\ ToSet(sem.waiters) = waiters
  /\ waiters # {} => sem.active = limit

SemaphoresExact ==
  /\ CountsRight(globalSem, GlobalLimit, Holding, {t \in Tasks : pc[t] = "waitGlobal"})
  /\ \A r \in Rounds :
       CountsRight(roundSem[r], RoundLimit[r], Running(r),
                   {t \in ToSet(Panel[r]) : pc[t] = "waitRound"})

(* Same-tool work never overlaps, neither within a round nor between       *)
(* concurrent rounds: two tasks of one adapter are never past the chain at *)
(* the same time, so no tool state is shared by two running CLIs.          *)
OneAtATimePerAdapter ==
  \A t, u \in Tasks :
    t # u /\ Adapter[t] = Adapter[u] => ~(t \in Holding /\ u \in Holding)

DispatchInv == TypeOK /\ SemaphoresExact /\ OneAtATimePerAdapter

(* No task starves and the two semaphores never deadlock, although a task  *)
(* holds a global slot while it waits for its round's.                     *)
EveryTaskRuns ==
  \A t \in Tasks : pc[t] = "chained" ~> pc[t] = "done"
=============================================================================
