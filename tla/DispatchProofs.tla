--------------------------- MODULE DispatchProofs ---------------------------
(***************************************************************************)
(* Proofs about module Dispatch, for any number of rounds, panels, shared  *)
(* adapters and slots: the semaphores count exactly what runs and waits,   *)
(* and tasks of one adapter run one after the other.                       *)
(***************************************************************************)
EXTENDS Dispatch, FiniteSetTheorems, SequenceTheorems, WellFoundedInduction, NaturalsInduction, TLAPS

(***************************************************************************)
(* The inductive invariant. A semaphore's waiters are distinct, and its    *)
(* holders few enough to be counted.                                       *)
(***************************************************************************)
Sound(sem, limit, holders, waiters) ==
  /\ CountsRight(sem, limit, holders, waiters)
  /\ IsFiniteSet(holders)
  /\ IsInjective(sem.waiters)

WaitingGlobal == {t \in Tasks : pc[t] = "waitGlobal"}

WaitingRound(r) == {t \in ToSet(Panel[r]) : pc[t] = "waitRound"}

SemaphoresSound ==
  /\ Sound(globalSem, GlobalLimit, Holding, WaitingGlobal)
  /\ \A r \in Rounds : Sound(roundSem[r], RoundLimit[r], Running(r), WaitingRound(r))

Scheduled == {t \in Tasks : pc[t] # "idle"}

(* The scheduled tasks of one adapter stand in a line, b relating each to  *)
(* those after it: prev is the one just before, chains the last, and       *)
(* whoever has had its turn has only settled tasks before it.              *)
InLine(b) ==
  /\ b \subseteq Scheduled \X Scheduled
  /\ \A t, u \in Scheduled :
       t # u /\ Adapter[t] = Adapter[u] => <<t, u>> \in b \/ <<u, t>> \in b
  /\ \A u \in Scheduled : prev[u] # None =>
       prev[u] \in Scheduled /\ Adapter[prev[u]] = Adapter[u]
  /\ \A t, u \in Scheduled : <<t, u>> \in b /\ Adapter[t] = Adapter[u] =>
       prev[u] # None /\ (t = prev[u] \/ <<t, prev[u]>> \in b)
  /\ \A x \in Adapters : chains[x] # None =>
       chains[x] \in Scheduled /\ Adapter[chains[x]] = x
  /\ \A t \in Scheduled :
       LET last == chains[Adapter[t]]
       IN  last # None /\ (t = last \/ <<t, last>> \in b)
  /\ \A t, u \in Scheduled :
       <<t, u>> \in b /\ Adapter[t] = Adapter[u] /\ pc[u] # "chained" => pc[t] = "done"

ChainsInLine == \E b \in SUBSET (Tasks \X Tasks) : InLine(b)

LineInv == TypeOK /\ SemaphoresSound /\ ChainsInLine

LEMMA LineImplies == LineInv => DispatchInv
<1> SUFFICES ASSUME LineInv PROVE DispatchInv
  OBVIOUS
<1>1. SemaphoresExact
  BY DEF LineInv, SemaphoresSound, Sound, SemaphoresExact, WaitingGlobal, WaitingRound
<1>2. OneAtATimePerAdapter
  <2>1. PICK b : InLine(b)
    BY DEF LineInv, ChainsInLine
  <2>2. \A t \in Holding : t \in Scheduled /\ pc[t] # "chained" /\ pc[t] # "done"
    BY DEF Holding, Scheduled
  <2> QED
    BY <2>1, <2>2 DEF InLine, OneAtATimePerAdapter, Holding
<1> QED
  BY <1>1, <1>2 DEF LineInv, DispatchInv

(***************************************************************************)
(* Sequences: the waiting lists and the panels.                            *)
(***************************************************************************)
LEMMA WaiterJoins ==
  ASSUME NEW S, NEW w \in Seq(S), IsInjective(w), NEW t \in S, t \notin ToSet(w)
  PROVE  /\ Append(w, t) \in Seq(S)
         /\ IsInjective(Append(w, t))
         /\ ToSet(Append(w, t)) = ToSet(w) \cup {t}
<1>1. /\ Append(w, t) \in Seq(S) /\ Len(w) \in Nat
      /\ DOMAIN w = 1..Len(w) /\ DOMAIN Append(w, t) = 1..(Len(w) + 1)
      /\ \A i \in 1..Len(w) : Append(w, t)[i] = w[i]
      /\ Append(w, t)[Len(w) + 1] = t
  BY AppendProperties, LenProperties
<1>2. \A i \in 1..(Len(w) + 1) : i \in 1..Len(w) \/ i = Len(w) + 1
  BY <1>1
<1> QED
  BY <1>1, <1>2 DEF IsInjective, ToSet

LEMMA WaiterLeaves ==
  ASSUME NEW S, NEW w \in Seq(S), IsInjective(w), w # <<>>
  PROVE  /\ Head(w) \in ToSet(w) /\ Tail(w) \in Seq(S)
         /\ IsInjective(Tail(w))
         /\ ToSet(Tail(w)) = ToSet(w) \ {Head(w)}
<1>1. /\ Tail(w) \in Seq(S) /\ Len(w) \in Nat /\ Len(w) # 0 /\ Head(w) = w[1]
      /\ DOMAIN w = 1..Len(w) /\ Len(Tail(w)) = Len(w) - 1
      /\ DOMAIN Tail(w) = 1..(Len(w) - 1)
      /\ \A i \in 1..(Len(w) - 1) : Tail(w)[i] = w[i + 1]
  BY HeadTailProperties, LenProperties, EmptySeq
<1>2. \A i \in 1..(Len(w) - 1) : i + 1 \in 1..Len(w) /\ i + 1 # 1
  BY <1>1
<1>3. \A i \in 1..Len(w) : i # 1 => i - 1 \in 1..(Len(w) - 1) /\ (i - 1) + 1 = i
  BY <1>1
<1>4. 1 \in 1..Len(w)
  BY <1>1
<1>5. IsInjective(Tail(w))
  <2> SUFFICES ASSUME NEW i \in 1..(Len(w) - 1), NEW j \in 1..(Len(w) - 1), Tail(w)[i] = Tail(w)[j]
               PROVE  i = j
    BY <1>1 DEF IsInjective
  <2>1. i + 1 = j + 1
    BY <1>1, <1>2 DEF IsInjective
  <2> QED
    BY <2>1
<1>6. ToSet(Tail(w)) \subseteq ToSet(w) \ {Head(w)}
  BY <1>1, <1>2, <1>4 DEF IsInjective, ToSet
<1>7. ASSUME NEW e \in ToSet(w), e # Head(w)
      PROVE  e \in ToSet(Tail(w))
  <2>1. PICK i \in 1..Len(w) : w[i] = e
    BY <1>1 DEF ToSet
  <2>2. i # 1
    BY <1>1, <1>7, <2>1
  <2>3. i - 1 \in DOMAIN Tail(w) /\ Tail(w)[i - 1] = e
    BY <1>1, <1>3, <2>1, <2>2
  <2> QED
    BY <2>3 DEF ToSet
<1> QED
  BY <1>1, <1>4, <1>5, <1>6, <1>7 DEF ToSet

(* A set of positions has a last one.                                      *)
LEMMA LastPosition ==
  ASSUME NEW n \in Nat, NEW S \in SUBSET (1..n), S # {}
  PROVE  \E i \in S : \A j \in S : j <= i
<1> DEFINE R == OpToRel(<, Nat)
           T == {n - i : i \in S}
<1>1. \A i \in S : i \in Int /\ n - i \in Nat
  OBVIOUS
<1>2. T \subseteq Nat /\ T # {}
  BY <1>1
<1>3. IsWellFoundedOn(R, Nat)
  BY NatLessThanWellFounded
<1> HIDE DEF R, T
<1>4. \E k \in T : \A y \in T : ~(<<y, k>> \in R)
  BY <1>2, <1>3, WFMin
<1> USE DEF T
<1>5. PICK i \in S : \A j \in S : ~(<<n - j, n - i>> \in R)
  BY <1>4
<1>6. \A j \in S : ~(n - j < n - i)
  BY <1>1, <1>5 DEF R, OpToRel
<1>7. \A j \in S : j <= i
  BY <1>1, <1>6
<1> QED
  BY <1>7

(* The position of each task of a panel.                                   *)
LEMMA PanelFacts ==
  ASSUME NEW r \in Rounds
  PROVE  /\ Panel[r] \in Seq(Tasks) /\ Len(Panel[r]) \in Nat
         /\ DOMAIN Panel[r] = 1..Len(Panel[r])
         /\ ToSet(Panel[r]) \subseteq Tasks
         /\ \A i \in DOMAIN Panel[r] : Panel[r][i] \in ToSet(Panel[r])
         /\ \A t \in ToSet(Panel[r]) : \E i \in DOMAIN Panel[r] : Panel[r][i] = t
         /\ \A i, j \in DOMAIN Panel[r] : Panel[r][i] = Panel[r][j] => i = j
BY DispatchAssumption, LenProperties DEF ToSet, IsInjective, Tasks

LEMMA RoundOfTask ==
  ASSUME NEW t \in Tasks
  PROVE  /\ RoundOf(t) \in Rounds /\ t \in ToSet(Panel[RoundOf(t)])
         /\ \A r \in Rounds : t \in ToSet(Panel[r]) => r = RoundOf(t)
<1>1. \E r \in Rounds : t \in ToSet(Panel[r])
  BY DEF Tasks
<1>2. RoundOf(t) \in Rounds /\ t \in ToSet(Panel[RoundOf(t)])
  BY <1>1 DEF RoundOf
<1> QED
  BY <1>2, DispatchAssumption

(* lastOf picks the last of some tasks of a panel.                         *)
Earlier(r, t, u) ==
  \E i, j \in DOMAIN Panel[r] : i < j /\ Panel[r][i] = t /\ Panel[r][j] = u

LEMMA LastOfFacts ==
  ASSUME NEW r \in Rounds, NEW S \in SUBSET ToSet(Panel[r]), S # {}
  PROVE  /\ LastOf(r, S) \in S
         /\ \A t \in S : t = LastOf(r, S) \/ Earlier(r, t, LastOf(r, S))
<1> DEFINE I == {i \in DOMAIN Panel[r] : Panel[r][i] \in S}
<1>1. I \in SUBSET (1..Len(Panel[r])) /\ I # {}
  <2>1. PICK t : t \in S
    OBVIOUS
  <2>2. PICK i \in DOMAIN Panel[r] : Panel[r][i] = t
    BY <2>1, PanelFacts
  <2>3. i \in I
    BY <2>1, <2>2
  <2> QED
    BY <2>3, PanelFacts
<1>2. \E i \in I : \A j \in I : j <= i
  <2>1. Len(Panel[r]) \in Nat
    BY PanelFacts
  <2> HIDE DEF I
  <2> QED
    BY <1>1, <2>1, LastPosition
<1> DEFINE k == CHOOSE i \in DOMAIN Panel[r] :
                  /\ Panel[r][i] \in S
                  /\ \A j \in DOMAIN Panel[r] : Panel[r][j] \in S => j <= i
<1>3. /\ k \in DOMAIN Panel[r] /\ Panel[r][k] \in S
      /\ \A j \in DOMAIN Panel[r] : Panel[r][j] \in S => j <= k
  <2>1. \E i \in DOMAIN Panel[r] :
          /\ Panel[r][i] \in S
          /\ \A j \in DOMAIN Panel[r] : Panel[r][j] \in S => j <= i
    BY <1>2
  <2> QED
    BY <2>1
<1>4. LastOf(r, S) = Panel[r][k]
  BY DEF LastOf
<1> HIDE DEF k
<1>5. ASSUME NEW t \in S, t # LastOf(r, S)
      PROVE  Earlier(r, t, LastOf(r, S))
  <2>1. PICK j \in DOMAIN Panel[r] : Panel[r][j] = t
    BY PanelFacts
  <2>2. j <= k /\ j # k
    BY <1>3, <1>4, <1>5, <2>1
  <2>3. j < k
    BY <1>3, <2>1, <2>2, PanelFacts
  <2> QED
    BY <1>3, <1>4, <2>1, <2>3 DEF Earlier
<1> QED
  BY <1>3, <1>4, <1>5

(***************************************************************************)
(* A semaphore: a newcomer takes a slot or queues, and a release passes    *)
(* the slot on to the first waiter or frees it.                            *)
(***************************************************************************)
Semaphore == [active : Nat, waiters : Seq(Tasks)]

LEMMA TakesSlot ==
  ASSUME NEW sem \in Semaphore, NEW limit \in Nat, NEW H, NEW W, NEW t \in Tasks,
         Sound(sem, limit, H, W), t \notin H, HasSlot(sem, limit)
  PROVE  /\ Acquired(sem, limit, t) \in Semaphore
         /\ Sound(Acquired(sem, limit, t), limit, H \cup {t}, W)
<1>1. /\ Acquired(sem, limit, t) = [active |-> sem.active + 1, waiters |-> sem.waiters]
      /\ sem.active \in Nat /\ sem.waiters \in Seq(Tasks)
  BY DEF Acquired, Semaphore
<1>2. W = {} /\ sem.active + 1 <= limit
  BY <1>1 DEF Sound, CountsRight, HasSlot
<1>3. IsFiniteSet(H \cup {t}) /\ Cardinality(H \cup {t}) = Cardinality(H) + 1
  BY FS_AddElement DEF Sound
<1> QED
  BY <1>1, <1>2, <1>3 DEF Sound, CountsRight, Semaphore

LEMMA Queues ==
  ASSUME NEW sem \in Semaphore, NEW limit \in Nat, NEW H, NEW W, NEW t \in Tasks,
         Sound(sem, limit, H, W), t \notin W, ~HasSlot(sem, limit)
  PROVE  /\ Acquired(sem, limit, t) \in Semaphore
         /\ Sound(Acquired(sem, limit, t), limit, H, W \cup {t})
<1>1. /\ Acquired(sem, limit, t) = [active |-> sem.active, waiters |-> Append(sem.waiters, t)]
      /\ sem.active \in Nat /\ sem.waiters \in Seq(Tasks)
  BY DEF Acquired, Semaphore
<1>2. sem.active = limit
  BY <1>1 DEF Sound, CountsRight, HasSlot
<1>3. /\ Append(sem.waiters, t) \in Seq(Tasks) /\ IsInjective(Append(sem.waiters, t))
      /\ ToSet(Append(sem.waiters, t)) = W \cup {t}
  <2>1. IsInjective(sem.waiters) /\ t \notin ToSet(sem.waiters) /\ ToSet(sem.waiters) = W
    BY DEF Sound, CountsRight
  <2> QED
    BY <1>1, <2>1, WaiterJoins
<1> QED
  BY <1>1, <1>2, <1>3 DEF Sound, CountsRight, Semaphore

LEMMA Passes ==
  ASSUME NEW sem \in Semaphore, NEW limit \in Nat, NEW H, NEW W, NEW t \in H,
         Sound(sem, limit, H, W), H \cap W = {}, sem.waiters # <<>>
  PROVE  /\ Released(sem) \in Semaphore /\ Woken(sem) \in W
         /\ Sound(Released(sem), limit, (H \ {t}) \cup {Woken(sem)}, W \ {Woken(sem)})
<1>1. /\ Released(sem) = [active |-> sem.active, waiters |-> Tail(sem.waiters)]
      /\ Woken(sem) = Head(sem.waiters)
      /\ sem.active \in Nat /\ sem.waiters \in Seq(Tasks)
  BY DEF Released, Woken, Semaphore
<1>2. /\ Head(sem.waiters) \in W /\ Tail(sem.waiters) \in Seq(Tasks)
      /\ IsInjective(Tail(sem.waiters))
      /\ ToSet(Tail(sem.waiters)) = W \ {Head(sem.waiters)}
  <2>1. IsInjective(sem.waiters) /\ ToSet(sem.waiters) = W
    BY DEF Sound, CountsRight
  <2> QED
    BY <1>1, <2>1, WaiterLeaves
<1>3. sem.active = limit /\ sem.active = Cardinality(H) /\ IsFiniteSet(H)
  BY <1>2 DEF Sound, CountsRight
<1>4. /\ IsFiniteSet((H \ {t}) \cup {Woken(sem)})
      /\ Cardinality((H \ {t}) \cup {Woken(sem)}) = Cardinality(H)
  <2>1. IsFiniteSet(H \ {t}) /\ Cardinality(H \ {t}) = Cardinality(H) - 1
    BY <1>3, FS_RemoveElement
  <2>2. Woken(sem) \notin H \ {t}
    BY <1>1, <1>2
  <2>3. /\ IsFiniteSet((H \ {t}) \cup {Woken(sem)})
        /\ Cardinality((H \ {t}) \cup {Woken(sem)}) = Cardinality(H \ {t}) + 1
    BY <2>1, <2>2, FS_AddElement
  <2> QED
    BY <1>1, <1>3, <2>1, <2>3
<1> QED
  BY <1>1, <1>2, <1>3, <1>4 DEF Sound, CountsRight, Semaphore

LEMMA Frees ==
  ASSUME NEW sem \in Semaphore, NEW limit \in Nat, NEW H, NEW W, NEW t \in H,
         Sound(sem, limit, H, W), sem.waiters = <<>>
  PROVE  /\ Released(sem) \in Semaphore
         /\ Sound(Released(sem), limit, H \ {t}, W)
<1>1. /\ Released(sem) = [active |-> sem.active - 1, waiters |-> sem.waiters]
      /\ sem.active \in Nat /\ sem.waiters \in Seq(Tasks)
  BY DEF Released, Semaphore
<1>2. /\ IsFiniteSet(H \ {t}) /\ Cardinality(H \ {t}) = Cardinality(H) - 1
      /\ Cardinality(H \ {t}) \in Nat
  BY FS_RemoveElement, FS_CardinalityType DEF Sound
<1>3. W = {} /\ sem.active <= limit /\ sem.active = Cardinality(H)
  BY DEF Sound, CountsRight, ToSet
<1> QED
  BY <1>1, <1>2, <1>3 DEF Sound, CountsRight, Semaphore

(***************************************************************************)
(* The line: a task whose turn comes has only settled tasks before it, and *)
(* a round joins at the end.                                               *)
(***************************************************************************)
LEMMA LineKept ==
  ASSUME NEW b, InLine(b), prev' = prev, chains' = chains, Scheduled' = Scheduled,
         \A u \in Scheduled : pc[u] = "done" => pc'[u] = "done",
         \A u \in Scheduled : pc[u] = "chained" /\ pc'[u] # "chained" =>
           prev[u] = None \/ pc[prev[u]] = "done"
  PROVE  InLine(b)'
<1>1. ASSUME NEW t \in Scheduled, NEW u \in Scheduled,
             <<t, u>> \in b, Adapter[t] = Adapter[u], pc'[u] # "chained"
      PROVE  pc'[t] = "done"
  <2>1. CASE pc[u] # "chained"
    BY <1>1, <2>1 DEF InLine
  <2>2. CASE pc[u] = "chained"
    <3>1. prev[u] # None /\ (t = prev[u] \/ <<t, prev[u]>> \in b)
      BY <1>1 DEF InLine
    <3>2. pc[prev[u]] = "done" /\ prev[u] \in Scheduled /\ Adapter[prev[u]] = Adapter[u]
      BY <1>1, <2>2, <3>1 DEF InLine
    <3>3. pc[t] = "done"
      BY <1>1, <3>1, <3>2 DEF InLine
    <3> QED
      BY <3>3
  <2> QED
    BY <2>1, <2>2
<1> QED
  BY <1>1 DEF InLine

LEMMA ScheduleTypes ==
  ASSUME TypeOK, NEW r \in Rounds, NEW t \in ToSet(Panel[r])
  PROVE  /\ t \in Tasks /\ Adapter[t] \in Adapters
         /\ EarlierSameAdapter(r, t) \subseteq ToSet(Panel[r])
         /\ PrevOf(r, t) \in Tasks \cup {None}
<1>1. t \in Tasks /\ Adapter[t] \in Adapters
  BY PanelFacts DEF Adapters
<1>2. EarlierSameAdapter(r, t) \subseteq ToSet(Panel[r])
  BY DEF EarlierSameAdapter
<1>3. CASE EarlierSameAdapter(r, t) = {}
  BY <1>1, <1>2, <1>3 DEF PrevOf, TypeOK
<1>4. CASE EarlierSameAdapter(r, t) # {}
  <2>1. LastOf(r, EarlierSameAdapter(r, t)) \in ToSet(Panel[r])
    BY <1>2, <1>4, LastOfFacts
  <2> QED
    BY <1>1, <1>2, <1>4, <2>1, PanelFacts DEF PrevOf
<1> QED
  BY <1>1, <1>2, <1>3, <1>4

Mine(r, x) == {t \in ToSet(Panel[r]) : Adapter[t] = x}

LEMMA ScheduleEffect ==
  ASSUME TypeOK, NEW r \in Rounds, Schedule(r)
  PROVE  /\ TypeOK'
         /\ \A t \in ToSet(Panel[r]) : t \in Tasks /\ pc[t] = "idle" /\ pc'[t] = "chained"
         /\ \A t \in Tasks : t \notin ToSet(Panel[r]) => pc'[t] = pc[t] /\ prev'[t] = prev[t]
         /\ \A t \in ToSet(Panel[r]) : prev'[t] = PrevOf(r, t)
         /\ \A x \in Adapters : chains'[x] = IF Mine(r, x) # {} THEN LastOf(r, Mine(r, x))
                                                              ELSE chains[x]
         /\ Scheduled' = Scheduled \cup ToSet(Panel[r])
         /\ Scheduled \cap ToSet(Panel[r]) = {}
<1>1. ToSet(Panel[r]) \subseteq Tasks
  BY PanelFacts
<1>2. /\ \A t \in ToSet(Panel[r]) : pc[t] = "idle"
      /\ pc' = [t \in Tasks |-> IF t \in ToSet(Panel[r]) THEN "chained" ELSE pc[t]]
      /\ prev' = [t \in Tasks |-> IF t \in ToSet(Panel[r]) THEN PrevOf(r, t) ELSE prev[t]]
      /\ chains' = [x \in Adapters |-> IF Mine(r, x) # {} THEN LastOf(r, Mine(r, x)) ELSE chains[x]]
      /\ globalSem' = globalSem /\ roundSem' = roundSem
  BY DEF Schedule, Mine
<1>3. pc' \in [Tasks -> {"idle", "chained", "waitGlobal", "slotted", "waitRound", "running", "done"}]
  BY <1>2 DEF TypeOK
<1>4. prev' \in [Tasks -> Tasks \cup {None}]
  BY <1>2, ScheduleTypes DEF TypeOK
<1>5. chains' \in [Adapters -> Tasks \cup {None}]
  <2>1. ASSUME NEW x \in Adapters, Mine(r, x) # {}
        PROVE  LastOf(r, Mine(r, x)) \in Tasks
    <3>1. LastOf(r, Mine(r, x)) \in Mine(r, x)
      BY <2>1, LastOfFacts DEF Mine
    <3> QED
      BY <1>1, <3>1 DEF Mine
  <2> QED
    BY <1>2, <2>1 DEF TypeOK
<1>6. TypeOK'
  BY <1>2, <1>3, <1>4, <1>5 DEF TypeOK
<1>7. /\ Scheduled' = Scheduled \cup ToSet(Panel[r])
      /\ Scheduled \cap ToSet(Panel[r]) = {}
  BY <1>1, <1>2 DEF Scheduled
<1> QED
  BY <1>1, <1>2, <1>6, <1>7

LEMMA LineGrows ==
  ASSUME TypeOK, NEW r \in Rounds, Schedule(r), ChainsInLine
  PROVE  ChainsInLine'
<1> DEFINE P == ToSet(Panel[r])
<1>1. PICK b \in SUBSET (Tasks \X Tasks) : InLine(b)
  BY DEF ChainsInLine
<1> DEFINE c == b \cup (Scheduled \X P) \cup {e \in P \X P : Earlier(r, e[1], e[2])}
<1>2. /\ \A t \in P : t \in Tasks /\ pc[t] = "idle" /\ pc'[t] = "chained"
      /\ \A t \in Tasks : t \notin P => pc'[t] = pc[t] /\ prev'[t] = prev[t]
      /\ \A t \in P : prev'[t] = PrevOf(r, t)
      /\ \A x \in Adapters : chains'[x] = IF Mine(r, x) # {} THEN LastOf(r, Mine(r, x))
                                                           ELSE chains[x]
      /\ Scheduled' = Scheduled \cup P /\ Scheduled \cap P = {}
      /\ Scheduled \subseteq Tasks
  BY ScheduleEffect DEF Scheduled
<1>3. \A t, u : <<t, u>> \in c <=> \/ <<t, u>> \in b
                                   \/ t \in Scheduled /\ u \in P
                                   \/ t \in P /\ u \in P /\ Earlier(r, t, u)
  OBVIOUS
<1>4. c \subseteq Scheduled' \X Scheduled' /\ c \in SUBSET (Tasks \X Tasks)
  BY <1>1, <1>2 DEF InLine
<1>5. \A t, u \in Scheduled : <<t, u>> \in c <=> <<t, u>> \in b
  BY <1>2, <1>3
<1>6. \A t \in P, u \in Scheduled : <<t, u>> \notin c
  BY <1>1, <1>2, <1>3 DEF InLine
<1>7. \A t \in Scheduled, u \in P : <<t, u>> \in c
  BY <1>3
<1>8. \A t, u \in P : <<t, u>> \in c <=> Earlier(r, t, u)
  BY <1>1, <1>2, <1>3 DEF InLine
<1> HIDE DEF c
<1>9. ASSUME NEW t \in P, NEW u \in P, t # u
      PROVE  Earlier(r, t, u) \/ Earlier(r, u, t)
  <2>1. \A v \in P : \E i \in DOMAIN Panel[r] : Panel[r][i] = v
    BY PanelFacts
  <2>2. PICK i \in DOMAIN Panel[r] : Panel[r][i] = t
    BY <2>1
  <2>3. PICK j \in DOMAIN Panel[r] : Panel[r][j] = u
    BY <2>1
  <2>4. i < j \/ j < i
    BY <1>9, <2>2, <2>3, PanelFacts
  <2> QED
    BY <2>2, <2>3, <2>4 DEF Earlier
<1>10. \A t, u \in Scheduled' :
         t # u /\ Adapter[t] = Adapter[u] => <<t, u>> \in c \/ <<u, t>> \in c
  BY <1>1, <1>2, <1>5, <1>7, <1>8, <1>9 DEF InLine
(* Who precedes a newcomer in the new line.                                *)
<1>11. ASSUME NEW u \in P
       PROVE  LET E == EarlierSameAdapter(r, u)
              IN  /\ E # {} => PrevOf(r, u) \in E /\ \A t \in E :
                                 t = PrevOf(r, u) \/ Earlier(r, t, PrevOf(r, u))
                  /\ E = {} => PrevOf(r, u) = chains[Adapter[u]]
                  /\ \A t \in P : t \in E <=> Adapter[t] = Adapter[u] /\ Earlier(r, t, u)
                  /\ E \subseteq P
  <2> DEFINE E == EarlierSameAdapter(r, u)
  <2>1. E \subseteq P /\ \A t \in P : t \in E <=> Adapter[t] = Adapter[u] /\ Earlier(r, t, u)
    BY DEF EarlierSameAdapter, Earlier
  <2>2. E = {} => PrevOf(r, u) = chains[Adapter[u]]
    BY DEF PrevOf
  <2>3. E # {} => PrevOf(r, u) = LastOf(r, E)
    BY DEF PrevOf
  <2> HIDE DEF E
  <2>4. E # {} => PrevOf(r, u) \in E /\ \A t \in E : t = PrevOf(r, u) \/ Earlier(r, t, PrevOf(r, u))
    BY <2>1, <2>3, LastOfFacts
  <2> QED
    BY <2>1, <2>2, <2>4 DEF E
<1>12. \A u \in P : Adapter[u] \in Adapters /\ u \in Mine(r, Adapter[u])
  BY <1>2 DEF Adapters, Mine
<1>13. \A u \in Scheduled : Adapter[u] \in Adapters /\ prev'[u] = prev[u]
  BY <1>2 DEF Adapters
<1>14. ASSUME NEW u \in Scheduled', prev'[u] # None
       PROVE  prev'[u] \in Scheduled' /\ Adapter[prev'[u]] = Adapter[u]
  <2>1. CASE u \in Scheduled
    BY <1>1, <1>2, <1>13, <1>14, <2>1 DEF InLine
  <2>2. CASE u \in P
    <3>1. CASE EarlierSameAdapter(r, u) = {}
      <4>1. prev'[u] = chains[Adapter[u]]
        BY <1>2, <1>11, <2>2, <3>1
      <4> QED
        BY <1>1, <1>2, <1>12, <1>14, <2>2, <4>1 DEF InLine
    <3>2. CASE EarlierSameAdapter(r, u) # {}
      <4>1. prev'[u] \in EarlierSameAdapter(r, u) /\ prev'[u] \in P
        BY <1>2, <1>11, <2>2, <3>2
      <4> QED
        BY <1>2, <1>11, <2>2, <4>1
    <3> QED
      BY <3>1, <3>2
  <2> QED
    BY <1>2, <2>1, <2>2
<1>15. ASSUME NEW t \in Scheduled', NEW u \in Scheduled', <<t, u>> \in c, Adapter[t] = Adapter[u]
       PROVE  prev'[u] # None /\ (t = prev'[u] \/ <<t, prev'[u]>> \in c)
  <2>1. CASE u \in Scheduled
    <3>1. t \in Scheduled
      BY <1>2, <1>6, <1>15, <2>1
    <3>2. prev[u] # None /\ (t = prev[u] \/ <<t, prev[u]>> \in b) /\ prev[u] \in Scheduled
      BY <1>1, <1>5, <1>15, <2>1, <3>1 DEF InLine
    <3> QED
      BY <1>5, <1>13, <2>1, <3>1, <3>2
  <2>2. CASE u \in P
    <3>1. CASE EarlierSameAdapter(r, u) = {}
      <4>1. t \in Scheduled
        BY <1>2, <1>8, <1>11, <1>15, <2>2, <3>1
      <4>2. prev'[u] = chains[Adapter[t]]
        BY <1>2, <1>11, <1>15, <2>2, <3>1
      <4>3. chains[Adapter[t]] # None /\ (t = chains[Adapter[t]] \/ <<t, chains[Adapter[t]]>> \in b)
        BY <1>1, <4>1 DEF InLine
      <4>4. chains[Adapter[t]] \in Scheduled
        BY <1>1, <1>13, <4>1, <4>3 DEF InLine
      <4> QED
        BY <1>5, <4>1, <4>2, <4>3, <4>4
    <3>2. CASE EarlierSameAdapter(r, u) # {}
      <4>1. prev'[u] \in P
        BY <1>2, <1>11, <2>2, <3>2
      <4>2. prev'[u] # None
        BY <1>2, <4>1, DispatchAssumption
      <4>3. CASE t \in Scheduled
        BY <1>7, <4>1, <4>2, <4>3
      <4>4. CASE t \in P
        <5>1. t \in EarlierSameAdapter(r, u)
          BY <1>8, <1>11, <1>15, <2>2, <4>4
        <5>2. t = prev'[u] \/ Earlier(r, t, prev'[u])
          BY <1>2, <1>11, <2>2, <3>2, <5>1
        <5> QED
          BY <1>8, <4>1, <4>2, <4>4, <5>2
      <4> QED
        BY <1>2, <4>3, <4>4
    <3> QED
      BY <3>1, <3>2
  <2> QED
    BY <1>2, <2>1, <2>2
<1>16. ASSUME NEW x \in Adapters
       PROVE  /\ Mine(r, x) # {} => /\ chains'[x] \in Mine(r, x) /\ chains'[x] \in P
                                    /\ \A t \in Mine(r, x) :
                                         t = chains'[x] \/ Earlier(r, t, chains'[x])
              /\ Mine(r, x) = {} => chains'[x] = chains[x]
  <2>1. Mine(r, x) \subseteq P
    BY DEF Mine
  <2> QED
    BY <1>2, <2>1, LastOfFacts
<1>17. ASSUME NEW x \in Adapters, chains'[x] # None
       PROVE  chains'[x] \in Scheduled' /\ Adapter[chains'[x]] = x
  <2>1. CASE Mine(r, x) = {}
    BY <1>1, <1>2, <1>16, <1>17, <2>1 DEF InLine
  <2>2. CASE Mine(r, x) # {}
    BY <1>2, <1>16, <2>2 DEF Mine
  <2> QED
    BY <2>1, <2>2
<1>18. ASSUME NEW t \in Scheduled'
       PROVE  LET last == chains'[Adapter[t]]
              IN  last # None /\ (t = last \/ <<t, last>> \in c)
  <2> DEFINE x == Adapter[t]
             last == chains'[x]
  <2>1. x \in Adapters
    BY <1>2, <1>12, <1>13
  <2>2. CASE t \in P
    <3>1. t \in Mine(r, x) /\ last \in P /\ (t = last \/ Earlier(r, t, last))
      BY <1>12, <1>16, <2>1, <2>2
    <3>2. last # None
      BY <1>2, <3>1, DispatchAssumption
    <3> QED
      BY <1>8, <2>2, <3>1, <3>2
  <2>3. CASE t \in Scheduled /\ Mine(r, x) = {}
    <3>1. last = chains[x]
      BY <1>16, <2>1, <2>3
    <3>2. last # None /\ (t = last \/ <<t, last>> \in b)
      BY <1>1, <2>3, <3>1 DEF InLine
    <3>3. last \in Scheduled
      BY <1>1, <2>1, <3>1, <3>2 DEF InLine
    <3> QED
      BY <1>5, <2>3, <3>2, <3>3
  <2>4. CASE t \in Scheduled /\ Mine(r, x) # {}
    <3>1. last \in P
      BY <1>16, <2>1, <2>4
    <3>2. last # None
      BY <1>2, <3>1, DispatchAssumption
    <3> QED
      BY <1>7, <2>4, <3>1, <3>2
  <2> QED
    BY <1>2, <2>2, <2>3, <2>4
<1>19. ASSUME NEW t \in Scheduled', NEW u \in Scheduled', <<t, u>> \in c, Adapter[t] = Adapter[u],
              pc'[u] # "chained"
       PROVE  pc'[t] = "done"
  <2>1. u \in Scheduled /\ u \notin P
    BY <1>2, <1>19
  <2>2. t \in Scheduled /\ t \notin P
    BY <1>2, <1>6, <1>19, <2>1
  <2>3. <<t, u>> \in b /\ pc[u] # "chained"
    BY <1>2, <1>5, <1>19, <2>1, <2>2
  <2> QED
    BY <1>1, <1>2, <1>19, <2>1, <2>2, <2>3 DEF InLine
<1>20. PICK d : d = c
  OBVIOUS
<1>21. InLine(d)'
  BY <1>4, <1>10, <1>14, <1>15, <1>17, <1>18, <1>19, <1>20 DEF InLine
<1> QED
  BY <1>4, <1>20, <1>21 DEF ChainsInLine

(***************************************************************************)
(* The steps.                                                              *)
(***************************************************************************)
TaskPc == {"idle", "chained", "waitGlobal", "slotted", "waitRound", "running", "done"}

LEMMA Shapes ==
  ASSUME TypeOK
  PROVE  /\ pc \in [Tasks -> TaskPc] /\ globalSem \in Semaphore
         /\ roundSem \in [Rounds -> Semaphore]
         /\ GlobalLimit \in Nat /\ \A r \in Rounds : RoundLimit[r] \in Nat
BY DispatchAssumption DEF TypeOK, TaskPc, Semaphore

LEMMA ScheduleStep ==
  ASSUME LineInv, NEW r \in Rounds, Schedule(r)
  PROVE  LineInv'
<1>1. TypeOK' /\ ChainsInLine'
  BY ScheduleEffect, LineGrows DEF LineInv
<1>2. \A t \in Tasks : \/ pc'[t] = pc[t]
                       \/ pc[t] = "idle" /\ pc'[t] = "chained"
  <2>1. /\ \A t \in ToSet(Panel[r]) : pc[t] = "idle" /\ pc'[t] = "chained"
        /\ \A t \in Tasks : t \notin ToSet(Panel[r]) => pc'[t] = pc[t]
    BY ScheduleEffect DEF LineInv
  <2> QED
    BY <2>1
<1>3. /\ Holding' = Holding /\ WaitingGlobal' = WaitingGlobal
      /\ \A q \in Rounds : Running(q)' = Running(q) /\ WaitingRound(q)' = WaitingRound(q)
  BY <1>2, PanelFacts DEF Holding, WaitingGlobal, Running, WaitingRound
<1>4. globalSem' = globalSem /\ roundSem' = roundSem
  BY DEF Schedule
<1>5. SemaphoresSound'
  BY <1>3, <1>4 DEF LineInv, SemaphoresSound, Sound, CountsRight
<1> QED
  BY <1>1, <1>5 DEF LineInv

LEMMA AcquireGlobalStep ==
  ASSUME LineInv, NEW t \in Tasks, AcquireGlobal(t)
  PROVE  LineInv'
<1> USE DEF LineInv
<1> DEFINE p == IF HasSlot(globalSem, GlobalLimit) THEN "slotted" ELSE "waitGlobal"
<1>1. /\ pc[t] = "chained" /\ pc' = [pc EXCEPT ![t] = p]
      /\ globalSem' = Acquired(globalSem, GlobalLimit, t)
      /\ prev' = prev /\ chains' = chains /\ roundSem' = roundSem
      /\ \A u \in Tasks : prev[t] = u => pc[u] = "done"
  BY DEF AcquireGlobal
<1>2. /\ pc \in [Tasks -> TaskPc] /\ globalSem \in Semaphore /\ GlobalLimit \in Nat
      /\ pc'[t] = p /\ pc' \in [Tasks -> TaskPc]
      /\ \A u \in Tasks : u # t => pc'[u] = pc[u]
      /\ prev[t] \in Tasks \cup {None}
  BY <1>1, Shapes DEF TaskPc, TypeOK
<1>3. t \notin Holding /\ t \notin WaitingGlobal /\ Sound(globalSem, GlobalLimit, Holding, WaitingGlobal)
  BY <1>1 DEF Holding, WaitingGlobal, SemaphoresSound
<1>4. \A q \in Rounds : Running(q)' = Running(q) /\ WaitingRound(q)' = WaitingRound(q)
  BY <1>1, <1>2, PanelFacts DEF Running, WaitingRound
<1>5. globalSem' \in Semaphore /\ Sound(globalSem', GlobalLimit, Holding', WaitingGlobal')
  <2>1. CASE HasSlot(globalSem, GlobalLimit)
    <3>1. Holding' = Holding \cup {t} /\ WaitingGlobal' = WaitingGlobal
      BY <1>1, <1>2, <2>1 DEF Holding, WaitingGlobal
    <3> QED
      BY <1>1, <1>2, <1>3, <2>1, <3>1, TakesSlot
  <2>2. CASE ~HasSlot(globalSem, GlobalLimit)
    <3>1. Holding' = Holding /\ WaitingGlobal' = WaitingGlobal \cup {t}
      BY <1>1, <1>2, <2>2 DEF Holding, WaitingGlobal
    <3> QED
      BY <1>1, <1>2, <1>3, <2>2, <3>1, Queues
  <2> QED
    BY <2>1, <2>2
<1>6. SemaphoresSound'
  BY <1>1, <1>4, <1>5 DEF SemaphoresSound, Sound, CountsRight
<1>7. ChainsInLine'
  <2>1. PICK b \in SUBSET (Tasks \X Tasks) : InLine(b)
    BY DEF ChainsInLine
  <2>2. Scheduled' = Scheduled
    BY <1>1, <1>2 DEF Scheduled
  <2>3. ASSUME NEW u \in Scheduled
        PROVE  /\ pc[u] = "done" => pc'[u] = "done"
               /\ pc[u] = "chained" /\ pc'[u] # "chained" => prev[u] = None \/ pc[prev[u]] = "done"
    BY <1>1, <1>2 DEF Scheduled
  <2>4. InLine(b)'
    BY <1>1, <2>1, <2>2, <2>3, LineKept
  <2> QED
    BY <2>4 DEF ChainsInLine
<1>8. TypeOK'
  BY <1>1, <1>2, <1>5 DEF TypeOK, Semaphore, TaskPc
<1> QED
  BY <1>6, <1>7, <1>8

LEMMA AcquireRoundStep ==
  ASSUME LineInv, NEW t \in Tasks, AcquireRound(t)
  PROVE  LineInv'
<1> USE DEF LineInv
<1> DEFINE r == RoundOf(t)
           p == IF HasSlot(roundSem[r], RoundLimit[r]) THEN "running" ELSE "waitRound"
<1>1. /\ pc[t] = "slotted" /\ pc' = [pc EXCEPT ![t] = p]
      /\ roundSem' = [roundSem EXCEPT ![r] = Acquired(roundSem[r], RoundLimit[r], t)]
      /\ prev' = prev /\ chains' = chains /\ globalSem' = globalSem
  BY DEF AcquireRound
<1>2. /\ pc \in [Tasks -> TaskPc] /\ roundSem \in [Rounds -> Semaphore]
      /\ pc'[t] = p /\ pc' \in [Tasks -> TaskPc]
      /\ \A u \in Tasks : u # t => pc'[u] = pc[u]
  BY <1>1, Shapes DEF TaskPc
<1>3. r \in Rounds /\ t \in ToSet(Panel[r]) /\ \A q \in Rounds : t \in ToSet(Panel[q]) => q = r
  BY RoundOfTask
<1> HIDE DEF r
<1>4. /\ roundSem[r] \in Semaphore /\ RoundLimit[r] \in Nat
      /\ t \notin Running(r) /\ t \notin WaitingRound(r)
      /\ Sound(roundSem[r], RoundLimit[r], Running(r), WaitingRound(r))
  BY <1>1, <1>2, <1>3, Shapes DEF Running, WaitingRound, SemaphoresSound
<1>5. Holding' = Holding /\ WaitingGlobal' = WaitingGlobal
  BY <1>1, <1>2 DEF Holding, WaitingGlobal
<1>6. \A q \in Rounds : q # r => /\ Running(q)' = Running(q) /\ WaitingRound(q)' = WaitingRound(q)
                                 /\ roundSem'[q] = roundSem[q]
  BY <1>1, <1>2, <1>3, PanelFacts DEF Running, WaitingRound
<1>7. /\ roundSem'[r] = Acquired(roundSem[r], RoundLimit[r], t)
      /\ roundSem'[r] \in Semaphore
      /\ Sound(roundSem'[r], RoundLimit[r], Running(r)', WaitingRound(r)')
  <2>1. roundSem'[r] = Acquired(roundSem[r], RoundLimit[r], t)
    BY <1>1, <1>2, <1>3
  <2>2. CASE HasSlot(roundSem[r], RoundLimit[r])
    <3>1. Running(r)' = Running(r) \cup {t} /\ WaitingRound(r)' = WaitingRound(r)
      BY <1>1, <1>2, <1>3, <2>2, PanelFacts DEF Running, WaitingRound
    <3>2. LET sem == Acquired(roundSem[r], RoundLimit[r], t)
          IN  sem \in Semaphore /\ Sound(sem, RoundLimit[r], Running(r) \cup {t}, WaitingRound(r))
      BY <1>4, <2>2, TakesSlot
    <3> QED
      BY <2>1, <3>1, <3>2
  <2>3. CASE ~HasSlot(roundSem[r], RoundLimit[r])
    <3>1. Running(r)' = Running(r) /\ WaitingRound(r)' = WaitingRound(r) \cup {t}
      BY <1>1, <1>2, <1>3, <2>3, PanelFacts DEF Running, WaitingRound
    <3>2. LET sem == Acquired(roundSem[r], RoundLimit[r], t)
          IN  sem \in Semaphore /\ Sound(sem, RoundLimit[r], Running(r), WaitingRound(r) \cup {t})
      BY <1>4, <2>3, Queues
    <3> QED
      BY <2>1, <3>1, <3>2
  <2> QED
    BY <2>2, <2>3
<1>8. SemaphoresSound'
  <2>1. Sound(globalSem, GlobalLimit, Holding, WaitingGlobal)'
    BY <1>1, <1>5 DEF SemaphoresSound, Sound, CountsRight
  <2>2. ASSUME NEW q \in Rounds
        PROVE  Sound(roundSem[q], RoundLimit[q], Running(q), WaitingRound(q))'
    <3>1. CASE q = r
      BY <1>7, <3>1 DEF Sound, CountsRight
    <3>2. CASE q # r
      BY <1>6, <3>2 DEF SemaphoresSound, Sound, CountsRight
    <3> QED
      BY <3>1, <3>2
  <2> QED
    BY <2>1, <2>2 DEF SemaphoresSound
<1>9. ChainsInLine'
  <2>1. PICK b \in SUBSET (Tasks \X Tasks) : InLine(b)
    BY DEF ChainsInLine
  <2>2. Scheduled' = Scheduled
    BY <1>1, <1>2 DEF Scheduled
  <2>3. ASSUME NEW u \in Scheduled
        PROVE  /\ pc[u] = "done" => pc'[u] = "done"
               /\ ~(pc[u] = "chained" /\ pc'[u] # "chained")
    BY <1>1, <1>2 DEF Scheduled
  <2>4. InLine(b)'
    BY <1>1, <2>1, <2>2, <2>3, LineKept
  <2> QED
    BY <2>4 DEF ChainsInLine
<1>10. TypeOK'
  <2>1. roundSem' \in [Rounds -> Semaphore]
    BY <1>1, <1>2, <1>7
  <2> QED
    BY <1>1, <1>2, <2>1 DEF TypeOK, Semaphore, TaskPc
<1> QED
  BY <1>8, <1>9, <1>10

LEMMA SettleStep ==
  ASSUME LineInv, NEW t \in Tasks, Settle(t)
  PROVE  LineInv'
<1> USE DEF LineInv
<1> DEFINE r == RoundOf(t)
           w == Woken(roundSem[r])
           g == Woken(globalSem)
<1>1. /\ pc[t] = "running"
      /\ pc' = [u \in Tasks |-> CASE u = t -> "done" [] u = w -> "running" [] u = g -> "slotted"
                                  [] OTHER -> pc[u]]
      /\ roundSem' = [roundSem EXCEPT ![r] = Released(roundSem[r])]
      /\ globalSem' = Released(globalSem)
      /\ prev' = prev /\ chains' = chains
  BY DEF Settle
<1>2. r \in Rounds /\ t \in ToSet(Panel[r]) /\ \A q \in Rounds : t \in ToSet(Panel[q]) => q = r
  BY RoundOfTask
<1>3. /\ pc \in [Tasks -> TaskPc] /\ globalSem \in Semaphore /\ roundSem \in [Rounds -> Semaphore]
      /\ roundSem[r] \in Semaphore /\ GlobalLimit \in Nat /\ RoundLimit[r] \in Nat
  BY <1>2, Shapes
<1>4. /\ Sound(globalSem, GlobalLimit, Holding, WaitingGlobal)
      /\ Sound(roundSem[r], RoundLimit[r], Running(r), WaitingRound(r))
      /\ t \in Holding /\ t \in Running(r)
      /\ Holding \cap WaitingGlobal = {} /\ Running(r) \cap WaitingRound(r) = {}
  BY <1>1, <1>2 DEF Holding, Running, WaitingGlobal, WaitingRound, SemaphoresSound
(* Who is woken, if anybody.                                               *)
<1>5. \/ w = None /\ roundSem[r].waiters = <<>>
      \/ w \in Tasks /\ w \in WaitingRound(r) /\ roundSem[r].waiters # <<>>
  <2>1. CASE roundSem[r].waiters = <<>>
    BY <2>1 DEF Woken
  <2>2. CASE roundSem[r].waiters # <<>>
    <3>1. w \in WaitingRound(r)
      BY <1>3, <1>4, <2>2, Passes
    <3> QED
      BY <1>2, <2>2, <3>1, PanelFacts DEF WaitingRound
  <2> QED
    BY <2>1, <2>2
<1>6. \/ g = None /\ globalSem.waiters = <<>>
      \/ g \in Tasks /\ g \in WaitingGlobal /\ globalSem.waiters # <<>>
  <2>1. CASE globalSem.waiters = <<>>
    BY <2>1 DEF Woken
  <2>2. CASE globalSem.waiters # <<>>
    <3>1. g \in WaitingGlobal
      BY <1>3, <1>4, <2>2, Passes
    <3> QED
      BY <2>2, <3>1 DEF WaitingGlobal
  <2> QED
    BY <2>1, <2>2
<1> HIDE DEF r, w, g
<1>7. /\ w \in Tasks => pc[w] = "waitRound" /\ w \in ToSet(Panel[r])
      /\ g \in Tasks => pc[g] = "waitGlobal"
      /\ None \notin Tasks
  BY <1>5, <1>6, DispatchAssumption DEF WaitingRound, WaitingGlobal
<1>8. /\ pc'[t] = "done"
      /\ w \in Tasks => pc'[w] = "running"
      /\ g \in Tasks => pc'[g] = "slotted"
      /\ \A u \in Tasks : u # t /\ u # w /\ u # g => pc'[u] = pc[u]
      /\ pc' \in [Tasks -> TaskPc]
  BY <1>1, <1>3, <1>7 DEF TaskPc
<1>9. globalSem' \in Semaphore /\ Sound(globalSem', GlobalLimit, Holding', WaitingGlobal')
  <2>1. CASE globalSem.waiters = <<>>
    <3>1. g \notin Tasks
      BY <1>6, <1>7, <2>1
    <3>2. Holding' = Holding \ {t} /\ WaitingGlobal' = WaitingGlobal
      BY <1>1, <1>7, <1>8, <3>1 DEF Holding, WaitingGlobal
    <3> QED
      BY <1>1, <1>3, <1>4, <2>1, <3>2, Frees
  <2>2. CASE globalSem.waiters # <<>>
    <3>1. g \in Tasks
      BY <1>6, <2>2
    <3>2. Holding' = (Holding \ {t}) \cup {g} /\ WaitingGlobal' = WaitingGlobal \ {g}
      BY <1>1, <1>7, <1>8, <3>1 DEF Holding, WaitingGlobal
    <3>3. g = Woken(globalSem)
      BY DEF g
    <3> QED
      BY <1>1, <1>3, <1>4, <2>2, <3>2, <3>3, Passes
  <2> QED
    BY <2>1, <2>2
<1>10. roundSem'[r] = Released(roundSem[r]) /\ \A q \in Rounds : q # r => roundSem'[q] = roundSem[q]
  BY <1>1, <1>2, <1>3
<1>11. /\ roundSem'[r] \in Semaphore
       /\ Sound(roundSem'[r], RoundLimit[r], Running(r)', WaitingRound(r)')
  <2>1. ToSet(Panel[r]) \subseteq Tasks
    BY <1>2, PanelFacts
  <2>2. CASE roundSem[r].waiters = <<>>
    <3>1. w \notin Tasks
      BY <1>5, <1>7, <2>2
    <3>2. Running(r)' = Running(r) \ {t} /\ WaitingRound(r)' = WaitingRound(r)
      BY <1>1, <1>7, <1>8, <2>1, <3>1 DEF Running, WaitingRound
    <3>3. LET sem == Released(roundSem[r])
          IN  sem \in Semaphore /\ Sound(sem, RoundLimit[r], Running(r) \ {t}, WaitingRound(r))
      BY <1>3, <1>4, <2>2, Frees
    <3> QED
      BY <1>10, <3>2, <3>3
  <2>3. CASE roundSem[r].waiters # <<>>
    <3>1. w \in Tasks
      BY <1>5, <2>3
    <3>2. Running(r)' = (Running(r) \ {t}) \cup {w} /\ WaitingRound(r)' = WaitingRound(r) \ {w}
      BY <1>1, <1>7, <1>8, <2>1, <3>1 DEF Running, WaitingRound
    <3>3. LET sem == Released(roundSem[r])
              u == Woken(roundSem[r])
          IN  /\ sem \in Semaphore
              /\ Sound(sem, RoundLimit[r], (Running(r) \ {t}) \cup {u}, WaitingRound(r) \ {u})
      BY <1>3, <1>4, <2>3, Passes
    <3>4. w = Woken(roundSem[r])
      BY DEF w
    <3> QED
      BY <1>10, <3>2, <3>3, <3>4
  <2> QED
    BY <2>2, <2>3
<1>12. ASSUME NEW q \in Rounds, q # r
       PROVE  Running(q)' = Running(q) /\ WaitingRound(q)' = WaitingRound(q)
  <2>1. ToSet(Panel[q]) \subseteq Tasks /\ t \notin ToSet(Panel[q])
    BY <1>2, <1>12, PanelFacts
  <2>2. w \in Tasks => w \notin ToSet(Panel[q])
    BY <1>2, <1>7, <1>12, DispatchAssumption
  <2> QED
    BY <1>7, <1>8, <2>1, <2>2 DEF Running, WaitingRound
<1>13. SemaphoresSound'
  <2>1. Sound(globalSem, GlobalLimit, Holding, WaitingGlobal)'
    BY <1>9 DEF Sound, CountsRight
  <2>2. ASSUME NEW q \in Rounds
        PROVE  Sound(roundSem[q], RoundLimit[q], Running(q), WaitingRound(q))'
    <3>1. CASE q = r
      BY <1>11, <3>1 DEF Sound, CountsRight
    <3>2. CASE q # r
      BY <1>10, <1>12, <3>2 DEF SemaphoresSound, Sound, CountsRight
    <3> QED
      BY <3>1, <3>2
  <2> QED
    BY <2>1, <2>2 DEF SemaphoresSound
<1>14. ChainsInLine'
  <2>1. PICK b \in SUBSET (Tasks \X Tasks) : InLine(b)
    BY DEF ChainsInLine
  <2>2. Scheduled' = Scheduled
    BY <1>1, <1>7, <1>8 DEF Scheduled
  <2>3. ASSUME NEW u \in Scheduled
        PROVE  /\ pc[u] = "done" => pc'[u] = "done"
               /\ ~(pc[u] = "chained" /\ pc'[u] # "chained")
    BY <1>1, <1>7, <1>8 DEF Scheduled
  <2>4. InLine(b)'
    BY <1>1, <2>1, <2>2, <2>3, LineKept
  <2> QED
    BY <2>4 DEF ChainsInLine
<1>15. TypeOK'
  <2>1. roundSem' \in [Rounds -> Semaphore]
    BY <1>1, <1>3, <1>11
  <2> QED
    BY <1>1, <1>8, <1>9, <2>1 DEF TypeOK, Semaphore, TaskPc
<1> QED
  BY <1>13, <1>14, <1>15

LEMMA LineStep ==
  ASSUME LineInv, [Next]_vars
  PROVE  LineInv'
<1>1. CASE UNCHANGED vars
  <2>1. /\ TypeOK' /\ Holding' = Holding /\ WaitingGlobal' = WaitingGlobal /\ Scheduled' = Scheduled
        /\ \A r \in Rounds : Running(r)' = Running(r) /\ WaitingRound(r)' = WaitingRound(r)
        /\ globalSem' = globalSem /\ roundSem' = roundSem
    BY <1>1 DEF vars, LineInv, TypeOK, Holding, WaitingGlobal, Running, WaitingRound, Scheduled
  <2>2. SemaphoresSound'
    BY <2>1 DEF LineInv, SemaphoresSound, Sound, CountsRight
  <2>3. ChainsInLine'
    BY <1>1, <2>1 DEF vars, LineInv, ChainsInLine, InLine
  <2> QED
    BY <2>1, <2>2, <2>3 DEF LineInv
<1> QED
  BY <1>1, ScheduleStep, AcquireGlobalStep, AcquireRoundStep, SettleStep DEF Next

LEMMA LineInit == Init => LineInv
<1> SUFFICES ASSUME Init PROVE LineInv
  OBVIOUS
<1>1. FreeSemaphore \in Semaphore /\ FreeSemaphore.active = 0 /\ FreeSemaphore.waiters = <<>>
  BY DEF FreeSemaphore, Semaphore
<1>2. TypeOK
  BY <1>1 DEF Init, TypeOK, Semaphore
<1>3. \A t \in Tasks : pc[t] = "idle"
  BY DEF Init
<1>4. /\ Holding = {} /\ WaitingGlobal = {} /\ Scheduled = {}
      /\ \A r \in Rounds : Running(r) = {} /\ WaitingRound(r) = {}
  BY <1>3, PanelFacts DEF Holding, WaitingGlobal, Scheduled, Running, WaitingRound
<1>5. \A n \in Nat : Sound(FreeSemaphore, n, {}, {})
  BY <1>1, FS_EmptySet DEF Sound, CountsRight, ToSet, IsInjective
<1>6. SemaphoresSound
  BY <1>2, <1>4, <1>5, Shapes DEF Init, SemaphoresSound
<1>7. InLine({})
  BY <1>4 DEF Init, InLine
<1> QED
  BY <1>2, <1>6, <1>7 DEF LineInv, ChainsInLine

(* For any rounds over any shared adapters: the semaphores count exactly,  *)
(* no wake-up is lost or given twice, and work of one adapter never        *)
(* overlaps.                                                               *)
THEOREM DispatchIsSafe == Spec => []DispatchInv
BY LineInit, LineStep, LineImplies, PTL DEF Spec
=============================================================================
