-------------------------- MODULE LifecycleProofs --------------------------
(***************************************************************************)
(* Proofs about Lifecycle, for any number of instances and clients and any *)
(* configurations, when no process stalls past the staleness of its lock.  *)
(***************************************************************************)
EXTENDS Lifecycle, FiniteSetTheorems, TLAPS

States == Active \cup {"none", "starting", "lost", "exited", "dead"}

Places == {"idle", "read", "waiting", "connected", "refused", "failed",
           "confirming", "signalling", "signalled", "stopped"}

Healthless == \A i \in Instances : stalled[i] = FALSE

(* From the lock on, an instance is the one that the lock names.           *)
ActiveHoldsLock == \A i \in Instances : state[i] \in Active => lock = i

(* What a daemon has bound or published stays its own until it removes it. *)
NamesHeld ==
  \A i \in Instances :
    /\ state[i] \in {"listening", "serving"} => socket = i
    /\ state[i] \in {"serving", "closing"} => discovery = i

(* Whoever is being stopped is known, and past serving once signalled.     *)
StopFollowed ==
  \A c \in Clients :
    /\ pc[c] \in {"signalling", "signalled", "stopped"} => peer[c] \in Instances
    /\ pc[c] = "signalled" => state[peer[c]] \in {"closing"} \cup Gone
    /\ pc[c] = "stopped" => state[peer[c]] \in Gone

IInv == TypeOK /\ Healthless /\ ActiveHoldsLock /\ NamesHeld /\ StopFollowed

-----------------------------------------------------------------------------
(* At most one instance is active.                                         *)
LEMMA OneActive ==
  ASSUME IInv, NEW i \in Instances, NEW j \in Instances,
         state[i] \in Active, state[j] \in Active
  PROVE  i = j
BY DEF IInv, ActiveHoldsLock

(* Only a dead owner makes a lock stale, so that nobody is active when the *)
(* lock is free.                                                           *)
LEMMA FreeMeansNoneActive ==
  ASSUME IInv, LockFree
  PROVE  \A j \in Instances : state[j] \notin Active
<1> SUFFICES ASSUME NEW j \in Instances, state[j] \in Active PROVE FALSE
  OBVIOUS
<1>1. lock = j
  BY DEF IInv, ActiveHoldsLock
<1>2. j # None
  BY LifecycleAssumption
<1>3. state[j] = "dead"
  BY <1>1, <1>2 DEF LockFree, Stale, IInv, Healthless
<1> QED
  BY <1>3 DEF Active

LEMMA InitIInv == Init => IInv
BY DEF Init, IInv, TypeOK, Healthless, ActiveHoldsLock, NamesHeld, StopFollowed, Active

-----------------------------------------------------------------------------
(* A step of an instance that ends in one state, with no client involved:  *)
(* the typing of all that it leaves alone.                                 *)
LEMMA StepType ==
  ASSUME IInv, NEW i \in Instances, NEW s \in States \ {"none"},
         state[i] # "none",
         state' = [state EXCEPT ![i] = s],
         UNCHANGED <<stalled, config, pc, peer>>,
         {lock', socket', discovery'} \subseteq Instances \cup {None}
  PROVE  TypeOK' /\ Healthless'
<1>1. state' \in [Instances -> States]
  BY DEF IInv, TypeOK, States
<1>2. \A j \in Instances : state'[j] # "none" => config'[j] \in Configs
  BY DEF IInv, TypeOK
<1>3. TypeOK'
  BY <1>1, <1>2 DEF IInv, TypeOK, States, Configs, Active
<1> QED
  BY <1>3 DEF IInv, Healthless

(* A client that is being stopped, or has been, stays so when an instance  *)
(* takes a step that is not from Gone and not from closing, or ends in     *)
(* Gone.                                                                   *)
LEMMA StepFollowed ==
  ASSUME IInv, NEW i \in Instances, NEW s \in States,
         state' = [state EXCEPT ![i] = s],
         UNCHANGED <<pc, peer>>,
         state[i] \notin Gone,
         s \in Gone \/ state[i] # "closing"
  PROVE  StopFollowed'
<1> SUFFICES ASSUME NEW c \in Clients
             PROVE  /\ pc[c] \in {"signalling", "signalled", "stopped"} => peer[c] \in Instances
                    /\ pc[c] = "signalled" => state'[peer[c]] \in {"closing"} \cup Gone
                    /\ pc[c] = "stopped" => state'[peer[c]] \in Gone
  BY DEF StopFollowed, Gone
<1>1. state \in [Instances -> States]
  BY DEF IInv, TypeOK, States
<1>2. \A j \in Instances : state'[j] = IF j = i THEN s ELSE state[j]
  BY <1>1
<1> QED
  BY <1>2 DEF IInv, StopFollowed

(* Once nobody but one instance is active, and its own names are right,    *)
(* the invariants about the names hold.                                    *)
LEMMA NamesOfOne ==
  ASSUME IInv, NEW i \in Instances, NEW s \in States,
         state' = [state EXCEPT ![i] = s],
         \A j \in Instances : j # i => state[j] \notin Active,
         s \in Active => lock' = i,
         s \in {"listening", "serving"} => socket' = i,
         s \in {"serving", "closing"} => discovery' = i
  PROVE  ActiveHoldsLock' /\ NamesHeld'
<1>1. state \in [Instances -> States]
  BY DEF IInv, TypeOK, States
<1>2. \A j \in Instances : state'[j] = IF j = i THEN s ELSE state[j]
  BY <1>1
<1>3. \A j \in Instances : state'[j] \in Active => j = i
  BY <1>2
<1>4. {"listening", "serving", "closing"} \subseteq Active
  BY DEF Active
<1>5. ActiveHoldsLock'
  BY <1>2, <1>3 DEF ActiveHoldsLock, Active
<1>6. NamesHeld'
  BY <1>2, <1>3, <1>4 DEF NamesHeld
<1> QED
  BY <1>5, <1>6

(* An instance that was and stays outside of Active disturbs nobody.       *)
LEMMA NamesOfOthers ==
  ASSUME IInv, NEW i \in Instances, NEW s \in States \ Active,
         state' = [state EXCEPT ![i] = s],
         UNCHANGED files
  PROVE  ActiveHoldsLock' /\ NamesHeld'
<1>1. state \in [Instances -> States]
  BY DEF IInv, TypeOK, States
<1>2. \A j \in Instances : state'[j] = IF j = i THEN s ELSE state[j]
  BY <1>1
<1>3. {"listening", "serving", "closing"} \subseteq Active
  BY DEF Active
<1>4. \A j \in Instances : state'[j] \in Active => state'[j] = state[j]
  BY <1>2
<1>5. lock' = lock /\ socket' = socket /\ discovery' = discovery
  BY DEF files
<1>6. ActiveHoldsLock'
  BY <1>4, <1>5 DEF IInv, ActiveHoldsLock, Active
<1>7. NamesHeld'
  BY <1>3, <1>4, <1>5 DEF IInv, NamesHeld
<1> QED
  BY <1>6, <1>7

-----------------------------------------------------------------------------
(* The steps of an instance.                                               *)
LEMMA AcquireLockIInv ==
  ASSUME IInv, NEW i \in Instances, AcquireLock(i)
  PROVE  IInv'
<1> DEFINE s == IF LockFree THEN "preparing" ELSE "lost"
<1>1. s \in States \ {"none"} /\ state[i] = "starting" /\ state' = [state EXCEPT ![i] = s]
  BY DEF AcquireLock, Run, States, Active
<1>2. lock' \in {lock, i} /\ UNCHANGED <<stalled, config, socket, discovery, pc, peer>>
  BY DEF AcquireLock
<1>3. TypeOK' /\ Healthless'
  <2>1. {lock', socket', discovery'} \subseteq Instances \cup {None}
    BY <1>2 DEF IInv, TypeOK
  <2> QED
    BY <1>1, <1>2, <2>1, StepType
<1>4. StopFollowed'
  <2>1. state[i] \notin Gone /\ state[i] # "closing"
    BY <1>1 DEF Gone
  <2> QED
    BY <1>1, <1>2, <2>1, StepFollowed
<1>5. ActiveHoldsLock' /\ NamesHeld'
  <2>1. CASE LockFree
    <3>1. \A j \in Instances : j # i => state[j] \notin Active
      BY <2>1, FreeMeansNoneActive
    <3>2. lock' = i /\ s = "preparing"
      BY <2>1 DEF AcquireLock
    <3> QED
      BY <1>1, <3>1, <3>2, NamesOfOne
  <2>2. CASE ~LockFree
    <3>1. s \in States \ Active /\ UNCHANGED files
      BY <1>1, <1>2, <2>2 DEF AcquireLock, Active, files
    <3> QED
      BY <1>1, <3>1, NamesOfOthers
  <2> QED
    BY <2>1, <2>2
<1> QED
  BY <1>3, <1>4, <1>5 DEF IInv

(* Every other step of an instance that holds the lock.                    *)
LEMMA HolderIInv ==
  ASSUME IInv, NEW i \in Instances, NEW s \in States \ {"none"},
         state[i] \in Active,
         state' = [state EXCEPT ![i] = s],
         UNCHANGED <<stalled, config, pc, peer>>,
         {lock', socket', discovery'} \subseteq Instances \cup {None},
         s \in Gone \/ state[i] # "closing",
         s \in Active => lock' = lock,
         s \in {"listening", "serving"} => socket' = i,
         s \in {"serving", "closing"} => discovery' = i
  PROVE  IInv'
<1>1. state[i] # "none" /\ state[i] \notin Gone
  BY DEF Active, Gone
<1>2. lock = i
  BY DEF IInv, ActiveHoldsLock
<1>3. \A j \in Instances : j # i => state[j] \notin Active
  BY OneActive
<1>4. TypeOK' /\ Healthless'
  BY <1>1, StepType
<1>5. StopFollowed'
  BY <1>1, StepFollowed
<1>6. ActiveHoldsLock' /\ NamesHeld'
  BY <1>2, <1>3, NamesOfOne
<1> QED
  BY <1>4, <1>5, <1>6 DEF IInv

LEMMA PrepareIInv ==
  ASSUME IInv, NEW i \in Instances, Prepare(i)
  PROVE  IInv'
<1>1. state[i] = "preparing" /\ state' = [state EXCEPT ![i] = "binding"]
  BY DEF Prepare, Run
<1>2. state[i] \in Active /\ state[i] # "closing" /\ "binding" \in States \ {"none"}
  BY <1>1 DEF Active, States
<1>3. UNCHANGED <<stalled, config, pc, peer>> /\ lock' = lock
      /\ {lock', socket', discovery'} \subseteq Instances \cup {None}
  BY DEF Prepare, IInv, TypeOK
<1> QED
  BY <1>1, <1>2, <1>3, HolderIInv

LEMMA ListenIInv ==
  ASSUME IInv, NEW i \in Instances, Listen(i)
  PROVE  IInv'
<1>1. state[i] = "binding" /\ state' = [state EXCEPT ![i] = "listening"]
  BY DEF Listen, Run
<1>2. state[i] \in Active /\ state[i] # "closing" /\ "listening" \in States \ {"none"}
  BY <1>1 DEF Active, States
<1>3. UNCHANGED <<stalled, config, pc, peer>> /\ lock' = lock /\ socket' = i
      /\ {lock', socket', discovery'} \subseteq Instances \cup {None}
  BY DEF Listen, IInv, TypeOK
<1> QED
  BY <1>1, <1>2, <1>3, HolderIInv

LEMMA WriteDiscoveryIInv ==
  ASSUME IInv, NEW i \in Instances, WriteDiscovery(i)
  PROVE  IInv'
<1>1. state[i] = "listening" /\ state' = [state EXCEPT ![i] = "serving"]
  BY DEF WriteDiscovery, Run
<1>2. state[i] \in Active /\ state[i] # "closing" /\ "serving" \in States \ {"none"}
  BY <1>1 DEF Active, States
<1>3. socket = i
  BY <1>1 DEF IInv, NamesHeld
<1>4. UNCHANGED <<stalled, config, pc, peer>> /\ lock' = lock /\ socket' = i /\ discovery' = i
      /\ {lock', socket', discovery'} \subseteq Instances \cup {None}
  BY <1>3 DEF WriteDiscovery, IInv, TypeOK
<1> QED
  BY <1>1, <1>2, <1>4, HolderIInv

LEMMA RollbackIInv ==
  ASSUME IInv, NEW i \in Instances, Rollback(i)
  PROVE  IInv'
<1>1. state[i] \in Active /\ state' = [state EXCEPT ![i] = "exited"]
  BY DEF Rollback, Run, Active
<1>2. "exited" \in States \ {"none"} /\ "exited" \in Gone /\ "exited" \notin Active
  BY DEF States, Gone, Active
<1>3. UNCHANGED <<stalled, config, pc, peer>>
      /\ {lock', socket', discovery'} \subseteq Instances \cup {None}
  BY DEF Rollback, LockReleased, IInv, TypeOK
<1> QED
  BY <1>1, <1>2, <1>3, HolderIInv

LEMMA DrainedIInv ==
  ASSUME IInv, NEW i \in Instances, Drained(i)
  PROVE  IInv'
<1>1. state[i] \in Active /\ state' = [state EXCEPT ![i] = "exited"]
  BY DEF Drained, Run, Active
<1>2. "exited" \in States \ {"none"} /\ "exited" \in Gone /\ "exited" \notin Active
  BY DEF States, Gone, Active
<1>3. UNCHANGED <<stalled, config, pc, peer>>
      /\ {lock', socket', discovery'} \subseteq Instances \cup {None}
  BY DEF Drained, LockReleased, IInv, TypeOK
<1> QED
  BY <1>1, <1>2, <1>3, HolderIInv

(* Close keeps the lock and the discovery file; that is all it takes.      *)
LEMMA CloseKeeps ==
  ASSUME IInv, NEW i \in Instances, Close(i)
  PROVE  /\ state[i] = "serving" /\ state' = [state EXCEPT ![i] = "closing"]
         /\ state[i] \in Active /\ "closing" \in States \ {"none"}
         /\ lock' = lock /\ discovery' = i
         /\ UNCHANGED <<stalled, config>>
         /\ {lock', socket', discovery'} \subseteq Instances \cup {None}
<1>1. state[i] = "serving" /\ state' = [state EXCEPT ![i] = "closing"]
  BY DEF Close, Run
<1>2. discovery = i
  BY <1>1 DEF IInv, NamesHeld
<1>3. lock' = lock /\ socket' = None /\ UNCHANGED <<stalled, config, discovery>>
  BY DEF Close, LockWhileClosing
<1> QED
  BY <1>1, <1>2, <1>3 DEF IInv, TypeOK, Active, States

LEMMA TerminateIInv ==
  ASSUME IInv, NEW i \in Instances, Terminate(i)
  PROVE  IInv'
<1>1. Close(i) /\ UNCHANGED <<pc, peer>>
  BY DEF Terminate
<1> QED
  BY <1>1, CloseKeeps, HolderIInv

LEMMA CrashIInv ==
  ASSUME IInv, NEW i \in Instances, Crash(i)
  PROVE  IInv'
<1>1. state[i] \notin Gone \cup {"none"} /\ state' = [state EXCEPT ![i] = "dead"]
  BY DEF Crash, Gone, Active
<1>2. "dead" \in States \ {"none"} /\ "dead" \in Gone /\ "dead" \in States \ Active
  BY DEF States, Gone, Active
<1>3. stalled' = stalled
  BY DEF Crash, IInv, TypeOK, Healthless
<1>4. UNCHANGED <<config, files, pc, peer>>
  BY DEF Crash
<1>5. {lock', socket', discovery'} \subseteq Instances \cup {None}
  BY <1>4 DEF files, IInv, TypeOK
<1>6. TypeOK' /\ Healthless'
  BY <1>1, <1>2, <1>3, <1>4, <1>5, StepType
<1>7. StopFollowed'
  BY <1>1, <1>2, <1>4, StepFollowed
<1>8. ActiveHoldsLock' /\ NamesHeld'
  BY <1>1, <1>2, <1>4, NamesOfOthers
<1> QED
  BY <1>6, <1>7, <1>8 DEF IInv

(* An instance that is active has its lock: its heartbeat finds it.        *)
LEMMA NeverCompromised ==
  ASSUME IInv, NEW i \in Instances
  PROVE  ~Compromised(i)
BY DEF Compromised, Run, IInv, ActiveHoldsLock

-----------------------------------------------------------------------------
(* The steps of a client.                                                  *)
LEMMA ClientIInv ==
  ASSUME IInv, NEW c \in Clients, NEW p \in Places, NEW i \in Instances \cup {None},
         UNCHANGED <<state, stalled, config, files>>,
         pc' = [pc EXCEPT ![c] = p],
         peer' = [peer EXCEPT ![c] = i],
         p \in {"signalling", "signalled", "stopped"} => i \in Instances,
         p = "signalled" => state[i] \in {"closing"} \cup Gone,
         p = "stopped" => state[i] \in Gone
  PROVE  IInv'
<1>1. pc \in [Clients -> Places] /\ peer \in [Clients -> Instances \cup {None}]
  BY DEF IInv, TypeOK, Places
<1>2. pc' \in [Clients -> Places] /\ peer' \in [Clients -> Instances \cup {None}]
  BY <1>1
<1>3. lock' = lock /\ socket' = socket /\ discovery' = discovery
  BY DEF files
<1>4. TypeOK'
  BY <1>2, <1>3 DEF IInv, TypeOK, Places, Configs, Active
<1>5. Healthless' /\ ActiveHoldsLock' /\ NamesHeld'
  BY <1>3 DEF IInv, Healthless, ActiveHoldsLock, NamesHeld
<1>6. StopFollowed'
  <2> SUFFICES ASSUME NEW d \in Clients
               PROVE  /\ pc'[d] \in {"signalling", "signalled", "stopped"} => peer'[d] \in Instances
                      /\ pc'[d] = "signalled" => state[peer'[d]] \in {"closing"} \cup Gone
                      /\ pc'[d] = "stopped" => state[peer'[d]] \in Gone
    BY DEF StopFollowed, Gone
  <2>1. CASE d = c
    BY <1>1, <2>1
  <2>2. CASE d # c
    <3>1. pc'[d] = pc[d] /\ peer'[d] = peer[d]
      BY <1>1, <2>2
    <3> QED
      BY <3>1 DEF IInv, StopFollowed
  <2> QED
    BY <2>1, <2>2
<1> QED
  BY <1>4, <1>5, <1>6 DEF IInv

(* A client that stays with the peer it has.                               *)
LEMMA SamePeer ==
  ASSUME IInv, NEW c \in Clients
  PROVE  peer[c] \in Instances \cup {None} /\ peer = [peer EXCEPT ![c] = peer[c]]
BY DEF IInv, TypeOK

LEMMA EnsureIInv ==
  ASSUME IInv, NEW c \in Clients,
         ReadDiscovery(c) \/ Reuse(c) \/ PollReady(c) \/ GiveUp(c)
  PROVE  IInv'
<1>1. peer[c] \in Instances \cup {None} /\ peer = [peer EXCEPT ![c] = peer[c]]
      /\ discovery \in Instances \cup {None}
  BY SamePeer DEF IInv, TypeOK
<1>2. PICK p \in {"read", "connected", "refused", "failed"} : pc' = [pc EXCEPT ![c] = p]
  BY DEF ReadDiscovery, Reuse, PollReady, GiveUp
<1>3. PICK i \in Instances \cup {None} : peer' = [peer EXCEPT ![c] = i]
  BY <1>1 DEF ReadDiscovery, Reuse, PollReady, GiveUp, Found
<1>4. UNCHANGED <<state, stalled, config, files>>
  BY DEF ReadDiscovery, Reuse, PollReady, GiveUp
<1>5. p \in Places
  BY DEF Places
<1> QED
  BY <1>2, <1>3, <1>4, <1>5, ClientIInv

LEMMA ReadToStopIInv ==
  ASSUME IInv, NEW c \in Clients, ReadToStop(c)
  PROVE  IInv'
<1>1. discovery \in Instances \cup {None}
  BY DEF IInv, TypeOK
<1>2. PICK p \in {"failed", "confirming"} : pc' = [pc EXCEPT ![c] = p]
  BY DEF ReadToStop
<1>3. peer' = [peer EXCEPT ![c] = discovery] /\ UNCHANGED <<state, stalled, config, files>>
  BY DEF ReadToStop
<1>4. p \in Places
  BY DEF Places
<1> QED
  BY <1>1, <1>2, <1>3, <1>4, ClientIInv

LEMMA ConfirmIInv ==
  ASSUME IInv, NEW c \in Clients, Confirm(c)
  PROVE  IInv'
<1> DEFINE p == IF Healthy(peer[c]) THEN "signalling" ELSE "failed"
<1>1. peer[c] \in Instances \cup {None} /\ peer = [peer EXCEPT ![c] = peer[c]]
  BY SamePeer
<1>2. pc' = [pc EXCEPT ![c] = p] /\ peer' = peer /\ UNCHANGED <<state, stalled, config, files>>
  BY DEF Confirm
<1>3. p \in Places /\ p \notin {"signalled", "stopped"}
  BY DEF Places
<1>4. p = "signalling" => peer[c] \in Instances
  BY <1>1 DEF Healthy
<1> HIDE DEF p
<1> QED
  BY <1>1, <1>2, <1>3, <1>4, ClientIInv

(* The discovery file of a daemon stays until the end of its drain: when   *)
(* it is gone, so is the daemon.                                           *)
LEMMA PollStoppedIInv ==
  ASSUME IInv, NEW c \in Clients, PollStopped(c)
  PROVE  IInv'
<1> DEFINE p == IF SeenGone(c) THEN "stopped" ELSE "failed"
<1>1. pc[c] = "signalled" /\ pc' = [pc EXCEPT ![c] = p]
      /\ peer' = peer /\ UNCHANGED <<state, stalled, config, files>>
  BY DEF PollStopped
<1>2. peer[c] \in Instances /\ state[peer[c]] \in {"closing"} \cup Gone
      /\ peer = [peer EXCEPT ![c] = peer[c]]
  BY <1>1, SamePeer DEF IInv, StopFollowed
<1>3. p \in Places /\ p \notin {"signalling", "signalled"}
  BY DEF Places
<1>4. p = "stopped" => state[peer[c]] \in Gone
  <2>1. SUFFICES ASSUME SeenGone(c), state[peer[c]] = "closing" PROVE FALSE
    BY <1>2
  <2>2. discovery = peer[c]
    BY <1>2, <2>1 DEF IInv, NamesHeld
  <2>3. peer[c] # None
    BY <1>2, LifecycleAssumption
  <2> QED
    BY <2>1, <2>2, <2>3 DEF SeenGone, Gone
<1> HIDE DEF p
<1> QED
  BY <1>1, <1>2, <1>3, <1>4, ClientIInv

(* A signal to one instance, that other clients may be stopping as well.   *)
LEMMA SignalIInv ==
  ASSUME IInv, NEW c \in Clients, Signal(c)
  PROVE  IInv'
<1> DEFINE i == peer[c]
           p == IF state[i] \in Gone THEN "stopped" ELSE "signalled"
<1>1. pc[c] = "signalling" /\ pc' = [pc EXCEPT ![c] = p] /\ peer' = peer
  BY DEF Signal
<1>2. i \in Instances /\ peer = [peer EXCEPT ![c] = i] /\ state \in [Instances -> States]
  BY <1>1, SamePeer DEF IInv, StopFollowed, TypeOK, States
<1>3. p \in Places /\ p # "signalling" /\ (p = "stopped" => state[i] \in Gone)
  BY DEF Places
<1>4. ASSUME NEW s \in States \ {"none"}, state[i] \in Active,
             s \in {"closing", "dead"},
             state' = [state EXCEPT ![i] = s],
             UNCHANGED <<stalled, config>>,
             {lock', socket', discovery'} \subseteq Instances \cup {None},
             lock' = lock, s = "closing" => discovery' = i,
             s \in Gone \/ state[i] # "closing"
      PROVE  IInv'
  <2>1. state[i] \notin Gone /\ state[i] # "none" /\ p = "signalled"
    BY <1>4 DEF Gone, Active
  <2>2. \A j \in Instances : state'[j] = IF j = i THEN s ELSE state[j]
    BY <1>2, <1>4
  <2>3. pc \in [Clients -> Places] /\ pc' \in [Clients -> Places]
    BY <1>1, <1>3 DEF IInv, TypeOK, Places
  <2>4. TypeOK'
    <3>1. state' \in [Instances -> States]
      BY <1>2, <1>4
    <3>2. \A j \in Instances : state'[j] # "none" => config'[j] \in Configs
      BY <1>4, <2>1, <2>2 DEF IInv, TypeOK
    <3> QED
      BY <1>1, <1>4, <2>3, <3>1, <3>2 DEF IInv, TypeOK, States, Places, Configs, Active
  <2>5. Healthless'
    BY <1>4 DEF IInv, Healthless
  <2>6. ActiveHoldsLock' /\ NamesHeld'
    <3>1. \A j \in Instances : j # i => state[j] \notin Active
      BY <1>2, <1>4, OneActive
    <3>2. lock' = i /\ s \notin {"listening", "serving"}
      BY <1>2, <1>4 DEF IInv, ActiveHoldsLock
    <3> HIDE DEF i
    <3> QED
      BY <1>2, <1>4, <3>1, <3>2, NamesOfOne
  <2>7. StopFollowed'
    <3> SUFFICES ASSUME NEW d \in Clients
                 PROVE  /\ pc'[d] \in {"signalling", "signalled", "stopped"} => peer[d] \in Instances
                        /\ pc'[d] = "signalled" => state'[peer[d]] \in {"closing"} \cup Gone
                        /\ pc'[d] = "stopped" => state'[peer[d]] \in Gone
      BY <1>1 DEF StopFollowed, Gone
    <3>1. CASE d = c
      BY <1>1, <1>2, <1>4, <2>1, <2>2, <2>3, <3>1 DEF Gone
    <3>2. CASE d # c
      <4>1. pc'[d] = pc[d]
        BY <1>1, <2>3, <3>2
      <4>2. s \in {"closing"} \cup Gone
        BY <1>4 DEF Gone
      <4> QED
        BY <2>1, <2>2, <4>1, <4>2 DEF IInv, StopFollowed
    <3> QED
      BY <3>1, <3>2
  <2> QED
    BY <2>4, <2>5, <2>6, <2>7 DEF IInv
<1>5. CASE Close(i)
  BY <1>2, <1>4, <1>5, CloseKeeps
<1>6. CASE state[i] = "closing" /\ state' = [state EXCEPT ![i] = "dead"] /\ UNCHANGED <<stalled, config, files>>
  <2>1. state[i] \in Active /\ "dead" \in States \ {"none"} /\ "dead" \in Gone
    BY <1>6 DEF Active, States, Gone
  <2>2. UNCHANGED <<stalled, config>> /\ lock' = lock
        /\ {lock', socket', discovery'} \subseteq Instances \cup {None}
    BY <1>6 DEF files, IInv, TypeOK
  <2> QED
    BY <1>4, <1>6, <2>1, <2>2
<1>7. CASE (state[i] \in Gone \/ stalled[i]) /\ UNCHANGED <<state, stalled, config, files>>
  <2>1. state[i] \in Gone
    BY <1>2, <1>7 DEF IInv, Healthless
  <2> HIDE DEF i, p
  <2>2. p # "signalled"
    BY <2>1 DEF p
  <2> QED
    BY <1>1, <1>2, <1>3, <1>7, <2>1, <2>2, ClientIInv
<1> QED
  BY <1>5, <1>6, <1>7 DEF Signal

LEMMA LaunchIInv ==
  ASSUME IInv, NEW c \in Clients, NEW i \in Instances, Launch(c, i)
  PROVE  IInv'
<1>1. state[i] = "none" /\ state' = [state EXCEPT ![i] = "starting"]
      /\ config' = [config EXCEPT ![i] = Wants[c]]
      /\ pc' = [pc EXCEPT ![c] = "waiting"] /\ UNCHANGED <<stalled, files, peer>>
  BY DEF Launch, OurConfig
<1>2. state \in [Instances -> States] /\ pc \in [Clients -> Places]
      /\ config \in [Instances -> Configs \cup {None}] /\ Wants[c] \in Configs
  BY DEF IInv, TypeOK, States, Places, Configs
<1>3. \A j \in Instances : state'[j] = IF j = i THEN "starting" ELSE state[j]
  BY <1>1, <1>2
<1>4. "starting" \in States \ Active /\ "waiting" \in Places
  BY DEF States, Active, Places
<1>5. TypeOK'
  <2>1. state' \in [Instances -> States] /\ pc' \in [Clients -> Places]
    BY <1>1, <1>2, <1>4
  <2>2. config' \in [Instances -> Configs \cup {None}]
    BY <1>1, <1>2
  <2>3. \A j \in Instances : state'[j] # "none" => config'[j] \in Configs
    BY <1>1, <1>2, <1>3 DEF IInv, TypeOK
  <2>4. lock' = lock /\ socket' = socket /\ discovery' = discovery
    BY <1>1 DEF files
  <2> QED
    BY <1>1, <2>1, <2>2, <2>3, <2>4 DEF IInv, TypeOK, States, Places, Configs, Active
<1>6. Healthless'
  BY <1>1 DEF IInv, Healthless
<1>7. ActiveHoldsLock' /\ NamesHeld'
  BY <1>1, <1>4, NamesOfOthers
<1>8. StopFollowed'
  <2> SUFFICES ASSUME NEW d \in Clients
               PROVE  /\ pc'[d] \in {"signalling", "signalled", "stopped"} => peer[d] \in Instances
                      /\ pc'[d] = "signalled" => state'[peer[d]] \in {"closing"} \cup Gone
                      /\ pc'[d] = "stopped" => state'[peer[d]] \in Gone
    BY <1>1 DEF StopFollowed, Gone
  <2>1. pc'[d] = "waiting" \/ pc'[d] = pc[d]
    BY <1>1, <1>2
  <2>2. \A j \in Instances : state[j] \in {"closing"} \cup Gone => state'[j] = state[j]
    BY <1>1, <1>3 DEF Gone
  <2> QED
    BY <2>1, <2>2 DEF IInv, StopFollowed
<1> QED
  BY <1>5, <1>6, <1>7, <1>8 DEF IInv

-----------------------------------------------------------------------------
(* The inductive invariant holds in every state, as long as no process     *)
(* stalls.                                                                 *)
THEOREM LifecycleInvariant ==
  ASSUME ~MayStall
  PROVE  Spec => []IInv
<1>1. IInv /\ [Next]_vars => IInv'
  <2> SUFFICES ASSUME IInv, [Next]_vars PROVE IInv'
    OBVIOUS
  <2>1. CASE UNCHANGED vars
    BY <2>1 DEF vars, files, IInv, TypeOK, Healthless, ActiveHoldsLock, NamesHeld, StopFollowed,
                Configs, Active, Gone
  <2>2. ASSUME NEW i \in Instances,
               \/ Start(i) \/ Rollback(i) \/ Terminate(i) \/ Drained(i)
               \/ Crash(i) \/ Stall(i) \/ Compromised(i)
        PROVE  IInv'
    <3>1. ~Stall(i)
      BY DEF Stall
    <3> QED
      BY <2>2, <3>1, AcquireLockIInv, PrepareIInv, ListenIInv, WriteDiscoveryIInv, RollbackIInv,
         TerminateIInv, DrainedIInv, CrashIInv, NeverCompromised DEF Start
  <2>3. ASSUME NEW c \in Clients,
               \/ ReadDiscovery(c) \/ Reuse(c) \/ PollReady(c) \/ GiveUp(c)
               \/ ReadToStop(c) \/ Confirm(c) \/ Signal(c) \/ PollStopped(c)
        PROVE  IInv'
    BY <2>3, EnsureIInv, ReadToStopIInv, ConfirmIInv, SignalIInv, PollStoppedIInv
  <2>4. ASSUME NEW c \in Clients, NEW i \in Instances, Launch(c, i) PROVE IInv'
    BY <2>4, LaunchIInv
  <2> QED
    BY <2>1, <2>2, <2>3, <2>4 DEF Next
<1> QED
  BY InitIInv, <1>1, PTL DEF Spec

(* D14, bootstrap.ts:95-97: however many daemons are launched, stopped and *)
(* crash, in any order, two of them never write the database.              *)
THEOREM NeverTwoWriters ==
  ASSUME ~MayStall
  PROVE  Spec => []LifecycleInv
<1>1. IInv => LifecycleInv
  <2> SUFFICES ASSUME IInv PROVE TypeOK /\ Cardinality(Writers) <= 1
    BY DEF LifecycleInv, OneWriter
  <2>1. TypeOK
    BY DEF IInv
  <2>2. Writers \subseteq {lock}
    BY DEF Writers, IInv, ActiveHoldsLock
  <2>3. IsFiniteSet({lock}) /\ Cardinality({lock}) = 1
    BY FS_Singleton
  <2>4. Cardinality(Writers) <= Cardinality({lock})
    BY <2>2, <2>3, FS_Subset
  <2> QED
    BY <2>1, <2>3, <2>4
<1> QED
  BY LifecycleInvariant, <1>1, PTL

(* A daemon that serves is the one that clients find: no other instance    *)
(* takes away its socket or its discovery file.                            *)
THEOREM ServingIsFound ==
  ASSUME ~MayStall
  PROVE  Spec => []ServingIsDiscoverable
<1>1. IInv => ServingIsDiscoverable
  BY DEF IInv, NamesHeld, ServingIsDiscoverable
<1> QED
  BY LifecycleInvariant, <1>1, PTL

(* A daemon that was reported stopped writes no more.                      *)
THEOREM StoppedMeansOver ==
  ASSUME ~MayStall
  PROVE  Spec => []StopReported
<1>1. IInv => StopReported
  <2> SUFFICES ASSUME IInv, NEW c \in Clients, pc[c] = "stopped" PROVE peer[c] \notin Writers
    BY DEF StopReported
  <2>1. state[peer[c]] \in Gone
    BY DEF IInv, StopFollowed
  <2> QED
    BY <2>1 DEF Gone, Writers, Active
<1> QED
  BY LifecycleInvariant, <1>1, PTL
=============================================================================
