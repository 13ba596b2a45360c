----------------------------- MODULE Lifecycle -----------------------------
(***************************************************************************)
(* Daemon instances that start, stop, crash and stall, and the clients     *)
(* that find or start one (packages/daemon bootstrap and lifecycle,        *)
(* command-core daemon-control). They share three names in the runtime     *)
(* directory: the lock, the unix socket and the discovery file.            *)
(***************************************************************************)
EXTENDS Integers, FiniteSets

CONSTANTS
  Instances,  (* Bound: daemon processes ever launched.                     *)
  Clients,    (* Callers of ensureDaemonRunning or stopDaemonCommand.       *)
  Wants,      (* The config file each client intends to use.                *)
  MayStall,   (* May a daemon stop beating for longer than staleMs?         *)
  None

ASSUME LifecycleAssumption ==
  /\ MayStall \in BOOLEAN
  /\ None \notin Instances

VARIABLES
  state,      (* Where each instance is in startDaemon and stop.            *)
  stalled,    (* Is it suspended, or its event loop blocked?                *)
  config,     (* The config file it was launched with.                      *)
  lock,       (* The instance named by the lock directory.                  *)
  socket,     (* The instance whose listener is bound to the socket path.   *)
  discovery,  (* The instance whose endpoint and token are published.       *)
  pc,         (* Where each client is in its command.                       *)
  peer        (* The instance a client read of, then is connected to.       *)

files == <<lock, socket, discovery>>
vars == <<state, stalled, config, files, pc, peer>>

Configs == {Wants[c] : c \in Clients}

Init ==
  /\ state     = [i \in Instances |-> "none"]
  /\ stalled   = [i \in Instances |-> FALSE]
  /\ config    = [i \in Instances |-> None]
  /\ lock      = None
  /\ socket    = None
  /\ discovery = None
  /\ pc        = [c \in Clients |-> "idle"]
  /\ peer      = [c \in Clients |-> None]

Active == {"preparing", "binding", "listening", "serving", "closing"}

(***************************************************************************)
(* startDaemon. The lock is held by a live heartbeat; that of a process    *)
(* that crashed, or stalls, goes stale and may be taken over.              *)
(***************************************************************************)
(* Mutated: a lock is stale while its owner is merely not serving yet.     *)
StaleUnlessServing == state[lock] # "serving"

Stale == state[lock] = "dead" \/ stalled[lock]

LockFree == lock = None \/ Stale

Run(i, from, to) ==
  /\ state[i] = from
  /\ ~stalled[i]
  /\ state' = [state EXCEPT ![i] = to]

AcquireLock(i) ==
  /\ Run(i, "starting", IF LockFree THEN "preparing" ELSE "lost")
  /\ lock' = IF LockFree THEN i ELSE lock
  /\ UNCHANGED <<stalled, config, socket, discovery, pc, peer>>

(* Config and store opened, reconcile, sweep; then chooseTarget removes    *)
(* whatever is at the socket path.                                         *)
Prepare(i) ==
  /\ Run(i, "preparing", "binding")
  /\ socket' = None
  /\ UNCHANGED <<stalled, config, lock, discovery, pc, peer>>

Listen(i) ==
  /\ Run(i, "binding", "listening")
  /\ socket' = i
  /\ UNCHANGED <<stalled, config, lock, discovery, pc, peer>>

WriteDiscovery(i) ==
  /\ Run(i, "listening", "serving")
  /\ discovery' = i
  /\ UNCHANGED <<stalled, config, lock, socket, pc, peer>>

(* The lock directory is removed by its name, whoever made it.             *)
LockReleased == None

(* A failed start is rolled back; a server that listens is closed, which   *)
(* removes its socket path.                                                *)
Rollback(i) ==
  /\ \E from \in {"preparing", "binding", "listening"} : Run(i, from, "exited")
  /\ socket' = IF state[i] = "listening" THEN None ELSE socket
  /\ discovery' = None
  /\ lock' = LockReleased
  /\ UNCHANGED <<stalled, config, pc, peer>>

(***************************************************************************)
(* stop, on a signal or by daemon stop: the server is closed first, then   *)
(* the rounds drain, and at last the names are removed. A step that throws *)
(* skips the rest but the lock.                                            *)
(***************************************************************************)
(* Mutated: the lock is given back before the rounds have drained.         *)
LockFreedEarly == None

LockWhileClosing == lock

Close(i) ==
  /\ Run(i, "serving", "closing")
  /\ socket' = None
  /\ lock' = LockWhileClosing
  /\ UNCHANGED <<stalled, config, discovery>>

(* A signal that no client of this module sent.                            *)
Terminate(i) == Close(i) /\ UNCHANGED <<pc, peer>>

Drained(i) ==
  /\ Run(i, "closing", "exited")
  /\ \/ socket' = None /\ discovery' = None
     \/ UNCHANGED <<socket, discovery>>
  /\ lock' = LockReleased
  /\ UNCHANGED <<stalled, config, pc, peer>>

(***************************************************************************)
(* A process dies, or stops for longer than the lock's heartbeat allows    *)
(* and goes on; its heartbeat then finds the lock taken and exits.         *)
(***************************************************************************)
Crash(i) ==
  /\ state[i] \in Active \cup {"starting"}
  /\ state' = [state EXCEPT ![i] = "dead"]
  /\ stalled' = [stalled EXCEPT ![i] = FALSE]
  /\ UNCHANGED <<config, files, pc, peer>>

Stall(i) ==
  /\ MayStall
  /\ state[i] \in Active
  /\ stalled' = [stalled EXCEPT ![i] = ~stalled[i]]
  /\ UNCHANGED <<state, config, files, pc, peer>>

(* Mutated: the loss of the lock is only noted.                            *)
KeepsGoing(i) == state[i]

FailStop(i) == "dead"

Compromised(i) ==
  /\ lock # i
  /\ \E from \in Active : Run(i, from, FailStop(i))
  /\ UNCHANGED <<stalled, config, files, pc, peer>>

(***************************************************************************)
(* ensureDaemonRunning. The discovery file is read, then the daemon asked  *)
(* for its health: it answers when it is bound to the socket and the token *)
(* is its own.                                                             *)
(***************************************************************************)
Healthy(i) ==
  /\ i # None /\ socket = i
  /\ state[i] \in {"listening", "serving"} /\ ~stalled[i]

ReadDiscovery(c) ==
  /\ pc[c] = "idle"
  /\ pc' = [pc EXCEPT ![c] = "read"]
  /\ peer' = [peer EXCEPT ![c] = discovery]
  /\ UNCHANGED <<state, stalled, config, files>>

Reuse(c) ==
  /\ pc[c] = "read"
  /\ Healthy(peer[c])
  /\ pc' = [pc EXCEPT ![c] = IF config[peer[c]] = Wants[c] THEN "connected" ELSE "refused"]
  /\ UNCHANGED <<state, stalled, config, files, peer>>

OurConfig(c) == Wants[c]

Launch(c, i) ==
  /\ pc[c] = "read"
  /\ ~Healthy(peer[c])
  /\ state[i] = "none"
  /\ state' = [state EXCEPT ![i] = "starting"]
  /\ config' = [config EXCEPT ![i] = OurConfig(c)]
  /\ pc' = [pc EXCEPT ![c] = "waiting"]
  /\ UNCHANGED <<stalled, files, peer>>

(* Mutated: the file read before the launch is trusted.                    *)
Remembered(c) == peer[c]

(* Re-read in every attempt.                                               *)
Found(c) == discovery

PollReady(c) ==
  /\ pc[c] = "waiting"
  /\ Healthy(Found(c))
  /\ pc' = [pc EXCEPT ![c] = "connected"]
  /\ peer' = [peer EXCEPT ![c] = Found(c)]
  /\ UNCHANGED <<state, stalled, config, files>>

GiveUp(c) ==
  /\ pc[c] = "waiting"
  /\ pc' = [pc EXCEPT ![c] = "failed"]
  /\ UNCHANGED <<state, stalled, config, files, peer>>

(***************************************************************************)
(* stopDaemonCommand. A daemon is signalled only once it has confirmed its *)
(* pid over its socket; it may be gone, closing or stalled by then. Its    *)
(* handler takes the first signal, and a second one kills it; one sent to  *)
(* a stalled process waits until it goes on (Terminate).                   *)
(***************************************************************************)
Gone == {"exited", "dead"}

ReadToStop(c) ==
  /\ pc[c] = "idle"
  /\ pc' = [pc EXCEPT ![c] = IF discovery = None THEN "failed" ELSE "confirming"]
  /\ peer' = [peer EXCEPT ![c] = discovery]
  /\ UNCHANGED <<state, stalled, config, files>>

Confirm(c) ==
  /\ pc[c] = "confirming"
  /\ pc' = [pc EXCEPT ![c] = IF Healthy(peer[c]) THEN "signalling" ELSE "failed"]
  /\ UNCHANGED <<state, stalled, config, files, peer>>

Signal(c) ==
  LET i == peer[c]
  IN  /\ pc[c] = "signalling"
      /\ pc' = [pc EXCEPT ![c] = IF state[i] \in Gone THEN "stopped" ELSE "signalled"]
      /\ \/ Close(i)
         \/ /\ state[i] = "closing" /\ ~stalled[i]
            /\ state' = [state EXCEPT ![i] = "dead"]
            /\ UNCHANGED <<stalled, config, files>>
         \/ /\ state[i] \in Gone \/ stalled[i]
            /\ UNCHANGED <<state, stalled, config, files>>
      /\ UNCHANGED peer

(* Mutated: a daemon that no longer answers is taken to have stopped.      *)
Silent(c) == ~Healthy(peer[c])

SeenGone(c) == state[peer[c]] \in Gone \/ discovery = None

PollStopped(c) ==
  /\ pc[c] = "signalled"
  /\ pc' = [pc EXCEPT ![c] = IF SeenGone(c) THEN "stopped" ELSE "failed"]
  /\ UNCHANGED <<state, stalled, config, files, peer>>

(***************************************************************************)
(* The specification.                                                      *)
(***************************************************************************)
Start(i) == AcquireLock(i) \/ Prepare(i) \/ Listen(i) \/ WriteDiscovery(i)

Next ==
  \/ \E i \in Instances :
       \/ Start(i) \/ Rollback(i) \/ Terminate(i) \/ Drained(i)
       \/ Crash(i) \/ Stall(i) \/ Compromised(i)
  \/ \E c \in Clients :
       \/ ReadDiscovery(c) \/ Reuse(c) \/ PollReady(c) \/ GiveUp(c)
       \/ ReadToStop(c) \/ Confirm(c) \/ Signal(c) \/ PollStopped(c)
  \/ \E c \in Clients, i \in Instances : Launch(c, i)

Spec == Init /\ [][Next]_vars

(* A launched process gets on with its start, its heartbeat timer fires    *)
(* when it is not stalled, and a waiting client polls.                     *)
Fairness ==
  /\ \A i \in Instances : WF_vars(Start(i)) /\ WF_vars(Compromised(i))
  /\ \A c \in Clients : WF_vars(PollReady(c))

FairSpec == Spec /\ Fairness

(***************************************************************************)
(* Properties.                                                             *)
(***************************************************************************)

(* Type invariant; every process launched has a config of some client.     *)
TypeOK ==
  /\ state \in [Instances -> Active \cup {"none", "starting", "lost", "exited", "dead"}]
  /\ stalled \in [Instances -> BOOLEAN]
  /\ config \in [Instances -> Configs \cup {None}]
  /\ \A i \in Instances : state[i] # "none" => config[i] \in Configs
  /\ {lock, socket, discovery} \subseteq Instances \cup {None}
  /\ pc \in [Clients -> {"idle", "read", "waiting", "connected", "refused", "failed",
                        "confirming", "signalling", "signalled", "stopped"}]
  /\ peer \in [Clients -> Instances \cup {None}]

(* bootstrap.ts:95-97: two daemons never write the same SQLite database.   *)
(* From the lock on (reconcile) to the end of the drain an instance may    *)
(* write whenever it runs.                                                 *)
Writers == {i \in Instances : state[i] \in Active /\ ~stalled[i]}

OneWriter == Cardinality(Writers) <= 1

LifecycleInv == TypeOK /\ OneWriter

(* When daemons stall and two do write, the one that lost its lock notices *)
(* and stops itself (onCompromised), even when the old one, back at work,  *)
(* has removed the lock of its successor.                                  *)
TwoWriters == Cardinality(Writers) > 1

SplitBrainHeals == TwoWriters ~> ~TwoWriters

(* A daemon that serves can be found, and is the one that is found:        *)
(* nothing a predecessor leaves or cleans up, a failed start rolls back or *)
(* a loser of the race does takes away its discovery file or its socket.   *)
ServingIsDiscoverable ==
  \A i \in Instances : state[i] = "serving" => discovery = i /\ socket = i

(* What daemon stop reports as stopped is over: the daemon it signalled    *)
(* writes no more, although it drains its rounds after it went silent, and *)
(* although another daemon may be starting under the same names.           *)
StopReported ==
  \A c \in Clients : pc[c] = "stopped" => peer[c] \notin Writers

(* D14: a start race resolves to one daemon, and the loser's client gets   *)
(* that one, unless a daemon is stalled, stopped, dies or fails to start   *)
(* meanwhile.                                                              *)
Disturbed == \E i \in Instances : stalled[i] \/ state[i] \in {"closing", "exited", "dead"}

RaceResolves ==
  \A c \in Clients : pc[c] = "waiting" ~> (pc[c] # "waiting" \/ Disturbed)

(* daemon-control.ts:305-309: a daemon is reused only after confirming it  *)
(* loaded the caller's config; a mismatch throws rather than silently      *)
(* dispatching against the wrong config.                                   *)
OwnConfig ==
  \A c \in Clients : pc[c] = "connected" => config[peer[c]] = Wants[c]
=============================================================================
