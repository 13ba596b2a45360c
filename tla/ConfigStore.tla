----------------------------- MODULE ConfigStore -----------------------------
(***************************************************************************)
(* The configuration file (packages/config store.ts) and the commands that *)
(* edit it (packages/command-core config-ops.ts, init.ts). A command loads *)
(* the file, changes one thing and saves the file by a rename, without an  *)
(* await: in one process nothing comes between, in another process         *)
(* everything may. Only adding an agent and init await something first:    *)
(* detect(), of the agent's adapter or of all of them.                     *)
(***************************************************************************)
EXTENDS Integers, FiniteSets

CONSTANTS
  Agents, Panels,  (* The ids in use.                                       *)
  Processes,       (* CLI and TUI processes.                                *)
  MaxQuorum,       (* Bound: the quorums a user asks for.                   *)
  None

ASSUME ConfigAssumption == IsFiniteSet(Agents) /\ MaxQuorum \in Nat

VARIABLES
  file,     (* The config on disk.                                          *)
  pending,  (* What each process has validated and is about to rename.      *)
  probing   (* A command that awaits detect(): the agent to add, or None    *)
            (* for init, the force option, and the file as it was then      *)
            (* (history). Bound: one per process.                           *)

vars == <<file, pending, probing>>

DefaultConfig == [agents |-> {}, panels |-> [p \in Panels |-> None]]

Defined(cfg) == {p \in Panels : cfg.panels[p] # None}

(***************************************************************************)
(* configSchema: what may be saved.                                        *)
(***************************************************************************)
PanelValid(cfg, panel) ==
  /\ panel.members # {}
  /\ panel.members \subseteq cfg.agents
  /\ panel.quorum \in 1..Cardinality(panel.members)

Valid(cfg) == \A p \in Defined(cfg) : PanelValid(cfg, cfg.panels[p])

(***************************************************************************)
(* The edits of store.ts, and when they are refused before validation.     *)
(***************************************************************************)
WithAgent(cfg, a) == [cfg EXCEPT !.agents = @ \cup {a}]

WithPanel(cfg, p, members, quorum) ==
  [cfg EXCEPT !.panels[p] = [members |-> members, quorum |-> quorum]]

WithoutPanel(cfg, p) == [cfg EXCEPT !.panels[p] = None]

(* Mutated: the quorum is left as it is.                                   *)
Unclamped(quorum, members) == quorum

Clamped(quorum, members) ==
  IF quorum > Cardinality(members) THEN Cardinality(members) ELSE quorum

WithoutMember(panel, a) ==
  [members |-> panel.members \ {a}, quorum |-> Clamped(panel.quorum, panel.members \ {a})]

WithoutAgent(cfg, a) ==
  [agents |-> cfg.agents \ {a},
   panels |-> [p \in Panels |->
                 IF p \in Defined(cfg) THEN WithoutMember(cfg.panels[p], a) ELSE None]]

(* init: every agent that was found, and one panel over them with a strict *)
(* majority for its quorum.                                                *)
Empty(cfg) == cfg.agents = {} /\ Defined(cfg) = {}

MajorityPanel(members) == [members |-> members, quorum |-> Cardinality(members) \div 2 + 1]

Seeded(agents, p) ==
  IF agents = {} THEN DefaultConfig
  ELSE [agents |-> agents, panels |-> [DefaultConfig.panels EXCEPT ![p] = MajorityPanel(agents)]]

UsedBy(cfg, a) == {p \in Defined(cfg) : a \in cfg.panels[p].members}

Emptied(cfg, a) == {p \in Defined(cfg) : cfg.panels[p].members \subseteq {a}}

RemovesAgent(cfg, a, force) ==
  /\ a \in cfg.agents
  /\ UsedBy(cfg, a) = {} \/ force
  /\ Emptied(cfg, a) = {}

(***************************************************************************)
(* resolvePanel: the panel that a daemon dispatches to when it loaded cfg  *)
(* and its registry has the adapters of the agents in runnable. A member   *)
(* it cannot run is kept, as unavailable.                                  *)
(***************************************************************************)
Resolved(cfg, p, runnable) ==
  LET panel == cfg.panels[p]
      agents == panel.members \cap cfg.agents \cap runnable
  IN  IF p \in Defined(cfg)
      THEN [quorum |-> panel.quorum, agents |-> agents, unavailable |-> panel.members \ agents]
      ELSE None

(***************************************************************************)
(* A command: load, edit, validate; then save.                             *)
(***************************************************************************)
Init ==
  /\ file    = DefaultConfig
  /\ pending = [x \in Processes |-> None]
  /\ probing = [x \in Processes |-> None]

(* Mutated: saved as it is.                                                *)
Unchecked(cfg) == TRUE

Revalidated(cfg) == Valid(cfg)

Edit(x, cfg) ==
  /\ pending[x] = None
  /\ Revalidated(cfg)
  /\ pending' = [pending EXCEPT ![x] = cfg]
  /\ UNCHANGED file

AwaitDetect(x, a, force) ==
  /\ pending[x] = None
  /\ probing[x] = None
  /\ probing' = [probing EXCEPT ![x] = [agent |-> a, force |-> force, found |-> file]]
  /\ UNCHANGED <<file, pending>>

DetectAdapter(x, a) == AwaitDetect(x, a, FALSE)

DetectAdapters(x) == \E force \in BOOLEAN : AwaitDetect(x, None, force)

Adds(x) == probing[x] # None /\ probing[x].agent # None

Inits(x) == probing[x] # None /\ probing[x].agent = None

(* Mutated: the file is loaded before the await.                           *)
LoadedBeforeDetect(x) == probing[x].found

LoadedForAdd(x) == file

LoadedForInit(x) == file

AddAgent(x) ==
  /\ Adds(x)
  /\ probing[x].agent \notin LoadedForAdd(x).agents
  /\ Edit(x, WithAgent(LoadedForAdd(x), probing[x].agent))
  /\ probing' = [probing EXCEPT ![x] = None]

Seed(x) ==
  /\ Inits(x)
  /\ Empty(LoadedForInit(x)) \/ probing[x].force
  /\ \E agents \in SUBSET Agents, p \in Panels : Edit(x, Seeded(agents, p))
  /\ probing' = [probing EXCEPT ![x] = None]

(* The agent exists already, or the file is not empty.                     *)
Refuse(x) ==
  /\ pending[x] = None
  /\ \/ Adds(x) /\ probing[x].agent \in LoadedForAdd(x).agents
     \/ Inits(x) /\ ~Empty(LoadedForInit(x)) /\ ~probing[x].force
  /\ probing' = [probing EXCEPT ![x] = None]
  /\ UNCHANGED <<file, pending>>

RemoveAgent(x, a, force) ==
  /\ RemovesAgent(file, a, force)
  /\ Edit(x, WithoutAgent(file, a))
  /\ UNCHANGED probing

CreatePanel(x, p, members, quorum) ==
  /\ p \notin Defined(file)
  /\ Edit(x, WithPanel(file, p, members, quorum))
  /\ UNCHANGED probing

PanelAddAgent(x, p, a) ==
  /\ p \in Defined(file)
  /\ a \notin file.panels[p].members
  /\ Edit(x, WithPanel(file, p, file.panels[p].members \cup {a}, file.panels[p].quorum))
  /\ UNCHANGED probing

PanelRemoveAgent(x, p, a) ==
  /\ p \in Defined(file)
  /\ Edit(x, [file EXCEPT !.panels[p] = WithoutMember(@, a)])
  /\ UNCHANGED probing

SetQuorum(x, p, quorum) ==
  /\ p \in Defined(file)
  /\ Edit(x, WithPanel(file, p, file.panels[p].members, quorum))
  /\ UNCHANGED probing

RemovePanel(x, p) ==
  /\ p \in Defined(file)
  /\ Edit(x, WithoutPanel(file, p))
  /\ UNCHANGED probing

(* Written aside, it leaves the file as it was.                            *)
NotRenamed(x) == file

(* The rename; a process may die, or fail to write, before it.             *)
Save(x) ==
  /\ pending[x] # None
  /\ file' \in {pending[x], NotRenamed(x)}
  /\ pending' = [pending EXCEPT ![x] = None]
  /\ UNCHANGED probing

AgentCommand(x, a) ==
  \/ DetectAdapter(x, a)
  \/ \E force \in BOOLEAN : RemoveAgent(x, a, force)
  \/ \E p \in Panels : PanelAddAgent(x, p, a) \/ PanelRemoveAgent(x, p, a)

PanelCommand(x, p) ==
  \/ \E members \in SUBSET Agents, quorum \in 0..MaxQuorum : CreatePanel(x, p, members, quorum)
  \/ \E quorum \in 0..MaxQuorum : SetQuorum(x, p, quorum)
  \/ RemovePanel(x, p)

Next ==
  \E x \in Processes :
    \/ \E a \in Agents : AgentCommand(x, a)
    \/ \E p \in Panels : PanelCommand(x, p)
    \/ DetectAdapters(x) \/ Seed(x)
    \/ AddAgent(x) \/ Refuse(x) \/ Save(x)

Spec == Init /\ [][Next]_vars

(***************************************************************************)
(* Properties.                                                             *)
(***************************************************************************)

(* The shape of a config, and the type invariant.                          *)
ConfigShape ==
  [agents : SUBSET Agents,
   panels : [Panels -> [members : SUBSET Agents, quorum : Nat] \cup {None}]]

Probe == [agent : Agents \cup {None}, force : BOOLEAN, found : ConfigShape]

TypeOK ==
  /\ file \in ConfigShape
  /\ pending \in [Processes -> ConfigShape \cup {None}]
  /\ probing \in [Processes -> Probe \cup {None}]

(* However the commands of several processes interleave, the file on disk  *)
(* is one that every loadConfig accepts: no panel is empty, names an agent *)
(* that is gone, or asks for a quorum it cannot reach.                     *)
FileValid == Valid(file)

(* removeAgent: force-removing an agent is never blocked by the quorum of  *)
(* a panel it is in, whatever edits came before; only by a panel that it   *)
(* would leave empty.                                                      *)
ForceRemovalWorks ==
  \A a \in file.agents : RemovesAgent(file, a, TRUE) => Revalidated(WithoutAgent(file, a))

(* No command saves what it loaded before an await: what it is about to    *)
(* save is one edit away from the file as it is at that moment, so the     *)
(* commands of one process, the detect() of adding an agent included, never *)
(* undo each other; and init without force replaces nothing but a file     *)
(* that is empty at that moment, whoever configured something while it     *)
(* looked for agents. (Two processes may overwrite each other between load *)
(* and rename: saveConfig documents it.)                                   *)
OneEdit(cfg, new) ==
  \/ \E a \in Agents \ cfg.agents : new = WithAgent(cfg, a)
  \/ \E a \in cfg.agents : new = WithoutAgent(cfg, a)
  \/ \E p \in Panels : new = [cfg EXCEPT !.panels[p] = new.panels[p]]

NoLostUpdate ==
  [][\A x \in Processes :
       pending[x] = None /\ pending'[x] # None =>
         \/ OneEdit(file, pending'[x])
         \/ Inits(x) /\ (Empty(file) \/ probing[x].force)]_vars
=============================================================================
