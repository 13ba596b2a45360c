---------------------------- MODULE ConfigProofs ----------------------------
(***************************************************************************)
(* Proofs about ConfigStore, for any agents, panels and processes.         *)
(***************************************************************************)
EXTENDS ConfigStore, FiniteSetTheorems, TLAPS

(* What is waiting to be renamed has been validated.                       *)
PendingValid == \A x \in Processes : pending[x] # None => Valid(pending[x])

IInv == TypeOK /\ FileValid /\ PendingValid

(* A defined panel.                                                        *)
Panel == [members : SUBSET Agents, quorum : Nat]

-----------------------------------------------------------------------------
(* The quorum of a shrunk panel stays a number within the shrunk panel.    *)
LEMMA ClampedQuorum ==
  ASSUME NEW members \in SUBSET Agents, NEW quorum \in Nat
  PROVE  /\ Clamped(quorum, members) \in Nat
         /\ members # {} /\ quorum >= 1 => Clamped(quorum, members) \in 1..Cardinality(members)
<1>1. IsFiniteSet(members)
  BY FS_Subset, ConfigAssumption
<1>2. Cardinality(members) \in Nat
  BY <1>1, FS_CardinalityType
<1>3. members # {} => Cardinality(members) # 0
  BY <1>1, FS_EmptySet
<1> QED
  BY <1>2, <1>3 DEF Clamped

LEMMA WithoutMemberType ==
  ASSUME NEW panel \in Panel, NEW a \in Agents
  PROVE  WithoutMember(panel, a) \in Panel
<1>1. panel.members \ {a} \in SUBSET Agents /\ panel.quorum \in Nat
  BY DEF Panel
<1>2. Clamped(panel.quorum, panel.members \ {a}) \in Nat
  BY <1>1, ClampedQuorum
<1> QED
  BY <1>1, <1>2 DEF WithoutMember, Panel

(* Every edit yields a config of the right shape.                          *)
LEMMA WithAgentType ==
  ASSUME NEW cfg \in ConfigShape, NEW a \in Agents
  PROVE  WithAgent(cfg, a) \in ConfigShape
BY DEF WithAgent, ConfigShape

LEMMA WithPanelType ==
  ASSUME NEW cfg \in ConfigShape, NEW p \in Panels,
         NEW members \in SUBSET Agents, NEW quorum \in Nat
  PROVE  WithPanel(cfg, p, members, quorum) \in ConfigShape
BY DEF WithPanel, ConfigShape

LEMMA WithoutPanelType ==
  ASSUME NEW cfg \in ConfigShape, NEW p \in Panels
  PROVE  WithoutPanel(cfg, p) \in ConfigShape
BY DEF WithoutPanel, ConfigShape

LEMMA DefinedPanelType ==
  ASSUME NEW cfg \in ConfigShape, NEW p \in Defined(cfg)
  PROVE  p \in Panels /\ cfg.panels[p] \in Panel
BY DEF ConfigShape, Defined, Panel

LEMMA WithoutAgentType ==
  ASSUME NEW cfg \in ConfigShape, NEW a \in Agents
  PROVE  WithoutAgent(cfg, a) \in ConfigShape
<1>1. \A p \in Defined(cfg) : WithoutMember(cfg.panels[p], a) \in Panel
  BY DefinedPanelType, WithoutMemberType
<1>2. [p \in Panels |-> IF p \in Defined(cfg) THEN WithoutMember(cfg.panels[p], a) ELSE None]
        \in [Panels -> Panel \cup {None}]
  BY <1>1
<1>3. cfg.agents \ {a} \in SUBSET Agents
  BY DEF ConfigShape
<1> QED
  BY <1>2, <1>3 DEF WithoutAgent, ConfigShape, Panel

LEMMA DefaultConfigType == DefaultConfig \in ConfigShape
BY DEF DefaultConfig, ConfigShape

(* A strict majority of some members is a quorum they can reach.           *)
LEMMA MajorityReachable ==
  ASSUME NEW members \in SUBSET Agents, members # {}
  PROVE  MajorityPanel(members) \in Panel /\ MajorityPanel(members).quorum \in 1..Cardinality(members)
<1>1. IsFiniteSet(members)
  BY FS_Subset, ConfigAssumption
<1>2. Cardinality(members) \in Nat /\ Cardinality(members) # 0
  BY <1>1, FS_CardinalityType, FS_EmptySet
<1>3. Cardinality(members) \div 2 + 1 \in 1..Cardinality(members)
  BY <1>2
<1> QED
  BY <1>3 DEF MajorityPanel, Panel

LEMMA SeededType ==
  ASSUME NEW agents \in SUBSET Agents, NEW p \in Panels
  PROVE  Seeded(agents, p) \in ConfigShape
<1>1. CASE agents = {}
  BY <1>1, DefaultConfigType DEF Seeded
<1>2. CASE agents # {}
  <2>1. MajorityPanel(agents) \in Panel
    BY <1>2, MajorityReachable
  <2>2. [DefaultConfig.panels EXCEPT ![p] = MajorityPanel(agents)] \in [Panels -> Panel \cup {None}]
    BY <2>1 DEF DefaultConfig
  <2> QED
    BY <1>2, <2>2 DEF Seeded, ConfigShape, Panel
<1> QED
  BY <1>1, <1>2

-----------------------------------------------------------------------------
LEMMA InitIInv == Init => IInv
<1> SUFFICES ASSUME Init PROVE IInv
  OBVIOUS
<1>1. Valid(DefaultConfig)
  BY DEF Valid, Defined, DefaultConfig
<1> QED
  BY <1>1, DefaultConfigType DEF Init, IInv, TypeOK, FileValid, PendingValid

(* Every edit that passes the validation keeps the invariant.              *)
LEMMA EditIInv ==
  ASSUME IInv, NEW x \in Processes, NEW cfg \in ConfigShape, Edit(x, cfg),
         probing' \in [Processes -> Probe \cup {None}]
  PROVE  IInv'
<1>1. file' = file /\ pending' = [pending EXCEPT ![x] = cfg] /\ Valid(cfg)
  BY DEF Edit, Revalidated
<1>2. TypeOK'
  BY <1>1 DEF IInv, TypeOK
<1>3. FileValid'
  BY <1>1 DEF IInv, FileValid, Valid, Defined, PanelValid
<1>4. PendingValid'
  <2> SUFFICES ASSUME NEW y \in Processes, pending'[y] # None PROVE Valid(pending'[y])
    BY <1>1 DEF PendingValid, Valid, Defined, PanelValid
  <2>1. pending'[y] = IF y = x THEN cfg ELSE pending[y]
    BY <1>1 DEF IInv, TypeOK
  <2> QED
    BY <2>1, <1>1 DEF IInv, PendingValid
<1> QED
  BY <1>2, <1>3, <1>4 DEF IInv

(* A step that leaves file and pending alone.                              *)
LEMMA ProbingIInv ==
  ASSUME IInv, UNCHANGED <<file, pending>>,
         probing' \in [Processes -> Probe \cup {None}]
  PROVE  IInv'
BY DEF IInv, TypeOK, FileValid, PendingValid, Valid, Defined, PanelValid

LEMMA SaveIInv ==
  ASSUME IInv, NEW x \in Processes, Save(x)
  PROVE  IInv'
<1>1. pending[x] \in ConfigShape /\ Valid(pending[x])
  BY DEF Save, IInv, TypeOK, PendingValid
<1>2. file' \in ConfigShape /\ Valid(file')
  BY <1>1 DEF Save, NotRenamed, IInv, TypeOK, FileValid
<1>3. pending' = [pending EXCEPT ![x] = None] /\ probing' = probing
  BY DEF Save
<1>4. TypeOK'
  BY <1>2, <1>3 DEF IInv, TypeOK
<1>5. FileValid'
  BY <1>2 DEF FileValid, Valid, Defined, PanelValid
<1>6. PendingValid'
  <2> SUFFICES ASSUME NEW y \in Processes, pending'[y] # None PROVE Valid(pending'[y])
    BY DEF PendingValid, Valid, Defined, PanelValid
  <2>1. pending'[y] = pending[y]
    BY <1>3 DEF IInv, TypeOK
  <2> QED
    BY <2>1 DEF IInv, PendingValid
<1> QED
  BY <1>4, <1>5, <1>6 DEF IInv

(* Both commands that await detect() remember what they are for.           *)
LEMMA AwaitIInv ==
  ASSUME IInv, NEW x \in Processes, NEW a \in Agents \cup {None}, NEW force \in BOOLEAN,
         AwaitDetect(x, a, force)
  PROVE  IInv'
<1>1. [agent |-> a, force |-> force, found |-> file] \in Probe
  BY DEF IInv, TypeOK, Probe
<1>2. probing' \in [Processes -> Probe \cup {None}]
  BY <1>1 DEF IInv, TypeOK, AwaitDetect
<1> QED
  BY <1>2, ProbingIInv DEF AwaitDetect

LEMMA AgentCommandIInv ==
  ASSUME IInv, NEW x \in Processes, NEW a \in Agents, AgentCommand(x, a)
  PROVE  IInv'
<1>0. file \in ConfigShape /\ probing \in [Processes -> Probe \cup {None}]
  BY DEF IInv, TypeOK
<1>1. CASE DetectAdapter(x, a)
  BY <1>1, AwaitIInv DEF DetectAdapter
<1>2. CASE \E force \in BOOLEAN : RemoveAgent(x, a, force)
  <2>1. Edit(x, WithoutAgent(file, a)) /\ probing' = probing
    BY <1>2 DEF RemoveAgent
  <2> QED
    BY <1>0, <2>1, WithoutAgentType, EditIInv
<1>3. ASSUME NEW p \in Panels, PanelAddAgent(x, p, a) PROVE IInv'
  <2>1. file.panels[p] \in Panel
    BY <1>0, <1>3, DefinedPanelType DEF PanelAddAgent
  <2>2. file.panels[p].members \cup {a} \in SUBSET Agents /\ file.panels[p].quorum \in Nat
    BY <2>1 DEF Panel
  <2>3. WithPanel(file, p, file.panels[p].members \cup {a}, file.panels[p].quorum) \in ConfigShape
    BY <1>0, <2>2, WithPanelType
  <2> QED
    BY <1>0, <1>3, <2>3, EditIInv DEF PanelAddAgent
<1>4. ASSUME NEW p \in Panels, PanelRemoveAgent(x, p, a) PROVE IInv'
  <2>1. WithoutMember(file.panels[p], a) \in Panel
    BY <1>0, <1>4, DefinedPanelType, WithoutMemberType DEF PanelRemoveAgent
  <2>2. [file EXCEPT !.panels[p] = WithoutMember(@, a)] \in ConfigShape
    BY <1>0, <2>1 DEF ConfigShape, Panel
  <2> QED
    BY <1>0, <1>4, <2>2, EditIInv DEF PanelRemoveAgent
<1> QED
  BY <1>1, <1>2, <1>3, <1>4 DEF AgentCommand

LEMMA PanelCommandIInv ==
  ASSUME IInv, NEW x \in Processes, NEW p \in Panels, PanelCommand(x, p)
  PROVE  IInv'
<1>0. file \in ConfigShape /\ probing' = probing
      /\ probing \in [Processes -> Probe \cup {None}]
  BY DEF IInv, TypeOK, PanelCommand, CreatePanel, SetQuorum, RemovePanel
<1>1. ASSUME NEW members \in SUBSET Agents, NEW quorum \in 0..MaxQuorum,
             CreatePanel(x, p, members, quorum)
      PROVE  IInv'
  <2>1. WithPanel(file, p, members, quorum) \in ConfigShape
    BY <1>0, WithPanelType
  <2> QED
    BY <1>0, <1>1, <2>1, EditIInv DEF CreatePanel
<1>2. ASSUME NEW quorum \in 0..MaxQuorum, SetQuorum(x, p, quorum)
      PROVE  IInv'
  <2>1. file.panels[p] \in Panel
    BY <1>0, <1>2, DefinedPanelType DEF SetQuorum
  <2>2. file.panels[p].members \in SUBSET Agents
    BY <2>1 DEF Panel
  <2>3. WithPanel(file, p, file.panels[p].members, quorum) \in ConfigShape
    BY <1>0, <2>2, WithPanelType
  <2> QED
    BY <1>0, <1>2, <2>3, EditIInv DEF SetQuorum
<1>3. CASE RemovePanel(x, p)
  <2>1. WithoutPanel(file, p) \in ConfigShape
    BY <1>0, WithoutPanelType
  <2> QED
    BY <1>0, <1>3, <2>1, EditIInv DEF RemovePanel
<1> QED
  BY <1>1, <1>2, <1>3 DEF PanelCommand

(* What follows the await, of adding an agent and of init.                 *)
LEMMA DetectedIInv ==
  ASSUME IInv, NEW x \in Processes, AddAgent(x) \/ Seed(x) \/ Refuse(x)
  PROVE  IInv'
<1>0. file \in ConfigShape /\ probing \in [Processes -> Probe \cup {None}]
  BY DEF IInv, TypeOK
<1>1. probing[x] # None /\ probing' = [probing EXCEPT ![x] = None]
  BY DEF AddAgent, Seed, Refuse, Adds, Inits
<1>2. probing' \in [Processes -> Probe \cup {None}]
  BY <1>0, <1>1
<1>3. CASE AddAgent(x)
  <2>1. probing[x].agent \in Agents
    BY <1>0, <1>1, <1>3 DEF AddAgent, Adds, Probe
  <2>2. WithAgent(file, probing[x].agent) \in ConfigShape
    BY <1>0, <2>1, WithAgentType
  <2> QED
    BY <1>2, <1>3, <2>2, EditIInv DEF AddAgent, LoadedForAdd
<1>4. CASE Seed(x)
  <2>1. PICK agents \in SUBSET Agents, p \in Panels : Edit(x, Seeded(agents, p))
    BY <1>4 DEF Seed
  <2>2. Seeded(agents, p) \in ConfigShape
    BY SeededType
  <2> QED
    BY <1>2, <2>1, <2>2, EditIInv
<1>5. CASE Refuse(x)
  BY <1>2, <1>5, ProbingIInv DEF Refuse
<1> QED
  BY <1>3, <1>4, <1>5

(* The inductive invariant holds in every state.                           *)
THEOREM Invariant == Spec => []IInv
<1>1. IInv /\ [Next]_vars => IInv'
  <2> SUFFICES ASSUME IInv, [Next]_vars PROVE IInv'
    OBVIOUS
  <2>1. CASE UNCHANGED vars
    <3>1. UNCHANGED <<file, pending>> /\ probing' = probing
      BY <2>1 DEF vars
    <3> QED
      BY <3>1, ProbingIInv DEF IInv, TypeOK
  <2>2. CASE Next
    <3>1. PICK x \in Processes :
            \/ \E a \in Agents : AgentCommand(x, a)
            \/ \E p \in Panels : PanelCommand(x, p)
            \/ DetectAdapters(x) \/ Seed(x)
            \/ AddAgent(x) \/ Refuse(x) \/ Save(x)
      BY <2>2 DEF Next
    <3>2. DetectAdapters(x) => IInv'
      BY AwaitIInv DEF DetectAdapters
    <3> QED
      BY <3>1, <3>2, AgentCommandIInv, PanelCommandIInv, DetectedIInv, SaveIInv
  <2> QED
    BY <2>1, <2>2
<1> QED
  BY InitIInv, <1>1, PTL DEF Spec

(* Type correctness, for every instance.                                   *)
THEOREM ConfigTypeCorrect == Spec => []TypeOK
<1>1. IInv => TypeOK
  BY DEF IInv
<1> QED
  BY Invariant, <1>1, PTL

(* The file on disk is valid after any interleaving of any commands of any *)
(* number of processes (saveConfig validates, and replaces atomically).    *)
THEOREM FileStaysValid == Spec => []FileValid
<1>1. IInv => FileValid
  BY DEF IInv
<1> QED
  BY Invariant, <1>1, PTL

(* Removing an agent that leaves no panel empty keeps a valid config valid. *)
LEMMA WithoutAgentValid ==
  ASSUME NEW cfg \in ConfigShape, Valid(cfg), NEW a \in Agents, Emptied(cfg, a) = {}
  PROVE  Valid(WithoutAgent(cfg, a))
<1> DEFINE new == WithoutAgent(cfg, a)
<1> SUFFICES ASSUME NEW p \in Defined(new) PROVE PanelValid(new, new.panels[p])
  BY DEF Valid
<1>1. p \in Panels /\ p \in Defined(cfg) /\ new.panels[p] = WithoutMember(cfg.panels[p], a)
  BY DEF Defined, WithoutAgent
<1>2. cfg.panels[p] \in Panel /\ PanelValid(cfg, cfg.panels[p])
  BY <1>1, DefinedPanelType DEF Valid
<1> DEFINE rest == cfg.panels[p].members \ {a}
           quorum == cfg.panels[p].quorum
<1>3. rest \in SUBSET Agents /\ quorum \in Nat
  BY <1>2 DEF Panel
<1>4. rest # {}
  BY <1>1 DEF Emptied
<1>5. Cardinality(cfg.panels[p].members) \in Nat
  <2>1. IsFiniteSet(cfg.panels[p].members)
    BY <1>2, FS_Subset, ConfigAssumption DEF Panel
  <2> QED
    BY <2>1, FS_CardinalityType
<1>6. quorum >= 1
  BY <1>2, <1>3, <1>5 DEF PanelValid
<1>7. Clamped(quorum, rest) \in 1..Cardinality(rest)
  BY <1>3, <1>4, <1>6, ClampedQuorum
<1>8. rest \subseteq new.agents
  BY <1>2 DEF PanelValid, WithoutAgent
<1> QED
  BY <1>1, <1>4, <1>7, <1>8 DEF PanelValid, WithoutMember

(* The clamp of removeAgent is enough: no quorum ever blocks the forced    *)
(* removal of an agent.                                                    *)
THEOREM ForcedRemovalNeverBlocked == Spec => []ForceRemovalWorks
<1>1. IInv => ForceRemovalWorks
  <2> SUFFICES ASSUME IInv, NEW a \in file.agents, RemovesAgent(file, a, TRUE)
               PROVE  Valid(WithoutAgent(file, a))
    BY DEF ForceRemovalWorks, Revalidated
  <2>1. file \in ConfigShape /\ Valid(file) /\ a \in Agents /\ Emptied(file, a) = {}
    BY DEF IInv, TypeOK, FileValid, ConfigShape, RemovesAgent
  <2> QED
    BY <2>1, WithoutAgentValid
<1> QED
  BY Invariant, <1>1, PTL

(* initCommand: whatever it found, the file it seeds passes the validation *)
(* of saveConfig: its majority is a quorum the panel can reach.            *)
THEOREM SeedNeverBlocked ==
  ASSUME NEW agents \in SUBSET Agents, NEW p \in Panels
  PROVE  Revalidated(Seeded(agents, p))
<1> DEFINE cfg == Seeded(agents, p)
<1> SUFFICES ASSUME NEW q \in Defined(cfg) PROVE PanelValid(cfg, cfg.panels[q])
  BY DEF Revalidated, Valid
<1>1. agents # {}
  BY DEF Seeded, DefaultConfig, Defined
<1>2. cfg.agents = agents /\ cfg.panels = [DefaultConfig.panels EXCEPT ![p] = MajorityPanel(agents)]
  BY <1>1 DEF Seeded
<1>3. q \in Panels /\ cfg.panels[q] # None
  BY DEF Defined
<1>4. cfg.panels[q] = MajorityPanel(agents)
  BY <1>2, <1>3 DEF DefaultConfig
<1>5. MajorityPanel(agents).members = agents
  BY DEF MajorityPanel
<1> QED
  BY <1>1, <1>2, <1>4, <1>5, MajorityReachable DEF PanelValid
-----------------------------------------------------------------------------
(* What NoLostUpdate says of one process.                                  *)
OneEditOrSeed(x) ==
  pending[x] = None /\ pending'[x] # None =>
    \/ OneEdit(file, pending'[x])
    \/ Inits(x) /\ (Empty(file) \/ probing[x].force)

Prepared == \A x \in Processes : OneEditOrSeed(x)

(* A command that edits changes what its own process is about to save.     *)
LEMMA EditPrepares ==
  ASSUME TypeOK, NEW x \in Processes, NEW cfg, Edit(x, cfg),
         \/ OneEdit(file, cfg)
         \/ Inits(x) /\ (Empty(file) \/ probing[x].force)
  PROVE  Prepared
<1> SUFFICES ASSUME NEW y \in Processes, pending[y] = None, pending'[y] # None
             PROVE  \/ OneEdit(file, pending'[y])
                    \/ Inits(y) /\ (Empty(file) \/ probing[y].force)
  BY DEF Prepared, OneEditOrSeed
<1>1. pending' = [pending EXCEPT ![x] = cfg] /\ pending \in [Processes -> ConfigShape \cup {None}]
  BY DEF Edit, TypeOK
<1>2. y = x /\ pending'[y] = cfg
  BY <1>1
<1> QED
  BY <1>2

(* No other step gives a process something to save.                        *)
LEMMA NothingPrepared ==
  ASSUME TypeOK, \A x \in Processes : pending'[x] \in {pending[x], None}
  PROVE  Prepared
BY DEF Prepared, OneEditOrSeed

LEMMA PanelIsOneEdit ==
  ASSUME NEW cfg \in ConfigShape, NEW p \in Panels, NEW panel
  PROVE  OneEdit(cfg, [cfg EXCEPT !.panels[p] = panel])
<1> DEFINE new == [cfg EXCEPT !.panels[p] = panel]
<1>1. new.panels[p] = panel
  BY DEF ConfigShape
<1>2. new = [cfg EXCEPT !.panels[p] = new.panels[p]]
  BY <1>1
<1> QED
  BY <1>2 DEF OneEdit

LEMMA AgentCommandPrepares ==
  ASSUME TypeOK, NEW x \in Processes, NEW a \in Agents, AgentCommand(x, a)
  PROVE  Prepared
<1>0. file \in ConfigShape
  BY DEF TypeOK
<1>1. CASE DetectAdapter(x, a)
  BY <1>1, NothingPrepared DEF DetectAdapter, AwaitDetect
<1>2. CASE \E force \in BOOLEAN : RemoveAgent(x, a, force)
  <2>1. Edit(x, WithoutAgent(file, a)) /\ a \in file.agents
    BY <1>2 DEF RemoveAgent, RemovesAgent
  <2>2. OneEdit(file, WithoutAgent(file, a))
    BY <2>1 DEF OneEdit
  <2> QED
    BY <2>1, <2>2, EditPrepares
<1>3. ASSUME NEW p \in Panels, PanelAddAgent(x, p, a) PROVE Prepared
  <2> DEFINE cfg == WithPanel(file, p, file.panels[p].members \cup {a}, file.panels[p].quorum)
  <2>1. OneEdit(file, cfg)
    BY <1>0, PanelIsOneEdit DEF WithPanel
  <2>2. Edit(x, cfg)
    BY <1>3 DEF PanelAddAgent
  <2> HIDE DEF cfg
  <2> QED
    BY <2>1, <2>2, EditPrepares
<1>4. ASSUME NEW p \in Panels, PanelRemoveAgent(x, p, a) PROVE Prepared
  <2> DEFINE cfg == [file EXCEPT !.panels[p] = WithoutMember(@, a)]
  <2>1. cfg = [file EXCEPT !.panels[p] = WithoutMember(file.panels[p], a)]
    BY <1>0 DEF ConfigShape
  <2>2. OneEdit(file, cfg)
    BY <1>0, <2>1, PanelIsOneEdit
  <2>3. Edit(x, cfg)
    BY <1>4 DEF PanelRemoveAgent
  <2> HIDE DEF cfg
  <2> QED
    BY <2>2, <2>3, EditPrepares
<1> QED
  BY <1>1, <1>2, <1>3, <1>4 DEF AgentCommand

LEMMA PanelCommandPrepares ==
  ASSUME TypeOK, NEW x \in Processes, NEW p \in Panels, PanelCommand(x, p)
  PROVE  Prepared
<1>1. PICK panel : Edit(x, [file EXCEPT !.panels[p] = panel])
  BY DEF PanelCommand, CreatePanel, SetQuorum, RemovePanel, WithPanel, WithoutPanel
<1>2. OneEdit(file, [file EXCEPT !.panels[p] = panel])
  BY PanelIsOneEdit DEF TypeOK
<1> DEFINE cfg == [file EXCEPT !.panels[p] = panel]
<1> HIDE DEF cfg
<1> QED
  BY <1>1, <1>2, EditPrepares DEF cfg

LEMMA DetectedPrepares ==
  ASSUME TypeOK, NEW x \in Processes, AddAgent(x) \/ Seed(x) \/ Refuse(x)
  PROVE  Prepared
<1>1. CASE AddAgent(x)
  <2>1. probing[x] \in Probe /\ probing[x].agent # None /\ probing[x].agent \notin file.agents
    BY <1>1 DEF TypeOK, AddAgent, Adds, LoadedForAdd
  <2>2. probing[x].agent \in Agents \ file.agents
    BY <2>1 DEF Probe
  <2>3. OneEdit(file, WithAgent(file, probing[x].agent))
    BY <2>2 DEF OneEdit
  <2> QED
    BY <1>1, <2>3, EditPrepares DEF AddAgent, LoadedForAdd
<1>2. CASE Seed(x)
  <2>1. PICK agents \in SUBSET Agents, p \in Panels : Edit(x, Seeded(agents, p))
    BY <1>2 DEF Seed
  <2> QED
    BY <1>2, <2>1, EditPrepares DEF Seed, LoadedForInit
<1>3. CASE Refuse(x)
  BY <1>3, NothingPrepared DEF Refuse
<1> QED
  BY <1>1, <1>2, <1>3

(* No command of any process saves what it loaded before an await: each    *)
(* prepares one edit of the file as it is then, and an unforced init only  *)
(* replaces an empty one (addAgent, initCommand).                          *)
THEOREM NoEditIsLost == Spec => NoLostUpdate
<1>1. TypeOK /\ [Next]_vars => [Prepared]_vars
  <2> SUFFICES ASSUME TypeOK, Next PROVE Prepared
    OBVIOUS
  <2>1. PICK x \in Processes :
          \/ \E a \in Agents : AgentCommand(x, a)
          \/ \E p \in Panels : PanelCommand(x, p)
          \/ DetectAdapters(x) \/ Seed(x)
          \/ AddAgent(x) \/ Refuse(x) \/ Save(x)
    BY DEF Next
  <2>2. DetectAdapters(x) => Prepared
    BY NothingPrepared DEF DetectAdapters, AwaitDetect
  <2>3. Save(x) => Prepared
    <3> SUFFICES ASSUME Save(x) PROVE \A y \in Processes : pending'[y] \in {pending[y], None}
      BY NothingPrepared
    <3> QED
      BY DEF Save, TypeOK
  <2> QED
    BY <2>1, <2>2, <2>3, AgentCommandPrepares, PanelCommandPrepares, DetectedPrepares
<1>2. Spec => [][Prepared]_vars
  BY ConfigTypeCorrect, <1>1, PTL DEF Spec
<1> QED
  BY <1>2 DEF NoLostUpdate, Prepared, OneEditOrSeed
-----------------------------------------------------------------------------
(* What a daemon makes of the file, whatever adapters it has: the members  *)
(* of a panel are told apart into those it runs and those it lacks the     *)
(* adapter of, with none dropped or kept twice, and only for that reason   *)
(* (the guard of resolvePanel against a dangling id is never needed); and  *)
(* the quorum is one that all of them together can reach. It is what       *)
(* Engine assumes of Agents, Unavailable and Quorum.                       *)
PanelsResolve ==
  \A p \in Defined(file), runnable \in SUBSET Agents :
    LET panel == Resolved(file, p, runnable)
    IN  /\ panel.agents \cup panel.unavailable = file.panels[p].members
        /\ panel.agents \cap panel.unavailable = {}
        /\ panel.unavailable = file.panels[p].members \ runnable
        /\ panel.quorum \in 1..Cardinality(panel.agents \cup panel.unavailable)

(* A daemon that starts at any moment, beside any commands, resolves each  *)
(* panel of the file it loads to one that the engine can run (resolvePanel *)
(* on what saveConfig left).                                               *)
THEOREM PanelsAlwaysResolve == Spec => []PanelsResolve
<1>1. IInv => PanelsResolve
  <2> SUFFICES ASSUME IInv, NEW p \in Defined(file), NEW runnable \in SUBSET Agents
               PROVE  LET panel == Resolved(file, p, runnable)
                      IN  /\ panel.agents \cup panel.unavailable = file.panels[p].members
                          /\ panel.agents \cap panel.unavailable = {}
                          /\ panel.unavailable = file.panels[p].members \ runnable
                          /\ panel.quorum \in 1..Cardinality(panel.agents \cup panel.unavailable)
    BY DEF PanelsResolve
  <2> DEFINE panel   == Resolved(file, p, runnable)
             members == file.panels[p].members
             agents  == members \cap file.agents \cap runnable
  <2>1. members \subseteq file.agents /\ file.panels[p].quorum \in 1..Cardinality(members)
    BY DEF IInv, FileValid, Valid, PanelValid
  <2>2. panel.quorum = file.panels[p].quorum /\ panel.agents = agents
        /\ panel.unavailable = members \ agents
    BY DEF Resolved
  <2>3. /\ agents \cup (members \ agents) = members
        /\ agents \cap (members \ agents) = {}
        /\ members \ agents = members \ runnable
    BY <2>1
  <2> HIDE DEF panel, agents, members
  <2>4. /\ panel.agents \cup panel.unavailable = members
        /\ panel.agents \cap panel.unavailable = {}
        /\ panel.unavailable = members \ runnable
        /\ panel.quorum \in 1..Cardinality(panel.agents \cup panel.unavailable)
    BY <2>1, <2>2, <2>3
  <2> QED
    BY <2>4 DEF panel, members
<1> QED
  BY Invariant, <1>1, PTL
=============================================================================
