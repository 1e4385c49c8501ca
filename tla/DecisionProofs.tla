--------------------------- MODULE DecisionProofs ---------------------------
(***************************************************************************)
(* What the decisions of the platform come to for every input: the         *)
(* admission of a plan, the boot of HBOS, the face that answers, what the  *)
(* conductor finds missing, the batches of the planner, and the mission    *)
(* the build daemon selects.                                               *)
(***************************************************************************)
EXTENDS BatchPlanner, TeamAdmission, CoreBoot, AssistantFaces, ProjectAssistant,
        ProjectConductor, MissionSelection, FiniteSetTheorems,
        WellFoundedInduction, TLAPS

-----------------------------------------------------------------------------
(* The registry has one row for each work.                                 *)
RowsUnique(registry) ==
    \A i, j \in DOMAIN registry : registry[i].id = registry[j].id => i = j

(* The authority's own rules are at least as strict as the library's: of a *)
(* plan it admits, validateWork accepts every lease for the work its id    *)
(* names, although nobody calls it.  It takes a registry without two rows  *)
(* of a work: of two rows the authority looks at the last and the library  *)
(* at the first.                                                           *)
THEOREM AuthorityImpliesLibrary ==
    ASSUME NEW gate, NEW plan, NEW registry, NEW authorization, NEW ctx,
           DOMAIN plan.leases \subseteq Nat, DOMAIN registry \subseteq Nat,
           RowsUnique(registry),
           Admits(gate, plan, registry, authorization, ctx)
    PROVE  \A n \in DOMAIN plan.leases :
               WorkValid(plan, registry, WorkOf[plan.leases[n].id], plan.leases[n].id)
<1> SUFFICES ASSUME NEW n \in DOMAIN plan.leases
             PROVE  WorkValid(plan, registry, WorkOf[plan.leases[n].id], plan.leases[n].id)
    OBVIOUS
<1> DEFINE lease == plan.leases[n]
           work == WorkOf[lease.id]
<1>1. plan.status = "READY" /\ LeaseAdmits(lease, registry)
    BY DEF Admits
<1>2. \A m \in DOMAIN plan.leases : plan.leases[m].id = lease.id => m = n
    BY DEF Admits
<1>3. IsFirst(n, {m \in DOMAIN plan.leases : plan.leases[m].id = lease.id})
    BY <1>2 DEF IsFirst
<1>4. PICK i \in DOMAIN registry :
          IsLast(i, Rows(registry, work)) /\ RowAdmits(registry[i], lease)
    BY <1>1 DEF LeaseAdmits
<1>5. IsFirst(i, Rows(registry, work))
    BY <1>4 DEF IsFirst, IsLast, Rows, RowsUnique
<1>6. /\ Upper(registry[i].status) = "READY" /\ Upper(registry[i].readiness) = "READY"
      /\ \A a \in registry[i].attempts :
            a.promoted \/ a.state \in {"PROMOTED", "SUPERSEDED", "ABANDONED_ADJUDICATED",
                                       "DUPLICATE", "INVALID"}
    BY <1>4 DEF RowAdmits, Upper
<1>7. /\ Complete(lease) /\ TaskClassLawful(lease) /\ lease.mode \in Modes
      /\ ScopeLawful(lease)
    BY <1>1 DEF LeaseAdmits
<1> QED
    BY <1>1, <1>3, <1>5, <1>6, <1>7 DEF WorkValid

(* No two workers of an admitted plan may write the same file, as far as   *)
(* their scopes have a name: the whole repository, "*" or "./", overlaps   *)
(* with nothing and is passed over.                                        *)
THEOREM ScopesApart ==
    ASSUME NEW gate, NEW plan, NEW registry, NEW authorization, NEW ctx,
           NEW file,
           Admits(gate, plan, registry, authorization, ctx),
           NEW n \in DOMAIN plan.leases, NEW m \in DOMAIN plan.leases,
           NEW a \in plan.leases[n].scope, NEW b \in plan.leases[m].scope,
           Len(a.names) \in Nat, Len(b.names) \in Nat,
           Covers(a, file), Covers(b, file)
    PROVE  n = m
<1> SUFFICES ASSUME n # m PROVE FALSE
    OBVIOUS
<1>1. ~Overlaps(a, b)
    BY DEF Admits
<1>2. a.names # <<>> /\ b.names # <<>>
    BY DEF Covers
<1>3. \A i \in 1..Len(a.names) : a.names[i] = file[i]
    BY DEF Covers, PrefixOf
<1>4. \A i \in 1..Len(b.names) : b.names[i] = file[i]
    BY DEF Covers, PrefixOf
<1>5. CASE Len(a.names) <= Len(b.names)
    BY <1>1, <1>2, <1>3, <1>4, <1>5 DEF Overlaps, Norm, PrefixOf
<1>6. CASE Len(b.names) <= Len(a.names)
    BY <1>1, <1>2, <1>3, <1>4, <1>6 DEF Overlaps, Norm, PrefixOf
<1> QED
    BY <1>5, <1>6

(* An authorization admits through a held gate one work, one lease and one *)
(* snapshot only, in time, and never one that is consumed; and a gate that *)
(* is held lets nothing through without one.                               *)
THEOREM OneSnapshotPerAuthorization ==
    ASSUME NEW gate, NEW authorization,
           NEW plan, NEW registry, NEW ctx, NEW laterPlan, NEW laterRegistry, NEW later,
           gate.hold,
           Dispatches(gate, plan, registry, authorization, ctx),
           Dispatches(gate, laterPlan, laterRegistry, authorization, later)
    PROVE  /\ authorization # NoAuthorization /\ ~authorization.consumed
           /\ ctx.work = later.work /\ ctx.lease = later.lease
           /\ ctx.branch = later.branch /\ ctx.sha = later.sha
           /\ ctx.plan = later.plan /\ ctx.leaseHash = later.leaseHash
           /\ ctx.taskClass = later.taskClass
           /\ ctx.now <= authorization.notAfter /\ later.now <= authorization.notAfter
<1>1. ~Open(gate)
    BY DEF Open
<1>2. authorization # NoAuthorization /\ Binds(authorization, ctx)
    <2>1. EvaluateGate(gate, authorization, ctx) # "REFUSE"
        BY DEF Dispatches, Admits
    <2>2. CASE gate.identified
        BY <1>1, <2>1, <2>2, Zenon DEF EvaluateGate
    <2>3. CASE ~gate.identified
        BY <1>1, <2>1, <2>3, Zenon DEF EvaluateGate
    <2> QED
        BY <2>2, <2>3
<1>3. AuthorizationLawful(authorization, ctx) /\ AuthorizationLawful(authorization, later)
    BY <1>2 DEF Dispatches
<1> QED
    BY <1>2, <1>3 DEF AuthorizationLawful

-----------------------------------------------------------------------------
(* Health monitor and boot report agree: given the monitor's engines, the  *)
(* boot is READY exactly when the monitor finds the system READY and the   *)
(* dependencies passed, which takes every engine asked about to be RUNNING *)
(* in the lifecycle manager; one that nobody gave a status keeps it        *)
(* DEGRADED.                                                               *)
THEOREM BootAgreesWithMonitor ==
    ASSUME NEW statuses, NEW engines, NEW passed \in BOOLEAN, NEW start, NEW stop
    PROVE  LET report == GenerateReport(statuses, engines)
               boots == StartBoot(report.engines, passed, start, stop).status = "READY"
           IN  /\ boots <=> passed /\ report.system = "READY"
               /\ report.system = "READY" <=>
                    \A e \in engines : e \in DOMAIN statuses /\ statuses[e] = "RUNNING"
<1> DEFINE report == GenerateReport(statuses, engines)
<1>1. report.engines = {CheckEngine(statuses, e) : e \in engines}
    BY DEF GenerateReport
<1>2. \A e \in engines :
          CheckEngine(statuses, e).healthy <=>
              e \in DOMAIN statuses /\ statuses[e] = "RUNNING"
    BY DEF CheckEngine
<1>3. (\A item \in report.engines : item.healthy) <=>
          \A e \in engines : e \in DOMAIN statuses /\ statuses[e] = "RUNNING"
    BY <1>1, <1>2
<1>4. report.system = "READY" <=> \A item \in report.engines : item.healthy
    BY DEF GenerateReport
<1> QED
    BY <1>3, <1>4 DEF StartBoot, GenerateBootReport

(* Registering an engine again drops what it depended on before: what can  *)
(* boot is decided by the last registration, and a dependency that is not  *)
(* available stops it.  Other engines are not affected.                    *)
THEOREM LastRegistrationDecides ==
    ASSUME NEW dependencies, NEW engine, NEW other, NEW dependsOn, NEW available
    PROVE  LET after == RegisterDependency(dependencies, engine, dependsOn)
           IN  /\ CanBoot(after, engine, available) <=> dependsOn \subseteq available
               /\ other # engine =>
                     (CanBoot(after, other, available) <=>
                          CanBoot(dependencies, other, available))
BY DEF RegisterDependency, Set, CanBoot, Validate, GetDependencies

(* boot answers true, and cannot answer anything else: what it takes for   *)
(* available is a list of its own, under names that no engine of the       *)
(* registry has, so no engine that is missing, stopped or failed is ever   *)
(* noticed.                                                                *)
THEOREM BootLooksAtNoEngine ==
    /\ Boot
    /\ \A name \in AvailableEngines : GetEngine(Registered, name) = {}
<1>1. Boot
    BY DEF Boot, CanBoot, Validate, GetDependencies, Dependencies, NoDependencies,
           RegisterDependency, Set, AvailableEngines
<1>2. DOMAIN Registered = 1..6 /\ \A i \in 1..6 : Registered[i] \notin AvailableEngines
  <2>1. DOMAIN Registered = 1..6
      BY DEF Registered
  <2>2. /\ Registered[1] = "MemoryEngine" /\ Registered[2] = "ReactionEngine"
        /\ Registered[3] = "DecisionEngine" /\ Registered[4] = "ProjectPilotEngine"
        /\ Registered[5] = "KnowledgeEngine" /\ Registered[6] = "AssistantEngine"
      BY DEF Registered
  <2>3. \A i \in 1..6 : i = 1 \/ i = 2 \/ i = 3 \/ i = 4 \/ i = 5 \/ i = 6
      OBVIOUS
  <2> QED
      BY <2>1, <2>2, <2>3 DEF AvailableEngines
<1>3. \A name \in AvailableEngines : GetEngine(Registered, name) = {}
    BY <1>2 DEF GetEngine
<1> QED
    BY <1>1, <1>3

-----------------------------------------------------------------------------
(* Every input is answered by a face that exists, and the same six always: *)
(* the executive, accounting, audit, operations, knowledge and autonomous  *)
(* faces are registered and never reached.                                 *)
THEOREM EveryInputHasAFace ==
    ASSUME NEW input \in SUBSET Words
    PROVE  /\ ExecuteInput(input).result = ExecuteInput(input).face
           /\ ExecuteInput(input).face \in
                  Faces \ {"ExecutiveFace", "AccountingFace", "AuditFace",
                           "OperationsFace", "KnowledgeFace", "AutonomousFace"}
<1>1. Route(input) \in {"TaxFace", "FinancialFace", "RiskFace", "StrategyFace",
                        "DecisionFace", "AssistantFace"}
    BY DEF Route
<1> QED
    BY <1>1 DEF ExecuteInput, Respond, Faces

(* An input that mentions several subjects is answered by the first of     *)
(* tax, finance, risk, strategy and decision, in this order.               *)
THEOREM FirstSubjectAnswers ==
    ASSUME NEW input \in SUBSET Words, NEW more \in SUBSET Words
    PROVE  /\ Route(input) = "TaxFace" => Route(input \cup more) = "TaxFace"
           /\ Route(input) = "FinancialFace" =>
                  Route(input \cup more) \in {"TaxFace", "FinancialFace"}
           /\ Route(input) = "AssistantFace" <=> input = {}
BY DEF Route, Words, Taxing, Financial

-----------------------------------------------------------------------------
(* The conductor reports COMPLETE exactly when nothing is missing, has     *)
(* something to do next otherwise, and puts a missing engine before        *)
(* everything else and a duplicate builder after it.                       *)
THEOREM ConductorOrdersGaps ==
    ASSUME NEW repository \in Repositories
    PROVE  /\ Status(repository) = "COMPLETE" <=>
                 /\ TargetEngines \cup RequiredCapabilities \subseteq repository.evidenced
                 /\ DuplicateNames(repository) = {}
                 /\ repository.repairers /\ repository.tools
           /\ Status(repository) = "READY" => NextActions(repository) # {}
           /\ ~(TargetEngines \subseteq repository.evidenced) =>
                 \A g \in NextActions(repository) : g.kind = "engine"
           /\ (\E g \in NextActions(repository) : g.kind = "duplicate-builder") =>
                 \A g \in Gaps(repository) : g.kind = "duplicate-builder"
<1> DEFINE engines == {Gap("engine", e, 100) : e \in TargetEngines \ repository.evidenced}
           capabilities ==
               {Gap("capability", c, 90) : c \in RequiredCapabilities \ repository.evidenced}
           duplicates == {Gap("duplicate-builder", n, 70) : n \in DuplicateNames(repository)}
           healing == IF repository.repairers THEN {} ELSE {Gap("self-healing", "fabric", 95)}
           tools == IF repository.tools THEN {} ELSE {Gap("tools", "fabric", 95)}
<1>1. Gaps(repository) = engines \cup capabilities \cup duplicates \cup healing \cup tools
    BY DEF Gaps
<1>2. /\ \A g \in engines : g.kind = "engine" /\ g.priority = 100
      /\ \A g \in healing \cup tools : g.priority = 95 /\ g.kind # "duplicate-builder"
      /\ \A g \in healing \cup tools : g.kind # "engine"
      /\ \A g \in capabilities : g.kind = "capability" /\ g.priority = 90
      /\ \A g \in duplicates : g.kind = "duplicate-builder" /\ g.priority = 70
    BY DEF Gap
<1>3. /\ engines = {} <=> TargetEngines \subseteq repository.evidenced
      /\ capabilities = {} <=> RequiredCapabilities \subseteq repository.evidenced
      /\ duplicates = {} <=> DuplicateNames(repository) = {}
    OBVIOUS
<1>4. /\ healing = {} <=> repository.repairers
      /\ tools = {} <=> repository.tools
    BY DEF Repositories
<1> HIDE DEF engines, capabilities, duplicates, healing, tools
<1>5. Status(repository) = "COMPLETE" <=>
          /\ engines = {} /\ capabilities = {} /\ duplicates = {}
          /\ healing = {} /\ tools = {}
    BY <1>1 DEF Status
<1>6. CASE engines # {}
  <2>1. NextActions(repository) = engines
    BY <1>1, <1>2, <1>6 DEF NextActions
  <2> QED
    BY <1>2, <1>3, <1>4, <1>5, <1>6, <2>1
<1>7. CASE engines = {} /\ healing \cup tools # {}
  <2>1. NextActions(repository) = healing \cup tools
    BY <1>1, <1>2, <1>7 DEF NextActions
  <2> QED
    BY <1>2, <1>3, <1>4, <1>5, <1>7, <2>1
<1>8. CASE engines = {} /\ healing \cup tools = {} /\ capabilities # {}
  <2>1. NextActions(repository) = capabilities
    BY <1>1, <1>2, <1>8 DEF NextActions
  <2> QED
    BY <1>2, <1>3, <1>4, <1>5, <1>8, <2>1
<1>9. CASE engines = {} /\ healing \cup tools = {} /\ capabilities = {}
  <2>1. NextActions(repository) = duplicates /\ Gaps(repository) = duplicates
    BY <1>1, <1>2, <1>9 DEF NextActions
  <2> QED
    BY <1>2, <1>3, <1>4, <1>5, <1>9, <2>1 DEF Status
<1> QED
    BY <1>6, <1>7, <1>8, <1>9

-----------------------------------------------------------------------------
Events == {Event(name) : name \in Names}

(* The registry of projects and the memories, whatever is created and      *)
(* whatever becomes of it.                                                 *)
ProjectInv ==
    /\ projects \in Seq(Project)
    /\ pilotMemory \in Seq(Events)
    /\ pilotReactions \in Seq({"PROJECT_INSIGHT_REQUIRED"})
    /\ assistantMemory = <<>>
    /\ CreationsRemembered

LEMMA ProjectInvHolds == ProjectSpec => []ProjectInv
<1>1. ProjectInit => ProjectInv
    BY DEF ProjectInit, ProjectInv, CreationsRemembered
<1>2. ProjectInv /\ [ProjectNext]_projectVars => ProjectInv'
  <2> SUFFICES ASSUME ProjectInv, [ProjectNext]_projectVars PROVE ProjectInv'
      OBVIOUS
  <2> USE DEF ProjectInv
  <2>1. ASSUME NEW name \in Names, CreateProject(name) PROVE ProjectInv'
    <3> DEFINE project == [name |-> name, status |-> "Planning"]
    <3>1. project \in Project /\ Event(name) \in Events
      <4>1. project \in Project
          BY DEF Project, ProjectStatuses
      <4>2. Event(name) \in Events
          BY DEF Event, Events
      <4> QED
          BY <4>1, <4>2
    <3>2. /\ projects' = Append(projects, project)
          /\ pilotMemory' = Append(pilotMemory, Event(name))
          /\ pilotReactions' = Append(pilotReactions, "PROJECT_INSIGHT_REQUIRED")
          /\ assistantMemory' = assistantMemory
        BY <2>1 DEF CreateProject, Remember, React, Event
    <3> HIDE DEF project
    <3>3. project.name = name
        BY DEF project
    <3>4. CreationsRemembered'
        BY <3>1, <3>2, <3>3 DEF CreationsRemembered
    <3>5. projects' \in Seq(Project) /\ pilotMemory' \in Seq(Events)
        BY <3>1, <3>2
    <3>6. pilotReactions' \in Seq({"PROJECT_INSIGHT_REQUIRED"}) /\ assistantMemory' = <<>>
        BY <3>2
    <3> QED
        BY <3>4, <3>5, <3>6
  <2>2. ASSUME NEW i \in DOMAIN projects, NEW given \in ProjectStatuses,
               ChangeStatus(i, given)
        PROVE  ProjectInv'
    <3> DEFINE changed == [name |-> projects[i].name, status |-> given]
    <3>1. projects' = [projects EXCEPT ![i] = changed]
        BY <2>2 DEF ChangeStatus
    <3>2. projects[i] \in Project
        OBVIOUS
    <3>3. changed \in Project /\ changed.name = projects[i].name
        BY <3>2 DEF Project
    <3> HIDE DEF changed
    <3>4. projects' \in Seq(Project) /\ Len(projects') = Len(projects)
        BY <3>1, <3>3
    <3>5. \A j \in 1..Len(projects) : projects'[j].name = projects[j].name
        BY <3>1, <3>3
    <3> QED
        BY <2>2, <3>4, <3>5 DEF ChangeStatus, CreationsRemembered
  <2>3. CASE UNCHANGED projectVars
      BY <2>3 DEF projectVars, CreationsRemembered
  <2> QED
      BY <2>1, <2>2, <2>3 DEF ProjectNext
<1> QED
    BY <1>1, <1>2, PTL DEF ProjectSpec

(* The pilot's memory is the record of the projects' creation.             *)
THEOREM CreationsAreRemembered == ProjectSpec => []CreationsRemembered
<1>1. ProjectInv => CreationsRemembered
    BY DEF ProjectInv
<1> QED
    BY <1>1, ProjectInvHolds, PTL

(* The assistant never knows of it.                                        *)
THEOREM AssistantKnowsNoHistory == ProjectSpec => []ConfidenceIgnoresHistory
<1>1. ProjectInv => ConfidenceIgnoresHistory
  <2> SUFFICES ASSUME ProjectInv, NEW i \in 1..Len(projects)
               PROVE  AnalyzeProject(i).confidence =
                          IF projects[i].name # "" THEN 80 ELSE 60
      BY DEF ConfidenceIgnoresHistory
  <2>1. projects[i] \in Project /\ assistantMemory = <<>>
      BY DEF ProjectInv
  <2>2. projects[i].status # ""
      BY <2>1 DEF Project, ProjectStatuses
  <2>3. AnalyzeProject(i).confidence = Confidence(Context(i))
      BY DEF AnalyzeProject
  <2>4. Context(i).project = projects[i] /\ Context(i).memories = <<>>
      BY <2>1 DEF Context
  <2> DEFINE named == IF projects[i].name # "" THEN 20 ELSE 0
  <2>5. Confidence(Context(i)) = 50 + named + 0 + 10
    <3>1. (IF Context(i).memories # <<>> THEN 20 ELSE 0) = 0
        BY <2>4
    <3>2. (IF Context(i).project.status # "" THEN 10 ELSE 0) = 10
        BY <2>2, <2>4
    <3>3. (IF Context(i).project.name # "" THEN 20 ELSE 0) = named
        BY <2>4
    <3> QED
        BY <3>1, <3>2, <3>3, Zenon DEF Confidence
  <2>6. 50 + 20 + 0 + 10 = 80 /\ 50 + 0 + 0 + 10 = 60
      OBVIOUS
  <2>7. CASE projects[i].name # ""
    <3>1. named = 20
        BY <2>7
    <3> QED
        BY <2>3, <2>5, <2>6, <2>7, <3>1, Zenon
  <2>8. CASE projects[i].name = ""
    <3>1. named = 0
        BY <2>8
    <3> QED
        BY <2>3, <2>5, <2>6, <2>8, <3>1, Zenon
  <2> QED
      BY <2>7, <2>8
<1> QED
    BY <1>1, ProjectInvHolds, PTL

-----------------------------------------------------------------------------
(* The planner.  The inductive invariant keeps what the walk has seen: the *)
(* places before it hold nothing that could still have been selected.      *)
TypeOK ==
    /\ at \in Nat \ {0}
    /\ remaining \subseteq Ids /\ completed \subseteq Ids /\ ready \subseteq remaining
    /\ batches \in Seq(SUBSET Ids)
    /\ outcome \in {"planning", "planned", "cycle"}

(* The batches made and what remains share out the list.                   *)
Accounts ==
    /\ \A id \in Ids : id \in remaining \/ id \in completed
    /\ \A id \in remaining : id \notin completed
    /\ \A id : id \in completed <=> \E n \in DOMAIN batches : id \in batches[n]
    /\ outcome = "planned" => remaining = {}

(* The present batch, and why what was passed over was.                    *)
Walk ==
    /\ \A o : o \in selectedOwners <=> \E id \in ready : Owner[id] = o
    /\ \A a, b \in ready : Owner[a] = Owner[b] => a = b
    /\ \A id \in ready : DependenciesReady(id)
    /\ \A i \in DOMAIN Listed :
        i < at /\ Listed[i] \in remaining \ ready =>
            ~DependenciesReady(Listed[i]) \/ Owner[Listed[i]] \in selectedOwners

Disjoint == \A n, k \in DOMAIN batches : n # k => batches[n] \cap batches[k] = {}

IInv ==
    /\ TypeOK /\ Accounts /\ Walk /\ Disjoint
    /\ DependenciesFirst /\ OwnersApart /\ RefusesOnlyCycles

-----------------------------------------------------------------------------
(* Nothing has been seen, selected or planned at the start.                *)
LEMMA InitIInv ==
    ASSUME ListIsFinite, PlanInit
    PROVE  IInv
<1> USE DEF PlanInit
<1>1. TypeOK
    BY DEF TypeOK, Ids
<1>2. Accounts /\ Disjoint /\ DependenciesFirst /\ OwnersApart /\ RefusesOnlyCycles
    BY DEF Accounts, Disjoint, DependenciesFirst, OwnersApart, RefusesOnlyCycles
<1>3. Walk
    BY DEF Walk, ListIsFinite
<1>4. QED
    BY <1>1, <1>2, <1>3 DEF IInv

(* Selecting an id makes the owners of the batch those of its members.     *)
LEMMA TakeReadyIInv ==
    ASSUME ListIsFinite, IInv, TakeReady
    PROVE  IInv'
<1> DEFINE id == Listed[at]
<1> USE DEF IInv
<1>1. /\ at \in DOMAIN Listed /\ outcome = "planning"
      /\ id \in remaining /\ DependenciesReady(id) /\ Owner[id] \notin selectedOwners
      /\ ready' = ready \cup {id} /\ selectedOwners' = selectedOwners \cup {Owner[id]}
      /\ at' = at + 1
      /\ UNCHANGED <<remaining, completed, batches, outcome>>
    BY DEF TakeReady, Walking
<1>2. TypeOK'
    BY <1>1 DEF TypeOK
<1>3. Accounts' /\ Disjoint' /\ DependenciesFirst' /\ OwnersApart' /\ RefusesOnlyCycles'
    BY <1>1 DEF Accounts, Disjoint, DependenciesFirst, OwnersApart, RefusesOnlyCycles
<1>4. \A x : DependenciesReady(x)' <=> DependenciesReady(x)
    BY <1>1 DEF DependenciesReady
<1>5. Walk'
  <2>1. \A o : o \in selectedOwners' <=> \E a \in ready' : Owner[a] = o
    BY <1>1 DEF Walk
  <2>2. \A a, b \in ready' : Owner[a] = Owner[b] => a = b
    BY <1>1 DEF Walk
  <2>3. \A a \in ready' : DependenciesReady(a)'
    BY <1>1, <1>4 DEF Walk
  <2>4. ASSUME NEW i \in DOMAIN Listed, i < at', Listed[i] \in remaining' \ ready'
        PROVE  ~DependenciesReady(Listed[i])' \/ Owner[Listed[i]] \in selectedOwners'
    <3>1. i < at \/ i = at
      BY <2>4, <1>1 DEF ListIsFinite, TypeOK
    <3>2. i # at
      BY <2>4, <1>1
    <3>3. QED
      BY <3>1, <3>2, <2>4, <1>1, <1>4 DEF Walk
  <2>5. QED
    BY <2>1, <2>2, <2>3, <2>4 DEF Walk
<1>6. QED
    BY <1>2, <1>3, <1>5

(* What is passed over is done, waits, or has a taken owner.               *)
LEMMA PassIInv ==
    ASSUME ListIsFinite, IInv, Pass
    PROVE  IInv'
<1> DEFINE id == Listed[at]
<1> USE DEF IInv
<1>1. /\ at \in DOMAIN Listed /\ outcome = "planning"
      /\ ~(id \in remaining /\ DependenciesReady(id) /\ Owner[id] \notin selectedOwners)
      /\ at' = at + 1
      /\ UNCHANGED <<remaining, completed, selectedOwners, ready, batches, outcome>>
    BY DEF Pass, Walking
<1>2. TypeOK'
    BY <1>1 DEF TypeOK
<1>3. Accounts' /\ Disjoint' /\ DependenciesFirst' /\ OwnersApart' /\ RefusesOnlyCycles'
    BY <1>1 DEF Accounts, Disjoint, DependenciesFirst, OwnersApart, RefusesOnlyCycles
<1>4. \A x : DependenciesReady(x)' <=> DependenciesReady(x)
    BY <1>1 DEF DependenciesReady
<1>5. Walk'
  <2>1. ASSUME NEW i \in DOMAIN Listed, i < at', Listed[i] \in remaining' \ ready'
        PROVE  ~DependenciesReady(Listed[i])' \/ Owner[Listed[i]] \in selectedOwners'
    <3>1. i < at \/ i = at
      BY <2>1, <1>1 DEF ListIsFinite, TypeOK
    <3>2. CASE i = at
      BY <3>2, <2>1, <1>1, <1>4
    <3>3. CASE i < at
      BY <3>3, <2>1, <1>1, <1>4 DEF Walk
    <3>4. QED
      BY <3>1, <3>2, <3>3
  <2>2. QED
    BY <2>1, <1>1, <1>4 DEF Walk
<1>6. QED
    BY <1>2, <1>3, <1>5

(* A batch that is closed joins the earlier ones: what it depends on is    *)
(* among them, for it was completed before.                                *)
LEMMA CloseBatchIInv ==
    ASSUME ListIsFinite, IInv, CloseBatch
    PROVE  IInv'
<1> USE DEF IInv
<1> DEFINE last == Len(batches) + 1
<1>1. /\ outcome = "planning" /\ batches' = Append(batches, ready)
      /\ remaining' = remaining \ ready /\ completed' = completed \cup ready
      /\ at' = 1 /\ selectedOwners' = {} /\ ready' = {}
      /\ UNCHANGED outcome
    BY DEF CloseBatch, WalkEnded
<1>2. /\ batches \in Seq(SUBSET Ids) /\ ready \in SUBSET Ids
      /\ ready \subseteq remaining /\ remaining \subseteq Ids /\ completed \subseteq Ids
    BY DEF TypeOK
<1>3. /\ Len(batches) \in Nat /\ DOMAIN batches = 1..Len(batches)
      /\ DOMAIN batches' = 1..last /\ batches'[last] = ready
      /\ \A n \in DOMAIN batches : n \in DOMAIN batches' /\ batches'[n] = batches[n]
    BY <1>1, <1>2
<1>4. \A n \in DOMAIN batches' : n = last \/ n \in DOMAIN batches
    BY <1>3
<1>5. TypeOK'
    BY <1>1, <1>2 DEF TypeOK
<1>6. Accounts'
  <2>1. \A id : id \in completed' <=> \E n \in DOMAIN batches' : id \in batches'[n]
    <3>1. ASSUME NEW id, id \in completed'
          PROVE  \E n \in DOMAIN batches' : id \in batches'[n]
      <4>1. CASE id \in ready
        BY <4>1, <1>3
      <4>2. CASE id \in completed
        BY <4>2, <1>3 DEF Accounts
      <4>3. QED
        BY <3>1, <4>1, <4>2, <1>1
    <3>2. ASSUME NEW id, NEW n \in DOMAIN batches', id \in batches'[n]
          PROVE  id \in completed'
      <4>1. CASE n = last
        BY <4>1, <3>2, <1>1, <1>3
      <4>2. CASE n \in DOMAIN batches
        BY <4>2, <3>2, <1>1, <1>3 DEF Accounts
      <4>3. QED
        BY <4>1, <4>2, <1>4
    <3>3. QED
      BY <3>1, <3>2
  <2>2. QED
    BY <2>1, <1>1, <1>2 DEF Accounts
<1>7. Walk'
  <2>1. \A i \in DOMAIN Listed : ~(i < at')
    BY <1>1 DEF ListIsFinite
  <2>2. QED
    BY <2>1, <1>1 DEF Walk
<1>8. Disjoint'
  <2>1. \A n \in DOMAIN batches : batches[n] \cap ready = {}
    BY <1>2 DEF Accounts
  <2>2. QED
    BY <2>1, <1>3, <1>4 DEF Disjoint
<1>9. DependenciesFirst'
  <2>1. ASSUME NEW n \in DOMAIN batches', NEW id \in batches'[n],
               NEW d \in DependsOn[id] \cap Ids
        PROVE  \E k \in 1..(n - 1) : d \in batches'[k]
    <3>1. CASE n \in DOMAIN batches
      <4>1. \E k \in 1..(n - 1) : d \in batches[k]
        BY <3>1, <2>1, <1>3 DEF DependenciesFirst
      <4>2. \A k \in 1..(n - 1) : k \in DOMAIN batches
        BY <3>1, <1>3
      <4>3. QED
        BY <4>1, <4>2, <1>3
    <3>2. CASE n = last
      <4>1. d \in completed
        BY <3>2, <2>1, <1>3 DEF Walk, DependenciesReady
      <4>2. PICK k \in DOMAIN batches : d \in batches[k]
        BY <4>1 DEF Accounts
      <4>3. k \in 1..(n - 1)
        BY <3>2, <1>3
      <4>4. QED
        BY <4>2, <4>3, <1>3
    <3>3. QED
      BY <3>1, <3>2, <1>4
  <2>2. QED
    BY <2>1 DEF DependenciesFirst
<1>10. OwnersApart'
    BY <1>3, <1>4 DEF OwnersApart, Walk
<1>11. RefusesOnlyCycles'
    BY <1>1 DEF RefusesOnlyCycles
<1>12. QED
    BY <1>5, <1>6, <1>7, <1>8, <1>9, <1>10, <1>11

(* An empty batch has taken no owner, so all that remains was passed over  *)
(* for what it depends on.                                                 *)
LEMMA RefuseIInv ==
    ASSUME ListIsFinite, IInv, Refuse
    PROVE  IInv'
<1> USE DEF IInv
<1>1. /\ remaining # {} /\ at \notin DOMAIN Listed /\ ready = {} /\ outcome' = "cycle"
      /\ UNCHANGED <<at, remaining, completed, selectedOwners, ready, batches>>
    BY DEF Refuse, WalkEnded
<1>2. \A x : DependenciesReady(x)' <=> DependenciesReady(x)
    BY <1>1 DEF DependenciesReady
<1>3. TypeOK' /\ Disjoint' /\ DependenciesFirst' /\ OwnersApart' /\ Accounts'
    BY <1>1 DEF TypeOK, Disjoint, DependenciesFirst, OwnersApart, Accounts
<1>4. Walk'
    BY <1>1, <1>2 DEF Walk
<1>5. \A id \in remaining : \E d \in DependsOn[id] : d \in remaining
  <2>1. SUFFICES ASSUME NEW id \in remaining
                 PROVE  \E d \in DependsOn[id] : d \in remaining
    OBVIOUS
  <2>2. PICK i \in DOMAIN Listed : Listed[i] = id
    BY DEF TypeOK, Ids
  <2>3. ~DependenciesReady(id)
    <3>1. selectedOwners = {}
      BY <1>1 DEF Walk
    <3>2. i < at
      BY <1>1 DEF ListIsFinite, TypeOK
    <3>3. QED
      BY <3>1, <3>2, <2>2, <1>1 DEF Walk
  <2>4. PICK d \in DependsOn[id] : d \notin completed /\ d \in Ids
    BY <2>3 DEF DependenciesReady
  <2>5. QED
    BY <2>4 DEF Accounts
<1>6. RefusesOnlyCycles'
    BY <1>1, <1>5 DEF RefusesOnlyCycles
<1>7. QED
    BY <1>3, <1>4, <1>6

LEMMA ReturnIInv ==
    ASSUME ListIsFinite, IInv, Return
    PROVE  IInv'
<1> USE DEF IInv
<1>1. /\ remaining = {} /\ outcome' = "planned"
      /\ UNCHANGED <<at, remaining, completed, selectedOwners, ready, batches>>
    BY DEF Return
<1>2. \A x : DependenciesReady(x)' <=> DependenciesReady(x)
    BY <1>1 DEF DependenciesReady
<1>3. TypeOK' /\ Disjoint' /\ DependenciesFirst' /\ OwnersApart' /\ RefusesOnlyCycles'
    BY <1>1 DEF TypeOK, Disjoint, DependenciesFirst, OwnersApart, RefusesOnlyCycles
<1>4. Accounts'
    BY <1>1 DEF Accounts
<1>5. Walk'
    BY <1>1, <1>2 DEF Walk
<1>6. QED
    BY <1>3, <1>4, <1>5

LEMMA StutterIInv ==
    ASSUME IInv, UNCHANGED planVars
    PROVE  IInv'
<1> USE DEF IInv, planVars
<1>1. \A x : DependenciesReady(x)' <=> DependenciesReady(x)
    BY DEF DependenciesReady
<1>2. QED
    BY <1>1 DEF TypeOK, Accounts, Walk, Disjoint, DependenciesFirst, OwnersApart,
                RefusesOnlyCycles

-----------------------------------------------------------------------------
(* The invariant holds throughout, for every finite list.                  *)
THEOREM PlannerInvariant ==
    ASSUME ListIsFinite
    PROVE  PlannerSpec => []IInv
<1>1. PlanInit => IInv
    BY InitIInv
<1>2. IInv /\ [PlanNext]_planVars => IInv'
    BY TakeReadyIInv, PassIInv, CloseBatchIInv, RefuseIInv, ReturnIInv, StutterIInv DEF PlanNext
<1>3. QED
    BY <1>1, <1>2, PTL DEF PlannerSpec

(* Batches may be handed out in parallel, one after the other: everything  *)
(* a capability waits for is in an earlier batch, and no owner is asked    *)
(* for two things at once.                                                 *)
THEOREM BatchesAreSafe ==
    ASSUME ListIsFinite
    PROVE  PlannerSpec => [](DependenciesFirst /\ OwnersApart)
<1>1. IInv => DependenciesFirst /\ OwnersApart
    BY DEF IInv
<1>2. QED
    BY <1>1, PlannerInvariant, PTL

(* A plan has every capability of the list, and none of them twice.        *)
THEOREM PlansAreWhole ==
    ASSUME ListIsFinite
    PROVE  PlannerSpec => []EachPlannedOnce
<1>1. IInv => EachPlannedOnce
    BY DEF IInv, EachPlannedOnce, Accounts, Disjoint
<1>2. QED
    BY <1>1, PlannerInvariant, PTL

(* The error of the planner always means a cycle among what remains.       *)
THEOREM RefusalsAreCycles ==
    ASSUME ListIsFinite
    PROVE  PlannerSpec => []RefusesOnlyCycles
<1>1. IInv => RefusesOnlyCycles
    BY DEF IInv
<1>2. QED
    BY <1>1, PlannerInvariant, PTL

-----------------------------------------------------------------------------
(* What a plan may still do: a place to look at per step, a walk over all  *)
(* of them per batch, as many batches as capabilities remain.               *)
Places == CHOOSE n \in Nat : DOMAIN Listed = 1..n

PlanLeft ==
    IF outcome = "planning"
    THEN Cardinality(remaining) * (Places + 1) + (Places + 1 - at) + 1
    ELSE 0

PlanFits == PlanLeft \in 0 .. (Places + 1) * (Places + 1)

PlanShrinks == [][PlanLeft' < PlanLeft]_planVars

(* The place of the walk, and that what remains can be counted.            *)
OnThePath ==
    /\ at \in 1 .. Places + 1
    /\ IsFiniteSet(remaining) /\ Cardinality(remaining) \in 0 .. Places

LEMMA PlacesMeans ==
    ASSUME ListIsFinite
    PROVE  Places \in Nat /\ DOMAIN Listed = 1 .. Places
BY DEF ListIsFinite, Places

LEMMA IdsAreFew ==
    ASSUME ListIsFinite
    PROVE  IsFiniteSet(Ids) /\ Cardinality(Ids) \in 0 .. Places
<1> DEFINE f == [i \in 1 .. Places |-> Listed[i]]
<1>1. f \in Surjection(1 .. Places, Ids)
    BY PlacesMeans DEF Surjection, Ids
<1>2. IsFiniteSet(1 .. Places) /\ Cardinality(1 .. Places) = Places
    BY PlacesMeans, FS_Interval
<1>3. IsFiniteSet(Ids) /\ Cardinality(Ids) <= Places
    BY <1>1, <1>2, FS_Surjection
<1> QED
    BY <1>3, PlacesMeans, FS_CardinalityType

(* A whole row of a product.                                               *)
LEMMA RowsAdd ==
    ASSUME NEW a \in Nat, NEW b \in Nat, NEW w \in Nat, a < b
    PROVE  a * w + w <= b * w /\ a * w \in Nat /\ b * w \in Nat
<1>1. PICK k \in Nat : b = (a + 1) + k
    BY b - a - 1 \in Nat
<1>2. b * w = (a + 1) * w + k * w
    BY <1>1
<1>3. (a + 1) * w = a * w + w
    OBVIOUS
<1>4. k * w \in Nat /\ a * w \in Nat
    BY <1>1
<1> QED
    BY <1>2, <1>3, <1>4

LEMMA PlanLeftMeans ==
    ASSUME ListIsFinite, OnThePath
    PROVE  /\ PlanLeft \in Nat
           /\ PlanFits
           /\ outcome = "planning" => PlanLeft >= 1
<1>1. Places \in Nat /\ at \in 1 .. Places + 1 /\ Cardinality(remaining) \in 0 .. Places
    BY PlacesMeans DEF OnThePath
<1>2. PICK c \in Nat, w \in Nat, p \in Nat :
          c = Cardinality(remaining) /\ w = Places + 1 /\ p = w - at /\ c < w /\ p < w
    BY <1>1
<1>3. /\ c * w + w <= w * w /\ c * w \in Nat /\ w * w \in Nat
    BY <1>2, RowsAdd
<1>4. PlanLeft = IF outcome = "planning" THEN c * w + p + 1 ELSE 0
    BY <1>1, <1>2, <1>3 DEF PlanLeft
<1>5. c * w + p + 1 \in 1 .. w * w
    BY <1>2, <1>3
<1>6. PlanLeft \in 0 .. w * w
    BY <1>3, <1>4, <1>5
<1> QED
    BY <1>2, <1>3, <1>4, <1>5, <1>6 DEF PlanFits

LEMMA PlanStepsShrink ==
    ASSUME ListIsFinite, IInv, OnThePath, PlanNext
    PROVE  OnThePath' /\ PlanLeft' < PlanLeft
<1>1. Places \in Nat /\ DOMAIN Listed = 1 .. Places /\ at \in 1 .. Places + 1
    BY PlacesMeans DEF OnThePath
<1>2. Cardinality(remaining) \in 0 .. Places /\ IsFiniteSet(remaining)
    BY DEF OnThePath
<1>3. CASE TakeReady \/ Pass
  <2>1. /\ outcome = "planning" /\ at \in 1 .. Places /\ at' = at + 1
        /\ UNCHANGED <<remaining, outcome>>
      BY <1>1, <1>3 DEF TakeReady, Pass, Walking
  <2>2. OnThePath'
      BY <1>1, <2>1 DEF OnThePath
  <2>3. Cardinality(remaining) * (Places + 1) \in Nat
      BY <1>1, <1>2
  <2> QED
      BY <1>1, <2>1, <2>2, <2>3 DEF PlanLeft
<1>4. CASE CloseBatch
  <2>1. /\ outcome = "planning" /\ at = Places + 1 /\ at' = 1 /\ ready # {}
        /\ remaining' = remaining \ ready /\ UNCHANGED outcome
      BY <1>1, <1>4 DEF CloseBatch, WalkEnded
  <2>2. /\ IsFiniteSet(remaining') /\ Cardinality(remaining') < Cardinality(remaining)
        /\ Cardinality(remaining') \in Nat
    <3>1. remaining' \in SUBSET remaining /\ remaining' # remaining
        BY <2>1 DEF IInv, TypeOK
    <3> QED
        BY <1>2, <3>1, FS_Subset, FS_CardinalityType
  <2>3. OnThePath'
      BY <1>1, <1>2, <2>1, <2>2 DEF OnThePath
  <2>4. PICK c \in Nat, d \in Nat, w \in Nat :
            /\ c = Cardinality(remaining) /\ d = Cardinality(remaining') /\ d < c
            /\ w = Places + 1
      BY <1>1, <1>2, <2>2
  <2>5. d * w + w <= c * w /\ d * w \in Nat /\ c * w \in Nat
      BY <2>4, RowsAdd
  <2>6. PlanLeft = c * w + 1
      BY <1>1, <2>1, <2>4, <2>5 DEF PlanLeft
  <2>7. PlanLeft' = d * w + Places + 1
      BY <1>1, <2>1, <2>4, <2>5 DEF PlanLeft
  <2> QED
      BY <1>1, <2>3, <2>4, <2>5, <2>6, <2>7
<1>5. CASE Refuse \/ Return
  <2>1. /\ outcome = "planning" /\ outcome' # "planning"
        /\ UNCHANGED <<at, remaining>>
      BY <1>5 DEF Refuse, Return, WalkEnded
  <2>2. OnThePath' /\ PlanLeft' = 0
      BY <2>1 DEF OnThePath, PlanLeft
  <2> QED
      BY <2>1, <2>2, PlanLeftMeans
<1> QED
    BY <1>3, <1>4, <1>5 DEF PlanNext

(* plan comes to an end for every list, one with a cycle too: each of its  *)
(* steps uses up some of the (n + 1) * (n + 1) a list of n allows.         *)
THEOREM PlansAreBounded ==
    ASSUME ListIsFinite
    PROVE  PlannerSpec => []PlanFits /\ PlanShrinks
<1>1. PlanInit => OnThePath
    BY IdsAreFew, PlacesMeans DEF PlanInit, OnThePath
<1>2. IInv /\ OnThePath /\ [PlanNext]_planVars =>
          OnThePath' /\ [PlanLeft' < PlanLeft]_planVars
  <2>1. ASSUME OnThePath, UNCHANGED planVars PROVE OnThePath'
      BY <2>1 DEF OnThePath, planVars
  <2> QED
      BY <2>1, PlanStepsShrink
<1>3. OnThePath => PlanFits
    BY PlanLeftMeans
<1> QED
    BY <1>1, <1>2, <1>3, PlannerInvariant, PTL DEF PlannerSpec, PlanShrinks

-----------------------------------------------------------------------------
(* The selection of a mission, over any working tree.                      *)

(* The first place of a list that passes a test.                           *)
LEMMA LeastOf ==
    ASSUME NEW S \in SUBSET Nat, S # {}
    PROVE  Min(S) \in S /\ \A i \in S : Min(S) <= i
<1>1. PICK m \in S : \A i \in S : <<i, m>> \notin OpToRel(<, Nat)
    BY NatLessThanWellFounded, WFMin, Zenon
<1>2. \A i \in S : ~(i < m)
    BY <1>1 DEF OpToRel
<1>3. \A i \in S : m <= i
    BY <1>2
<1> QED
    BY <1>3 DEF Min

(* The backlog rests on what stands before it, or on what it does not list *)
(* and never looks for.                                                    *)
NotListed == {"HBOSCore", "Governance", "Memory", "Knowledge", "Decision", "ProjectPilot",
              "HealthMonitor", "AIRuntime", "ExecutiveIntelligence"}

LEMMA BacklogIsOrdered ==
    /\ DOMAIN Backlog = 1..22 /\ Len(Backlog) = 22
    /\ \A i \in 1..22 : Backlog[i].id \notin NotListed /\ Backlog[i].engine \notin NotListed
    /\ \A i \in 1..22 : \A d \in Backlog[i].deps \ NotListed :
           \E j \in 1..(i - 1) : Backlog[j].id = d
<1> USE DEF Backlog, Documented, Capability, NotListed
<1>1. DOMAIN Backlog = 1..22 /\ Len(Backlog) = 22
    OBVIOUS
<1>2. \A i \in 1..22 : Backlog[i].id \notin NotListed /\ Backlog[i].engine \notin NotListed
    OBVIOUS
<1>3. \A i \in 1..22 : \A d \in Backlog[i].deps \ NotListed :
           \E j \in 1..(i - 1) : Backlog[j].id = d
    OBVIOUS
<1> QED
    BY <1>1, <1>2, <1>3

LEMMA RestsOnEarlier ==
    \A i \in DOMAIN Backlog : RestsOn[i] \subseteq 1..(i - 1)
<1> SUFFICES ASSUME NEW i \in DOMAIN Backlog, NEW d \in Backlog[i].deps, Resolve(d) # 0
             PROVE  Resolve(d) \in 1..(i - 1)
    BY DEF RestsOn
<1> DEFINE I == {j \in 1..22 : Backlog[j].engine = d \/ Backlog[j].id = d}
<1>1. Resolve(d) = IF I # {} THEN Min(I) ELSE 0
    BY BacklogIsOrdered DEF Resolve, SelectInSeq
<1>2. I # {} /\ Resolve(d) = Min(I)
    BY <1>1
<1>3. d \notin NotListed
    BY <1>2, BacklogIsOrdered
<1>4. PICK j \in 1..(i - 1) : Backlog[j].id = d
    BY <1>3, BacklogIsOrdered
<1>5. i \in 1..22 /\ j \in I
    BY <1>4, BacklogIsOrdered
<1>6. Min(I) \in I /\ Min(I) <= j
    BY <1>2, <1>5, LeastOf
<1> QED
    BY <1>2, <1>5, <1>6

(* Implemented is what the recursion of isCapabilityImplemented says: the  *)
(* entries with evidence of their own that rest on implemented ones.       *)
LEMMA ImplementedIsRecursive ==
    ASSUME NEW t
    PROVE  /\ Implemented(t) \subseteq DOMAIN Backlog
           /\ \A i \in DOMAIN Backlog :
                  i \in Implemented(t) <=>
                      Evident(Backlog[i], t) /\ RestsOn[i] \subseteq Implemented(t)
<1> DEFINE D == DOMAIN Backlog
           E(i) == Evident(Backlog[i], t)
           Equation(f) == f = [i \in D |-> E(i) /\ \A j \in RestsOn[i] : f[j]]
           Closed == {S \in SUBSET D : \A i \in S : E(i) /\ RestsOn[i] \subseteq S}
           T == UNION Closed
           g == [i \in D |-> i \in T]
<1>1. \A i \in D : RestsOn[i] \subseteq D
    BY RestsOnEarlier, BacklogIsOrdered
<1>2. ASSUME NEW i \in D
      PROVE  i \in T <=> E(i) /\ RestsOn[i] \subseteq T
  <2> HIDE DEF D, E
  <2>1. ASSUME i \in T PROVE E(i) /\ RestsOn[i] \subseteq T
      BY <2>1
  <2>2. ASSUME E(i), RestsOn[i] \subseteq T PROVE i \in T
    <3>1. T \cup {i} \in Closed
        BY <2>2
    <3> QED
        BY <3>1
  <2> QED
      BY <2>1, <2>2
<1>3. Equation(g)
  <2> HIDE DEF D, E, T
  <2>1. ASSUME NEW i \in D PROVE (i \in T) <=> (E(i) /\ \A j \in RestsOn[i] : g[j])
    <3>1. (\A j \in RestsOn[i] : g[j]) <=> RestsOn[i] \subseteq T
        BY <1>1
    <3> QED
        BY <1>2, <3>1
  <2> QED
      BY <2>1
<1>4. Implemented(t) = {i \in D : (CHOOSE f : Equation(f))[i]}
    BY DEF Implemented
<1>5. PICK f : Equation(f) /\ Implemented(t) = {i \in D : f[i]}
    BY <1>3, <1>4
<1>6. \A i \in D : f[i] = (E(i) /\ \A j \in RestsOn[i] : f[j])
    BY <1>5
<1> HIDE DEF D, E
<1> QED
    BY <1>1, <1>5, <1>6 DEF D, E

(* What is selected is missing and rests on what is implemented.           *)
LEMMA NextIsListed ==
    ASSUME NEW t
    PROVE  LET I == {i \in DOMAIN Backlog :
                        i \notin Implemented(t) /\ RestsOn[i] \subseteq Implemented(t)}
           IN  IF I = {} THEN NextPlatformMission(t) = 0
                         ELSE NextPlatformMission(t) \in I \ {0}
<1> DEFINE D == DOMAIN Backlog
           L == [i \in D |-> i]
           I == {i \in D : i \notin Implemented(t) /\ RestsOn[i] \subseteq Implemented(t)}
<1>1. Len(L) = 22 /\ \A i \in 1..22 : L[i] = i
    BY BacklogIsOrdered
<1>2. NextPlatformMission(t) = IF I # {} THEN Min(I) ELSE 0
    BY <1>1, BacklogIsOrdered DEF NextPlatformMission, SelectInSeq
<1>3. I \in SUBSET Nat /\ 0 \notin I
    BY BacklogIsOrdered
<1>4. I # {} => Min(I) \in I
    BY <1>3, LeastOf
<1> QED
    BY <1>2, <1>3, <1>4

(* The selection does not get stuck: as long as anything of the backlog is *)
(* missing it finds an entry to build.                                     *)
THEOREM BacklogNeverStuck ==
    ASSUME NEW t
    PROVE  NextPlatformMission(t) = 0 <=> Implemented(t) = DOMAIN Backlog
<1> DEFINE D == DOMAIN Backlog
           I == {i \in D : i \notin Implemented(t) /\ RestsOn[i] \subseteq Implemented(t)}
<1>1. Implemented(t) \subseteq D
    BY ImplementedIsRecursive
<1>2. ASSUME Implemented(t) # D PROVE I # {}
  <2> DEFINE M == D \ Implemented(t)
  <2>1. M \in SUBSET Nat /\ M # {}
      BY <1>1, <1>2, BacklogIsOrdered
  <2>2. PICK m \in M : \A i \in M : m <= i
      BY <2>1, LeastOf
  <2>3. m \in 1..22 /\ \A j \in 1..(m - 1) : j \in D /\ j \notin M
      BY <2>2, BacklogIsOrdered
  <2>4. RestsOn[m] \subseteq Implemented(t)
      BY <2>3, RestsOnEarlier
  <2> QED
      BY <2>2, <2>4
<1> QED
    BY <1>1, <1>2, NextIsListed

(* More items never make an entry of the backlog count as missing.         *)
LEMMA ImplementedIsMonotone ==
    ASSUME NEW t, NEW u, t \subseteq u
    PROVE  Implemented(t) \subseteq Implemented(u)
<1> SUFFICES ASSUME ~(Implemented(t) \subseteq Implemented(u)) PROVE FALSE
    OBVIOUS
<1> DEFINE M == Implemented(t) \ Implemented(u)
<1>1. M \in SUBSET Nat /\ M # {}
    BY ImplementedIsRecursive, BacklogIsOrdered
<1>2. PICK m \in M : \A i \in M : m <= i
    BY <1>1, LeastOf
<1>3. m \in DOMAIN Backlog /\ Evident(Backlog[m], t) /\ RestsOn[m] \subseteq Implemented(t)
    BY <1>2, ImplementedIsRecursive
<1>4. RestsOn[m] \subseteq Implemented(u)
  <2>1. m \in 1..22 /\ \A j \in 1..(m - 1) : j \notin M
      BY <1>2, <1>3, BacklogIsOrdered
  <2> QED
      BY <1>3, <2>1, RestsOnEarlier
<1>5. Evident(Backlog[m], u)
    BY <1>3 DEF Evident
<1> QED
    BY <1>2, <1>3, <1>4, <1>5, ImplementedIsRecursive

(* Whoever supplies the evidence of the entry that is selected is done     *)
(* with it, and undoes nothing: the backlog takes as many missions as it   *)
(* has entries.                                                            *)
THEOREM SelectedEntryAdvances ==
    ASSUME NEW t, NEW u, NEW next, next = NextPlatformMission(t), next # 0,
           t \subseteq u, Evident(Backlog[next], u)
    PROVE  next \notin Implemented(t) /\ Implemented(t) \cup {next} \subseteq Implemented(u)
<1>1. next \in DOMAIN Backlog /\ next \notin Implemented(t) /\ RestsOn[next] \subseteq Implemented(t)
    BY NextIsListed
<1>2. Implemented(t) \subseteq Implemented(u)
    BY ImplementedIsMonotone
<1> QED
    BY <1>1, <1>2, ImplementedIsRecursive

(* Where the selection has nothing to build, the backlog is implemented    *)
(* and the extensions are there.                                           *)
LEMMA NothingLeft ==
    ASSUME SelectNextCapability = NoDecision
    PROVE  /\ NextPlatformMission(tree) = 0
           /\ Implemented(tree) = DOMAIN Backlog
           /\ \A i \in DOMAIN Extensions : Extensions[i].files \subseteq tree
<1> DEFINE L == [i \in DOMAIN Extensions |-> Extensions[i].files]
           I == {i \in 1..6 : ~(L[i] \subseteq tree)}
<1>1. NextPlatformMission(tree) = 0 /\ FirstMissing(L) = 0
    BY Zenon DEF SelectNextCapability, NoDecision, Mission
<1>2. DOMAIN Extensions = 1..6 /\ Len(L) = 6
    BY DEF Extensions
<1>3. FirstMissing(L) = IF I # {} THEN Min(I) ELSE 0
    BY <1>2 DEF FirstMissing, SelectInSeq
<1>4. I \in SUBSET Nat /\ 0 \notin I
    OBVIOUS
<1>5. I = {}
    BY <1>1, <1>3, <1>4, LeastOf
<1> QED
    BY <1>1, <1>2, <1>5, BacklogNeverStuck

(* What that means item by item.                                           *)
LEMMA BacklogIsThere ==
    ASSUME NEW t, Implemented(t) = DOMAIN Backlog
    PROVE  \A i \in 1..22 : Backlog[i].files \subseteq t /\ Test(Backlog[i].id) \in t
    BY BacklogIsOrdered, ImplementedIsRecursive DEF Evident

(* The engines whose document the backlog asks for.                        *)
DocumentedEngines == {"UserManagement", "OrganizationModel", "SecurityLayer", "APIGateway",
    "FinancialIntelligence", "BudgetIntelligence", "TaxIntelligence", "Dashboard", "Reports",
    "Alerts", "ProductionReadiness", "SecurityAudit", "PerformanceTesting",
    "CustomerTesting", "DeploymentReadiness", "DeploymentContract"}

(* The artifacts of the backlog are in a tree.                             *)
BacklogBuilt(t) ==
    /\ \A e \in DocumentedEngines : Triple(e) \subseteq t
    /\ {Engine("RiskIntelligence"), Test("RiskIntelligence"), Engine("CloudDeployment"),
        Test("CloudDeployment"), Test("Reasoning"), Test("PythonReasoningAdapter"),
        File("DeploymentController")} \subseteq t

LEMMA BacklogAsksFor ==
    ASSUME NEW t, Implemented(t) = DOMAIN Backlog
    PROVE  BacklogBuilt(t)
<1>1. \A e \in DocumentedEngines : \E i \in 1..22 : Backlog[i].id = e /\ Backlog[i].files = {Engine(e), Doc(e)}
    BY DEF DocumentedEngines, Backlog, Documented, Capability
<1>2. \A e \in DocumentedEngines : Triple(e) \subseteq t
    BY <1>1, BacklogIsThere DEF Triple
<1>3. /\ Backlog[5].id = "Reasoning"
      /\ Backlog[8].id = "PythonReasoningAdapter"
      /\ Backlog[12].id = "RiskIntelligence" /\ Engine("RiskIntelligence") \in Backlog[12].files
      /\ Backlog[22].id = "CloudDeployment"
      /\ {Engine("CloudDeployment"), File("DeploymentController")} \subseteq Backlog[22].files
    BY DEF Backlog, Documented, Capability
<1> QED
    BY <1>2, <1>3, BacklogIsThere DEF BacklogBuilt

LEMMA ExtensionsAskFor ==
    ASSUME \A i \in DOMAIN Extensions : Extensions[i].files \subseteq tree
    PROVE  {Engine("CloudDeployment"), Test("CloudDeployment"), File("DeploymentController"),
            File("cloud_deployment.py")} \subseteq tree
    BY DEF Extensions

(* What selectMission had seen when it called the platform complete, or an *)
(* audit against it.                                                       *)
LEMMA PastTheSelection ==
    ASSUME SelectMission.kind \in {"platform-complete", "platform-audit-blocked"}
    PROVE  /\ SelectNextCapability = NoDecision /\ FinalEvidence \subseteq tree
           /\ SelectMission.kind = "platform-complete" =>
                  CanonicalComplete(tree) /\ CommercialMissing(tree) = {}
           /\ SelectMission = CanonicalBlock => ~ CanonicalComplete(tree)
<1>1. NextMission.kind = "gate"
  <2>1. NextMission.kind \in {"gate", "mission"}
      BY DEF NextMission, Mission
  <2> QED
      BY <2>1 DEF SelectMission
<1>2. SelectNextCapability = NoDecision
  <2>1. SelectNextCapability.kind \in {"platform-continuation", "none"}
      BY DEF SelectNextCapability, NoDecision, Mission
  <2> QED
      BY <1>1, <2>1 DEF SelectMission
<1> QED
    BY <1>1, <1>2 DEF SelectMission, Mission, CanonicalBlock

(* On a tree the daemon calls complete, the gates of a release miss only   *)
(* what no mission builds.                                                 *)
LEMMA CompleteTreeIsBuilt ==
    ASSUME SelectMission.kind = "platform-complete"
    PROVE  /\ Implemented(tree) = DOMAIN Backlog
           /\ AcceptanceBlockers(tree) \subseteq Unasked
           /\ QualificationMissing(tree) \subseteq UnaskedTests
<1>1. Implemented(tree) = DOMAIN Backlog
    BY PastTheSelection, NothingLeft
<1>2. BacklogBuilt(tree)
    BY <1>1, BacklogAsksFor
<1>3. File("cloud_deployment.py") \in tree
    BY PastTheSelection, NothingLeft, ExtensionsAskFor
<1>4. /\ File("ROADMAP.md") \in tree /\ File("package.json") \in tree
      /\ {File("HooshyarAutonomousAssistant"), File("AutonomousBuildDaemon"),
          File("autonomous_builder.py"), File("reasoning_engine.py"), File("AGENTS.md"),
          File("SYSTEM_PROMPT.md")} \subseteq tree
  <2>1. CommercialMissing(tree) = {} /\ CanonicalComplete(tree) /\ FinalEvidence \subseteq tree
      BY PastTheSelection
  <2>2. File("package.json") \in tree
      BY <2>1 DEF CommercialMissing
  <2>3. \A f \in {"HooshyarAutonomousAssistant", "AutonomousBuildDaemon",
             "autonomous_builder.py", "reasoning_engine.py", "AGENTS.md",
             "SYSTEM_PROMPT.md"} : File(f) \in FinalEvidence
      BY DEF FinalEvidence
  <2> QED
      BY <2>1, <2>2, <2>3 DEF CanonicalComplete
<1>5. \A e \in DocumentedEngines : Engine(e) \in tree /\ Test(e) \in tree /\ Doc(e) \in tree
    BY <1>2 DEF BacklogBuilt, Triple
<1>6. ReadinessRequires \ tree \subseteq Unasked
  <2>1. Engine("CloudDeployment") \in tree /\ File("DeploymentController") \in tree
      BY <1>2 DEF BacklogBuilt
  <2> QED
      BY <1>3, <1>4, <1>5, <2>1
      DEF ReadinessRequires, Unasked, DocumentedEngines, DeployContract
<1>7. DeploymentRequires \ tree \subseteq Unasked
    BY <1>2, <1>4 DEF BacklogBuilt, DeploymentRequires, Unasked, DeployContract
<1>8. PerformanceRequires \ tree \subseteq Unasked
    BY <1>2, <1>4 DEF BacklogBuilt, PerformanceRequires, Unasked, DocumentedEngines
<1>9. CustomerRequires \ tree \subseteq Unasked
    BY <1>2, <1>4, <1>5 DEF BacklogBuilt, CustomerRequires, Unasked, DocumentedEngines
<1>10. SecurityRequires \ tree \subseteq Unasked
    BY <1>4, <1>5 DEF SecurityRequires, Unasked, DocumentedEngines
<1>11. AcceptanceBlockers(tree) \subseteq Unasked
    BY <1>6, <1>7, <1>8, <1>9, <1>10 DEF AcceptanceBlockers, Unasked
<1>12. QualificationMissing(tree) \subseteq UnaskedTests
  <2>1. \A e \in QualifiedEngines : Test(e) \in tree
      BY <1>2, <1>5 DEF BacklogBuilt, QualifiedEngines, DocumentedEngines
  <2> QED
      BY <2>1 DEF QualificationMissing
<1> QED
    BY <1>1, <1>11, <1>12

(* What the canonical audit misses where the selection has nothing left.   *)
AuditedInVain ==
    {File("ROADMAP.md"), Doc("CloudDeployment")} \cup {Method(e) : e \in SemanticMethods}

LEMMA AuditMissesTheUnasked ==
    ASSUME SelectMission = CanonicalBlock
    PROVE  /\ Implemented(tree) = DOMAIN Backlog
           /\ CanonicalMissing(tree) # {}
           /\ CanonicalMissing(tree) \subseteq AuditedInVain
<1>1. Implemented(tree) = DOMAIN Backlog
    BY PastTheSelection, NothingLeft DEF CanonicalBlock, Mission
<1>2. BacklogBuilt(tree)
    BY <1>1, BacklogAsksFor
<1>3. File("cloud_deployment.py") \in tree
    BY PastTheSelection, NothingLeft, ExtensionsAskFor DEF CanonicalBlock, Mission
<1>4. {File("HooshyarAutonomousAssistant"), Test("HooshyarAutonomousAssistant")} \subseteq tree
  <2>1. {File("HooshyarAutonomousAssistant"), Test("HooshyarAutonomousAssistant")}
            \subseteq FinalEvidence
      BY DEF FinalEvidence, AssistantTests
  <2> QED
      BY <2>1, PastTheSelection DEF CanonicalBlock, Mission
<1>5. \A l \in AuditedEngines \cup {"AIAssistant"} : Artifacts(l) \ tree \subseteq {Doc("CloudDeployment")}
  <2> SUFFICES ASSUME NEW l \in AuditedEngines \cup {"AIAssistant"}
               PROVE  Artifacts(l) \ tree \subseteq {Doc("CloudDeployment")}
      OBVIOUS
  <2>1. CASE l = "AIAssistant"
      BY <1>4, <2>1 DEF Artifacts
  <2>2. CASE l = "RiskIntelligence"
      BY <1>2, <2>2 DEF BacklogBuilt, Artifacts
  <2>3. CASE l = "CloudDeployment"
      BY <1>2, <1>3, <2>3 DEF BacklogBuilt, Artifacts, Triple
  <2>4. CASE l \notin {"AIAssistant", "RiskIntelligence", "CloudDeployment"}
    <3>1. l \in DocumentedEngines /\ Artifacts(l) = Triple(l)
        BY <2>4 DEF AuditedEngines, DocumentedEngines, Artifacts
    <3> QED
        BY <1>2, <3>1 DEF BacklogBuilt
  <2> QED
      BY <2>1, <2>2, <2>3, <2>4
<1>6. NamedMissing(tree) \subseteq AuditedInVain
    BY <1>5 DEF NamedMissing, AuditedInVain
<1>7. CanonicalMissing(tree) \subseteq AuditedInVain
    BY <1>6 DEF CanonicalMissing, AuditedInVain
<1>8. CanonicalMissing(tree) # {}
  <2>1. ~ CanonicalComplete(tree)
      BY PastTheSelection DEF CanonicalBlock, Mission
  <2>2. NextPlatformMission(tree) = 0
      BY PastTheSelection, NothingLeft DEF CanonicalBlock, Mission
  <2> QED
      BY <2>1, <2>2 DEF CanonicalComplete, CanonicalMissing
<1> QED
    BY <1>1, <1>7, <1>8

-----------------------------------------------------------------------------
(* selectMission looks at the tree and the commit, and at nothing else.    *)
LEMMA SelectionReadsTree ==
    ASSUME UNCHANGED <<tree, head>>
    PROVE  SelectMission' = SelectMission
<1>1. tree' = tree /\ head' = head
    OBVIOUS
<1>2. NextMission' = NextMission /\ Clean' = Clean
    BY <1>1 DEF NextMission, Clean
<1>3. SelectNextCapability' = SelectNextCapability
    BY <1>1 DEF SelectNextCapability, FirstMissing, SelectInSeq
<1> QED
    BY <1>1, <1>2, <1>3 DEF SelectMission

(* A decision is the one for the present tree as long as nobody has        *)
(* changed the tree.                                                       *)
FreshIsPresent == fresh => decision \in {SelectMission, NoDecision}

LEMMA FreshDecisionsHold == Spec => []FreshIsPresent
<1>1. Init => FreshIsPresent
    BY DEF Init, FreshIsPresent
<1>2. FreshIsPresent /\ [Next]_vars => FreshIsPresent'
  <2> SUFFICES ASSUME FreshIsPresent, [Next]_vars, fresh'
               PROVE  decision' \in {SelectMission', NoDecision}
      BY DEF FreshIsPresent, NoDecision, Mission
  <2>1. CASE Select
      BY <2>1, SelectionReadsTree DEF Select
  <2>2. CASE AcceptPresent
      BY <2>2 DEF AcceptPresent, Advance
  <2>3. CASE ReweaveWritesNothing
      BY <2>3, SelectionReadsTree DEF ReweaveWritesNothing, EndRun, Clean, FreshIsPresent
  <2>4. CASE UNCHANGED vars
      BY <2>4, SelectionReadsTree DEF vars, FreshIsPresent
  <2>5. CASE StartRun \/ WeaveNew \/ Rollback \/ Reweave \/ PersonEdits \/ PersonCommits
      BY <2>5 DEF StartRun, WeaveNew, Rollback, Reweave, PersonEdits, PersonCommits
  <2> QED
      BY <2>1, <2>2, <2>3, <2>4, <2>5 DEF Next
<1> QED
    BY <1>1, <1>2, PTL DEF Spec

(* Whatever people edit and commit between and during its runs, and        *)
(* whatever its knots did to the tree: where the daemon declares the       *)
(* platform complete, the backlog is built and the gates of a release can  *)
(* only miss what no mission builds.                                       *)
THEOREM CompletionIsEarned == Spec => []CompleteMeansBuilt
<1>1. FreshIsPresent => CompleteMeansBuilt
    BY CompleteTreeIsBuilt DEF FreshIsPresent, CompleteMeansBuilt, NoDecision, Mission
<1> QED
    BY <1>1, FreshDecisionsHold, PTL

(* A run that the canonical audit ends is told what is missing, and leaves *)
(* nothing unbuilt that the selection would have had built.                *)
THEOREM AuditsBlockOnTheUnasked == Spec => []AuditBlocksOnWhatIsUnasked
<1>1. FreshIsPresent => AuditBlocksOnWhatIsUnasked
    BY AuditMissesTheUnasked
    DEF AuditedInVain, FreshIsPresent, AuditBlocksOnWhatIsUnasked, CanonicalBlock, NoDecision, Mission
<1> QED
    BY <1>1, FreshDecisionsHold, PTL

-----------------------------------------------------------------------------
(* What the agent writes.                                                  *)

(* An item's first component is the kind of thing it is.                   *)
LEMMA ItemsHaveTags ==
    /\ \A x : /\ Engine(x)[1] = "Engines" /\ Test(x)[1] = "test" /\ Doc(x)[1] = "Docs/Engines"
             /\ File(x)[1] = "file" /\ Calls(x)[1] = "calls" /\ Method(x)[1] = "method"
             /\ Marker(x)[1] = "marker"
    /\ \A x : \A i \in Product(x) : i[1] \in {"Product", "product test", "Docs/Product"}
    /\ \A f, text : Says(f, text)[1] = f
    /\ \A x, y : File(x) = File(y) => x = y
<1>1. ASSUME NEW x, NEW i \in Product(x)
      PROVE  i[1] \in {"Product", "product test", "Docs/Product"}
  <2>1. PICK part \in {"Product", "product test", "Docs/Product"} : i = <<part, x>>
      BY DEF Product
  <2> QED
      BY <2>1
<1>2. /\ \A x : /\ Engine(x)[1] = "Engines" /\ Test(x)[1] = "test" /\ Doc(x)[1] = "Docs/Engines"
                /\ File(x)[1] = "file" /\ Calls(x)[1] = "calls" /\ Method(x)[1] = "method"
                /\ Marker(x)[1] = "marker"
      /\ \A f, text : Says(f, text)[1] = f
      /\ \A x, y : File(x) = File(y) => x = y
    BY DEF Engine, Test, Doc, File, Calls, Method, Marker, Says
<1> QED
    BY <1>1, <1>2

(* Whatever it writes, every file stays and the new ones are those of the  *)
(* mission.                                                                *)
LEMMA WritingKeepsFiles ==
    ASSUME NEW m, NEW t, NEW i, IsFile(i)
    PROVE  i \in Writing(m, t) <=> i \in t \/ i \in Written(m)
<1>1. \A x : ~IsFile(Calls(x)) /\ ~IsFile(Method(x)) /\ ~IsFile(Marker(x))
    BY ItemsHaveTags DEF IsFile
<1> QED
    BY <1>1 DEF Writing

(* Nothing of what no mission asks for is written.                         *)
LEMMA WritingAddsNothingUnasked ==
    ASSUME NEW m, NEW t, Test(m.engine) \notin UnaskedTests
    PROVE  Writing(m, t) \cap (Unasked \cup UnaskedTests) \subseteq t
<1> DEFINE U == Unasked \cup UnaskedTests
           Tags == {"file", "test", "package.json", "AutonomousBuildDaemon",
                    "DeploymentController"}
<1>1. \A u \in U : u[1] \in Tags /\ u # File("PythonReasoningAdapter")
  <2> SUFFICES ASSUME NEW u \in U PROVE u[1] \in Tags /\ u # File("PythonReasoningAdapter")
      OBVIOUS
  <2>0. File("PythonReasoningAdapter")[1] = "file"
      BY ItemsHaveTags
  <2>1. ASSUME NEW f, u = File(f), f # "PythonReasoningAdapter"
        PROVE  u[1] \in Tags /\ u # File("PythonReasoningAdapter")
      BY <2>1, ItemsHaveTags
  <2>2. ASSUME NEW f \in {"package.json", "AutonomousBuildDaemon", "DeploymentController"},
               NEW text, u = Says(f, text)
        PROVE  u[1] \in Tags /\ u # File("PythonReasoningAdapter")
    <3>1. u[1] = f
        BY <2>2, ItemsHaveTags
    <3> QED
        BY <2>0, <2>2, <3>1
  <2>3. ASSUME NEW x, u = Test(x)
        PROVE  u[1] \in Tags /\ u # File("PythonReasoningAdapter")
      BY <2>0, <2>3, ItemsHaveTags
  <2> HIDE DEF Tags
  <2>4. CASE u \in Unasked
      BY <2>1, <2>2, <2>4 DEF Unasked, Forbidden, DeployContract
  <2>5. CASE u \in UnaskedTests
      BY <2>3, <2>5 DEF UnaskedTests
  <2> QED
      BY <2>4, <2>5
<1>2. \A x : /\ Calls(x) \notin U /\ Method(x) \notin U /\ Marker(x) \notin U
             /\ Engine(x) \notin U /\ Doc(x) \notin U /\ Product(x) \cap U = {}
  <2>1. \A x : /\ Calls(x)[1] \notin Tags /\ Method(x)[1] \notin Tags /\ Marker(x)[1] \notin Tags
               /\ Engine(x)[1] \notin Tags /\ Doc(x)[1] \notin Tags
      BY ItemsHaveTags
  <2>2. \A x : \A i \in Product(x) : i[1] \notin Tags
      BY ItemsHaveTags
  <2> HIDE DEF U, Tags
  <2> QED
      BY <1>1, <2>1, <2>2
<1>4. \A x : Test(x) \in U => Test(x) \in UnaskedTests
    BY DEF Unasked, Forbidden, DeployContract, Says, Test, File
<1>5. {Test("Reasoning"), Test("OrganizationalIntelligence"), Test("AutonomousOperations"),
       Test("PythonReasoningAdapter")} \cap UnaskedTests = {}
    BY DEF UnaskedTests, Test
<1>3. Written(m) \cap U = {}
    BY <1>1, <1>2, <1>4, <1>5 DEF Written, DeclaredArtifacts, Triple
<1> HIDE DEF U
<1> QED
    BY <1>2, <1>3 DEF Writing, U

-----------------------------------------------------------------------------
(* No mission targets what only the final qualification tests.             *)
EngineIsAsked == Test(decision.engine) \notin UnaskedTests

LEMMA SelectedEngineIsAsked == Test(SelectMission.engine) \notin UnaskedTests
<1> DEFINE Asked(e) == Test(e) \notin UnaskedTests
<1>1. Asked("AutonomousOperations") /\ Asked("none") /\ Asked("product")
    BY DEF UnaskedTests, Test
<1>2. \A i \in DOMAIN Backlog : Asked(Backlog[i].engine)
    BY DEF Backlog, Documented, Capability, UnaskedTests, Test
<1>3. \A i \in DOMAIN Extensions : Asked(Extensions[i].engine)
    BY DEF Extensions, UnaskedTests, Test
<1>4. \A i \in DOMAIN EngineDocuments : Asked(EngineDocuments[i])
    BY DEF EngineDocuments, UnaskedTests, Test
<1> HIDE DEF Asked
<1>5. Asked(NextMission.engine)
    BY <1>1 DEF NextMission, Mission
<1>6. Asked(SelectNextCapability.engine)
  <2> DEFINE files == [i \in DOMAIN Extensions |-> Extensions[i].files]
             Lacks(e) == e \in DiscoveredEngines(tree) /\ ~(Triple(e) \subseteq tree)
             I == {i \in 1..6 : ~(files[i] \subseteq tree)}
             J == {i \in 1..20 : Lacks(EngineDocuments[i])}
             engine == SelectInSeq(EngineDocuments, Lacks)
  <2>1. FirstMissing(files) \in DOMAIN Extensions \cup {0}
    <3>1. DOMAIN Extensions = 1..6 /\ Len(files) = 6
        BY DEF Extensions
    <3>2. FirstMissing(files) = IF I # {} THEN Min(I) ELSE 0
        BY <3>1 DEF FirstMissing, SelectInSeq
    <3> QED
        BY <3>1, <3>2, LeastOf
  <2>2. engine \in DOMAIN EngineDocuments \cup {0}
    <3>1. DOMAIN EngineDocuments = 1..20 /\ Len(EngineDocuments) = 20
        BY DEF EngineDocuments
    <3>2. engine = IF J # {} THEN Min(J) ELSE 0
        BY <3>1 DEF SelectInSeq
    <3> HIDE DEF Lacks
    <3> QED
        BY <3>1, <3>2, LeastOf
  <2>3. NextPlatformMission(tree) \in DOMAIN Backlog \cup {0}
      BY NextIsListed
  <2> HIDE DEF files, engine
  <2> QED
      BY <1>1, <1>2, <1>3, <1>4, <2>1, <2>2, <2>3
      DEF SelectNextCapability, NoDecision, Mission, files, engine, Lacks
<1> QED
    BY <1>1, <1>5, <1>6 DEF SelectMission, CanonicalBlock, Mission, Asked

LEMMA MissionsAreAsked == Spec => []EngineIsAsked
<1>1. Init => EngineIsAsked
    BY DEF Init, EngineIsAsked, NoDecision, Mission, UnaskedTests, Test
<1>2. EngineIsAsked /\ [Next]_vars => EngineIsAsked'
  <2>1. Test(NoDecision.engine) \notin UnaskedTests
      BY DEF NoDecision, Mission, UnaskedTests, Test
  <2> SUFFICES ASSUME EngineIsAsked, [Next]_vars
               PROVE  decision' \in {decision, NoDecision, SelectMission}
      BY <2>1, SelectedEngineIsAsked DEF EngineIsAsked
  <2> QED
      BY DEF Next, vars, StartRun, Select, WeaveNew, AcceptPresent, Rollback, Reweave,
             ReweaveWritesNothing, PersonEdits, PersonCommits, Advance, EndRun
<1> QED
    BY <1>1, <1>2, PTL DEF Spec

(* What the gates ask for and no mission builds comes from people alone:   *)
(* weaving, rolling back and weaving again never supply it.                *)
THEOREM UnaskedIsLeftToPeople == Spec => OnlyPeopleSupplyTheUnasked
<1> DEFINE U == Unasked \cup UnaskedTests
           Kept == PersonEdits \/ (tree' \cup head') \cap U \subseteq tree \cup head
<1>1. EngineIsAsked /\ [Next]_vars => [Kept]_vars
  <2> SUFFICES ASSUME EngineIsAsked, Next PROVE Kept
      OBVIOUS
  <2>1. \A t : Writing(decision, t) \cap U \subseteq t
      BY WritingAddsNothingUnasked DEF EngineIsAsked
  <2> HIDE DEF U
  <2>2. FailedAttempt \cap U \subseteq tree
      BY <2>1 DEF FailedAttempt
  <2>3. RolledBack \cap U \subseteq tree \cup head
      BY <2>2 DEF RolledBack
  <2>4. CASE StartRun \/ Select \/ AcceptPresent \/ ReweaveWritesNothing \/ PersonCommits
      BY <2>4 DEF StartRun, Select, AcceptPresent, ReweaveWritesNothing, PersonCommits
  <2>5. CASE WeaveNew
      BY <2>1, <2>5 DEF WeaveNew
  <2>6. CASE Rollback
      BY <2>3, <2>6 DEF Rollback
  <2>7. CASE Reweave
      BY <2>1, <2>7 DEF Reweave
  <2> QED
      BY <2>4, <2>5, <2>6, <2>7 DEF Next
<1> QED
    BY <1>1, MissionsAreAsked, PTL DEF Spec, OnlyPeopleSupplyTheUnasked

(* A commit of the daemon removes no file, and adds none its mission did   *)
(* not declare.                                                            *)
THEOREM CommitsStayDeclared == Spec => CommitsAddDeclaredFiles
<1> DEFINE Added == head' # head /\ ~PersonCommits =>
                        {i \in head : IsFile(i)} \subseteq head'
                        /\ {i \in head' \ head : IsFile(i)} \subseteq DeclaredArtifacts(decision)
<1>1. [Next]_vars => [Added]_vars
  <2> SUFFICES ASSUME Next, head' # head, ~PersonCommits
               PROVE  /\ {i \in head : IsFile(i)} \subseteq head'
                      /\ {i \in head' \ head : IsFile(i)} \subseteq DeclaredArtifacts(decision)
      OBVIOUS
  <2>1. WeaveNew \/ Reweave
      BY DEF Next, StartRun, Select, AcceptPresent, Rollback, ReweaveWritesNothing,
             PersonEdits
  <2>2. head' = Writing(decision, head) /\ Written(decision) \subseteq DeclaredArtifacts(decision)
      BY <2>1 DEF WeaveNew, Reweave, Clean
  <2> QED
      BY <2>2, WritingKeepsFiles
<1> QED
    BY <1>1, PTL DEF Spec, CommitsAddDeclaredFiles
=============================================================================
