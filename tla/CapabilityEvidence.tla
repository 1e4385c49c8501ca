------------------------- MODULE CapabilityEvidence -------------------------
(***************************************************************************)
(* What the build daemon's mission, continuation and completion audits,    *)
(* and the gates of a release, read from the working tree.  Each keeps a   *)
(* table of its own; the tables are the ones of the source.  The tree is a *)
(* set of items: files, and what is to be read in files.                   *)
(***************************************************************************)
EXTENDS Naturals, FiniteSets, SequencesExt

Engine(e) == <<"Engines", e>>         \* Backend/HBOS/Engines/<e>Engine.ts
Test(t) == <<"test", t>>              \* Backend/HBOS/test/<t>.test.ts
Doc(e) == <<"Docs/Engines", e>>       \* Docs/Engines/<e>Engine.md
File(f) == <<"file", f>>              \* any other file, or one of several
Calls(t) == <<"calls", t>>            \* test t calls a method of what it tests
Method(e) == <<"method", e>>          \* engine e has the method of the roadmap
Marker(e) == <<"marker", e>>          \* Doc(e) declares a capability
Label(e) == <<"label", e>>            \* the roadmap names e
Says(f, text) == <<f, text>>          \* file f contains a text that is required
Product(p) == {<<part, p>> : part \in {"Product", "product test", "Docs/Product"}}

(***************************************************************************)
(* AutonomousProjectMission: the backlog, in order.                        *)
(***************************************************************************)
Capability(id, engine, deps, files) ==
    [id |-> id, engine |-> engine, deps |-> deps, files |-> files]

Documented(e, deps) == Capability(e, e, deps, {Engine(e), Doc(e)})

Backlog == <<
    Documented("UserManagement", {"HBOSCore", "Governance"}),
    Documented("OrganizationModel", {"HBOSCore", "UserManagement"}),
    Documented("SecurityLayer", {"Governance", "UserManagement", "OrganizationModel"}),
    Documented("APIGateway", {"SecurityLayer"}),
    Capability("Reasoning", "Reasoning", {"Memory", "Knowledge", "Decision"},
        {Engine("Reasoning"), File("reasoning_engine.py")}),
    Capability("OrganizationalIntelligence", "OrganizationalIntelligence",
        {"Memory", "Knowledge", "ProjectPilot"}, {Engine("OrganizationalIntelligence")}),
    Capability("AutonomousOperations", "AutonomousOperations",
        {"Governance", "Decision", "ProjectPilot", "HealthMonitor"},
        {Engine("AutonomousOperations")}),
    Capability("PythonReasoningAdapter", "Reasoning", {"Reasoning", "AIRuntime"},
        {Engine("Reasoning"), File("PythonReasoningAdapter"), File("reasoning_engine.py")}),
    Documented("FinancialIntelligence", {"Reasoning", "Governance"}),
    Documented("BudgetIntelligence", {"FinancialIntelligence"}),
    Documented("TaxIntelligence", {"FinancialIntelligence"}),
    Capability("RiskIntelligence", "RiskIntelligence",
        {"FinancialIntelligence", "Reasoning"}, {Engine("RiskIntelligence")}),
    Documented("Dashboard", {"ExecutiveIntelligence"}),
    Documented("Reports", {"Dashboard"}),
    Documented("Alerts", {"Dashboard"}),
    Documented("ProductionReadiness", {"AutonomousOperations", "SecurityLayer"}),
    Documented("SecurityAudit", {"ProductionReadiness", "SecurityLayer"}),
    Documented("PerformanceTesting", {"ProductionReadiness"}),
    Documented("CustomerTesting", {"ProductionReadiness", "PerformanceTesting"}),
    Documented("DeploymentReadiness",
        {"ProductionReadiness", "SecurityAudit", "PerformanceTesting", "CustomerTesting"}),
    Documented("DeploymentContract", {"DeploymentReadiness"}),
    Capability("CloudDeployment", "CloudDeployment", {"DeploymentContract"},
        {Engine("CloudDeployment"), File("DeploymentController")}) >>

(* The entry a dependency names, the first of its engine; 0 if it is none  *)
(* of the backlog's and is not looked for.                                 *)
Resolve(dependency) ==
    SelectInSeq(Backlog, LAMBDA c : c.engine = dependency \/ c.id = dependency)

RestsOn == [i \in DOMAIN Backlog |-> {Resolve(d) : d \in Backlog[i].deps} \ {0}]

(* Fault: documentation is no evidence.                                    *)
EvidentUndocumented(c, tree) ==
    {f \in c.files : f[1] # "Docs/Engines"} \cup {Test(c.id), Calls(c.id)} \subseteq tree

(* isCapabilityImplemented without the dependencies: CapabilityEvidenceAudit *)
(* and behaviorContractSatisfied.                                          *)
Evident(c, tree) == c.files \cup {Test(c.id), Calls(c.id)} \subseteq tree

(* The entries implemented, each on implemented dependencies.              *)
Implemented(tree) ==
    LET implemented[i \in DOMAIN Backlog] ==
            Evident(Backlog[i], tree) /\ \A j \in RestsOn[i] : implemented[j]
    IN  {i \in DOMAIN Backlog : implemented[i]}

(* Fault: a dependency outside the backlog counts as one that is missing.  *)
NextPlatformMissionKnown(tree) ==
    LET implemented == Implemented(tree)
    IN  SelectInSeq([i \in DOMAIN Backlog |-> i],
            LAMBDA i : /\ i \notin implemented
                       /\ \A d \in Backlog[i].deps : Resolve(d) \in implemented)

(* nextPlatformMission: the first that is missing and rests on implemented *)
(* ones; 0 if there is none.                                               *)
NextPlatformMission(tree) ==
    LET implemented == Implemented(tree)
    IN  SelectInSeq([i \in DOMAIN Backlog |-> i],
                    LAMBDA i : i \notin implemented /\ RestsOn[i] \subseteq implemented)

(***************************************************************************)
(* The assistant: nextAssistantCapability, assistantCompletionEvidence and *)
(* the daemon's finalCompletionEvidence, three lists that overlap.         *)
(***************************************************************************)
AssistantParts == {File(f) : f \in {
    "AutonomousAssistantRuntime", "AutonomousMissionController",
    "HooshyarAutonomousAssistant", "PythonReasoningAdapter",
    "PersistentArchitectureMemory", "DecisionKnowledgeStore",
    "ContextRetrievalEngine", "LearningFeedbackLoop", "AutonomousProjectConductor",
    "LocalConstructionToolset", "AutonomousBuildDaemon", "AutonomousDevelopmentLoop",
    "ArchitectureDrivenBuildController", "AutonomousConstructionEngine",
    "autonomous_builder.py", "reasoning_engine.py", "AGENTS.md", "SYSTEM_PROMPT.md"}}

AssistantTests == {Test(t) : t \in {
    "AutonomousMissionController", "AutonomousAssistantRuntime",
    "HooshyarAutonomousAssistant", "PythonReasoningAdapter"}}

CompletionEvidence == AssistantParts \cup AssistantTests

FinalEvidence ==
    {File(f) : f \in {
        "AutonomousAssistantRuntime", "AutonomousMissionController",
        "HooshyarAutonomousAssistant", "PythonReasoningAdapter",
        "AutonomousBuildDaemon", "AutonomousDevelopmentLoop",
        "ArchitectureDrivenBuildController", "AutonomousConstructionEngine",
        "autonomous_builder.py", "reasoning_engine.py", "AGENTS.md", "SYSTEM_PROMPT.md"}}
    \cup AssistantTests
    \cup {Engine(e) : e \in {"Memory", "Knowledge", "Decision", "Governance"}}

(***************************************************************************)
(* AutonomousPlatformContinuation and AutonomousCapabilityDiscovery.       *)
(***************************************************************************)
Triple(e) == {Engine(e), Test(e), Doc(e)}

Extensions == <<
    [engine |-> "PerformanceTesting", files |-> Triple("PerformanceTesting")],
    [engine |-> "CustomerTesting", files |-> Triple("CustomerTesting")],
    [engine |-> "DeploymentReadiness", files |-> Triple("DeploymentReadiness")],
    [engine |-> "DeploymentContract", files |-> Triple("DeploymentContract")],
    [engine |-> "CloudDeployment",
     files |-> {Engine("CloudDeployment"), Test("CloudDeployment"),
                File("DeploymentController"), File("cloud_deployment.py")}],
    [engine |-> "ProductionAcceptance", files |-> Triple("ProductionAcceptance")] >>

(* Documents of Docs/Engines, sorted by name.                              *)
EngineDocuments == <<
    "APIGateway", "Alerts", "AutonomousOperations", "BudgetIntelligence",
    "CloudDeployment", "CustomerTesting", "Dashboard", "DeploymentContract",
    "DeploymentReadiness", "FinancialIntelligence", "OrganizationModel",
    "PerformanceTesting", "ProductionAcceptance", "ProductionReadiness", "Reports",
    "RiskIntelligence", "SecurityAudit", "SecurityLayer", "TaxIntelligence",
    "UserManagement" >>

ProductCapabilities == <<
    "FinancialDataIngestionAdapter", "FinancialStatementAnalysisService",
    "ExecutiveIntelligenceWorkbench", "DecisionWorkbench",
    "OrganizationalExecutionCoordinator" >>

(* discoverEngineCapabilities                                              *)
DiscoveredEngines(tree) ==
    {e \in Range(EngineDocuments) : {Doc(e), Marker(e)} \subseteq tree}

(* discoverProductCapabilities; a roadmap that is no JSON has none.        *)
DiscoveredProducts(tree) ==
    IF {File("PRODUCT_ROADMAP"), Says("PRODUCT_ROADMAP", "JSON")} \subseteq tree
    THEN ProductCapabilities ELSE <<>>

(***************************************************************************)
(* CanonicalCapabilityAudit and CommercialProductCompletionAudit.          *)
(***************************************************************************)
AuditedEngines == {
    "UserManagement", "OrganizationModel", "SecurityLayer", "APIGateway",
    "FinancialIntelligence", "BudgetIntelligence", "TaxIntelligence",
    "RiskIntelligence", "Dashboard", "Reports", "Alerts", "ProductionReadiness",
    "SecurityAudit", "PerformanceTesting", "CustomerTesting",
    "DeploymentReadiness", "DeploymentContract", "CloudDeployment"}

SemanticMethods == {
    "UserManagement", "OrganizationModel", "SecurityLayer", "APIGateway",
    "FinancialIntelligence", "BudgetIntelligence", "TaxIntelligence",
    "RiskIntelligence", "Dashboard", "Reports", "Alerts"}

Artifacts(label) ==
    CASE label = "AIAssistant" ->
            {File("HooshyarAutonomousAssistant"), Test("HooshyarAutonomousAssistant")}
      [] label = "RiskIntelligence" -> {Engine(label), Test(label)}
      [] label = "CloudDeployment" ->
            Triple(label) \cup {File("DeploymentController"), File("cloud_deployment.py")}
      [] OTHER -> Triple(label)

(* What the capabilities that the roadmap names lack.                      *)
NamedMissing(tree) ==
    LET labels == {l \in AuditedEngines \cup {"AIAssistant"} : Label(l) \in tree}
    IN  (UNION {Artifacts(l) \ tree : l \in labels})
        \cup {Method(e) : e \in {l \in labels \cap SemanticMethods :
                                    Engine(l) \in tree /\ Method(l) \notin tree}}

(* missingArtifacts: without the roadmap itself nothing else is looked at. *)
CanonicalMissing(tree) ==
    IF File("ROADMAP.md") \in tree THEN NamedMissing(tree) ELSE {File("ROADMAP.md")}

(* Fault: the roadmap that names the capabilities need not be there.       *)
CanonicalCompleteUnread(tree) ==
    NextPlatformMission(tree) = 0 /\ NamedMissing(tree) = {}

CanonicalComplete(tree) ==
    /\ File("ROADMAP.md") \in tree
    /\ NextPlatformMission(tree) = 0
    /\ CanonicalMissing(tree) = {}

(* The directories of which one must exist are one item each.              *)
CommercialMissing(tree) ==
    ({File("COMPLETION_CONTRACT"), Says("COMPLETION_CONTRACT", "layers"),
      File("package.json"), File("persistence"), File("authentication")}
     \cup {Engine(e) : e \in {"APIGateway", "UserManagement", "OrganizationModel",
                              "Dashboard", "Reports", "DeploymentContract"}}
     \cup (IF Says("package.json", "start") \in tree THEN {} ELSE {File("web")}))
    \ tree

(***************************************************************************)
(* The gates of a release: ProductionAcceptanceEngine with the audits it   *)
(* asks, and the tests of scripts/final-product-qualification.cjs.         *)
(***************************************************************************)
DeployContract == Says("DeploymentController", "deploy")

ReadinessRequires ==
    {File(f) : f \in {"package.json", "tsconfig.json", "jest.config.js",
        "ARCHITECTURE.md", "ROADMAP.md", "AGENTS.md", "SYSTEM_PROMPT.md",
        "autonomous_builder.py", "reasoning_engine.py",
        "HooshyarAutonomousAssistant", "AutonomousBuildDaemon",
        "DeploymentController", "cloud_deployment.py"}}
    \cup {Engine(e) : e \in {"ProductionReadiness", "SecurityAudit",
        "PerformanceTesting", "CustomerTesting", "DeploymentReadiness",
        "DeploymentContract", "CloudDeployment"}}
    \cup {Says("package.json", "autonomous:build"),
          Says("AutonomousBuildDaemon", "completion gate"), DeployContract}

DeploymentRequires ==
    {File("package.json"), File("tsconfig.json"), File("jest.config.js"),
     File("ROADMAP.md"), File("DeploymentController"), DeployContract}

PerformanceRequires ==
    {File("package.json"), File("tsconfig.json"), File("jest.config.js"),
     File("performance/performance_engine.py"),
     File("performance_engine/performance_engine.py")} \cup Triple("PerformanceTesting")

CustomerRequires ==
    {File("package.json"), File("tsconfig.json"), File("jest.config.js"),
     Engine("PerformanceTesting"), Test("PerformanceTesting")} \cup Triple("CustomerTesting")

SecurityRequires ==
    {File(".gitignore"), File("AGENTS.md"), File("AI_RULES.md"),
     File("SYSTEM_PROMPT.md"), Engine("SecurityLayer")}

(* Environment files, keys and workers of cloud providers.                 *)
Forbidden == {File("secrets"), File("cloud provider")}

AcceptanceBlockers(tree) ==
    ((ReadinessRequires \cup DeploymentRequires \cup PerformanceRequires
        \cup CustomerRequires \cup SecurityRequires) \ tree)
    \cup (Forbidden \cap tree)

QualifiedEngines == {
    "ProductionReadiness", "SecurityAudit", "SecurityLayer", "Dashboard",
    "FinancialIntelligence", "BudgetIntelligence", "RiskIntelligence", "Reports",
    "Alerts", "Reasoning", "PythonReasoningAdapter", "DeploymentContract",
    "CloudDeployment", "DeploymentReadiness"}

(* Wherever the test is; that of a service of the product is beside the    *)
(* service here, and not where the roadmap of the product asks for one.    *)
UnaskedTests == {Test(t) : t \in {
    "FinalProductRuntimeQualification", "CommercialRuntimeBusinessFlow",
    "HBOSBootIntegration", "EngineRegistry", "EngineDependencyManager",
    "BootDependencyValidator", "FinancialStatementAnalysisService",
    "TenantIsolationVerification", "SystemReadiness", "ProductionSecurityEvidence",
    "DecisionIntelligence", "AIRuntime", "WindowsProductInstallerContract"}}

QualificationMissing(tree) ==
    (UnaskedTests \cup {Test(e) : e \in QualifiedEngines}) \ tree
=============================================================================
