------------------------- MODULE MCMissionSelection -------------------------
(* A repository in which everything is in place that some list asks for,   *)
(* and ones that lack a few items, one or two of each kind.                *)
EXTENDS MissionSelection

MCWhole ==
    UNION {Backlog[i].files : i \in DOMAIN Backlog}
    \cup {Test(Backlog[i].id) : i \in DOMAIN Backlog}
    \cup {Calls(Backlog[i].id) : i \in DOMAIN Backlog}
    \cup UNION {Extensions[i].files : i \in DOMAIN Extensions}
    \cup {Doc("CloudDeployment")}
    \cup {Marker(e) : e \in {"APIGateway", "Alerts", "BudgetIntelligence", "Dashboard",
                             "ProductionAcceptance", "Reports", "TaxIntelligence"}}
    \cup UNION {Product(ProductCapabilities[i]) : i \in DOMAIN ProductCapabilities}
    \cup CompletionEvidence \cup FinalEvidence
    \cup {Label(e) : e \in AuditedEngines \cup {"AIAssistant"}}
    \cup {Method(e) : e \in SemanticMethods}
    \cup {File("PRODUCT_ROADMAP"), Says("PRODUCT_ROADMAP", "JSON"), File("ROADMAP.md"),
          File("COMPLETION_CONTRACT"), Says("COMPLETION_CONTRACT", "layers"),
          File("persistence"), File("authentication"), Says("package.json", "start")}
    \cup ReadinessRequires \cup DeploymentRequires \cup PerformanceRequires
    \cup CustomerRequires \cup SecurityRequires

MCEditable ==
    {Doc("FinancialIntelligence"), Test("BudgetIntelligence"), Calls("Reports"),
     Engine("Reasoning"), Test("PythonReasoningAdapter"), Engine("SecurityLayer"),
     Method("Dashboard"), File("DeploymentController"), Doc("CloudDeployment"),
     Engine("ProductionAcceptance"), <<"product test", "DecisionWorkbench">>,
     File("LearningFeedbackLoop"), Engine("Memory"), File("persistence"),
     File("jest.config.js"), File("ROADMAP.md"), Test("AutonomousMissionController")}

MCStartTrees ==
    {MCWhole \ lacking : lacking \in
        {{}, Product("DecisionWorkbench"), Triple("SecurityLayer"), Triple("APIGateway"),
         Triple("ProductionAcceptance"), {Engine("Reasoning"), Test("Reasoning")}}
        \cup {{i} : i \in MCEditable}}
=============================================================================
