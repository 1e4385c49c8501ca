-------------------------- MODULE MissionSelection --------------------------
(***************************************************************************)
(* What the build daemon decides to do with a working tree, and what the   *)
(* tree is after it did it: AutonomousBuildDaemon.selectMission over the   *)
(* tables of CapabilityEvidence, and a cycle of run() with the effects of  *)
(* the Python agent and of the rollback.  BuildDaemon and                  *)
(* ConstructionEngine have the steps of a cycle one by one, and the git    *)
(* commands that fail; here a cycle is one step and git answers.  Around   *)
(* the daemon, people edit the tree and commit.                            *)
(***************************************************************************)
EXTENDS CapabilityEvidence

CONSTANTS
    StartTrees,     \* the trees a behaviour may start from, committed
    Editable,       \* the items people remove and put back
    MaxEdits,       \* bound: edits of people in a behaviour
    MaxCycles       \* the maxCycles option

ASSUME BoundsAssumption == MaxEdits \in Nat /\ MaxCycles \in Nat \ {0}

VARIABLES
    tree,           \* the working tree
    head,           \* the tree of the commit checked out
    decision,       \* what selectMission last returned in this run
    fresh,          \* history: it returned that for the present tree
    status,         \* run() is running, or the status it returned
    cycle,          \* its loop variable
    edits           \* counted for the bound

vars == <<tree, head, decision, fresh, status, cycle, edits>>

Clean == tree = head

-----------------------------------------------------------------------------
(* Missions: the capability's id, the engine it targets, and the kind of   *)
(* the decision.                                                           *)
Mission(kind, id, engine) == [kind |-> kind, id |-> id, engine |-> engine]
NoDecision == Mission("none", "none", "none")
CanonicalBlock == Mission("platform-audit-blocked", "canonical", "none")
Weavable == {"mission", "platform-continuation"}

(* nextMission, the gate passed or not.                                    *)
NextMission ==
    CASE CompletionEvidence \subseteq tree ->
            Mission("gate", "assistant.completion.gate", "AutonomousOperations")
      [] ~(AssistantParts \subseteq tree) ->
            Mission("mission", "assistant.completion.evidence", "AutonomousOperations")
      [] AssistantParts \subseteq tree /\ ~(CompletionEvidence \subseteq tree) ->
            IF Clean
            THEN Mission("gate", "assistant.completion.gate", "AutonomousOperations")
            ELSE Mission("mission", "repair", "AutonomousOperations")

(* The place of the first of the listed sets of files that is incomplete.  *)
FirstMissing(required) == SelectInSeq(required, LAMBDA files : ~(files \subseteq tree))

(* selectNextCapability: the backlog, the extensions, what is discovered.  *)
SelectNextCapability ==
    LET next      == NextPlatformMission(tree)
        extension == FirstMissing([i \in DOMAIN Extensions |-> Extensions[i].files])
        engine    == SelectInSeq(EngineDocuments,
                         LAMBDA e : e \in DiscoveredEngines(tree) /\ ~(Triple(e) \subseteq tree))
        products  == DiscoveredProducts(tree)
        product   == FirstMissing([i \in DOMAIN products |-> Product(products[i])])
        Continue(id, owner) == Mission("platform-continuation", id, owner)
    IN  CASE next # 0 -> Continue(Backlog[next].id, Backlog[next].engine)
          [] next = 0 /\ extension # 0 ->
                Continue(Extensions[extension].engine, Extensions[extension].engine)
          [] next = 0 /\ extension = 0 /\ engine # 0 ->
                Continue(EngineDocuments[engine], EngineDocuments[engine])
          [] next = 0 /\ extension = 0 /\ engine = 0 /\ product # 0 ->
                Continue(products[product], "product")
          [] OTHER -> NoDecision

(* selectMission                                                           *)
SelectMission ==
    CASE NextMission.kind # "gate" -> NextMission
      [] NextMission.kind = "gate" /\ SelectNextCapability # NoDecision -> SelectNextCapability
      [] NextMission.kind = "gate" /\ SelectNextCapability = NoDecision ->
            CASE ~(Clean /\ FinalEvidence \subseteq tree) ->
                    Mission("mission", "assistant.completion.evidence", "AutonomousOperations")
              [] Clean /\ FinalEvidence \subseteq tree /\ ~CanonicalComplete(tree) ->
                    CanonicalBlock
              [] Clean /\ FinalEvidence \subseteq tree /\ CanonicalComplete(tree)
                 /\ CommercialMissing(tree) # {} ->
                    Mission("platform-audit-blocked", "commercial", "none")
              [] OTHER -> Mission("platform-complete", "none", "none")

-----------------------------------------------------------------------------
(* What the agent writes for a mission, and what it asks for first.        *)
Platform == {"UserManagement", "OrganizationModel", "SecurityLayer", "APIGateway"}
Scripted == Platform \cup {"Reasoning", "OrganizationalIntelligence", "PythonReasoningAdapter"}

(* declaredArtifactPaths                                                   *)
DeclaredArtifacts(m) ==
    IF m.engine = "product" THEN Product(m.id) ELSE Triple(m.engine)

(* An engine of the assistant's own backlog is an engine and its test; the *)
(* mission assistant.completion.evidence is not in the agent's list.       *)
Written(m) ==
    CASE m.id \in {"Reasoning", "OrganizationalIntelligence", "AutonomousOperations"} ->
            {Engine(m.id), Test(m.id)}
      [] m.id = "PythonReasoningAdapter" -> {File(m.id), Test(m.id)}
      [] OTHER -> DeclaredArtifacts(m)

Needs(m) ==
    CASE m.id = "OrganizationModel" -> Triple("UserManagement")
      [] m.id = "SecurityLayer" -> Triple("UserManagement") \cup Triple("OrganizationModel")
      [] m.id = "APIGateway" -> Triple("SecurityLayer")
      [] m.id = "PythonReasoningAdapter" ->
            {Engine("Reasoning"), File(m.id), Test(m.id), File("reasoning_engine.py")}
      [] OTHER -> {}

(* Behaviour and tests of it are in what it has a script for; anything     *)
(* else becomes a scaffold whose test calls only what the audit ignores,   *)
(* with a document that declares the capability.                           *)
Writing(m, t) ==
    LET facts == {Calls(m.id), Method(m.id), Calls(m.engine), Method(m.engine)}
    IN  CASE m.id \in Scripted \cup {"AutonomousOperations"} ->
                t \cup Written(m) \cup {Calls(m.id), Method(m.id)}
          [] m.engine = "product" -> t \cup Written(m)
          [] OTHER -> (t \ facts) \cup Written(m) \cup {Marker(m.engine)}

(* write_missing writes all or nothing; only of the gateway it looks at    *)
(* what the files say.                                                     *)
Writes(m) ==
    /\ Needs(m) \subseteq tree
    /\ \/ Written(m) \cap tree = {}
       \/ m.id = "APIGateway" /\ ~({Engine(m.id), Test(m.id), Calls(m.id)} \subseteq tree)

AlreadyImplemented(m) ==
    Needs(m) \subseteq tree /\ Written(m) \subseteq tree /\ ~Writes(m)

Advance ==
    /\ decision' = NoDecision
    /\ IF cycle = MaxCycles
       THEN status' = "cycle_limit" /\ UNCHANGED cycle
       ELSE cycle' = cycle + 1 /\ UNCHANGED status

EndRun(s) == status' = s /\ UNCHANGED <<decision, cycle>>

-----------------------------------------------------------------------------
Init ==
    /\ tree \in StartTrees /\ head = tree
    /\ decision = NoDecision /\ fresh = FALSE
    /\ status = "none" /\ cycle = 1 /\ edits = 0

StartRun ==
    /\ status # "running"
    /\ status' = "running" /\ cycle' = 1 /\ decision' = NoDecision /\ fresh' = FALSE
    /\ UNCHANGED <<tree, head, edits>>

(* AutonomousWeavingPlanner.plan: nothing but a repair on a dirty tree.     *)
RefusesDirtyTree(m) == m.kind \in Weavable /\ m.id # "repair" /\ ~Clean

(* A cycle begins: selectMission, and an end of the run if it finds the    *)
(* platform complete, an audit against it, or nothing it may build on.     *)
Select ==
    /\ status = "running" /\ decision = NoDecision
    /\ decision' = SelectMission
    /\ fresh' = TRUE
    /\ status' = CASE decision'.kind = "platform-complete" -> "completed"
                   [] decision'.kind = "platform-audit-blocked" -> "blocked"
                   [] decision'.kind \in Weavable ->
                        IF RefusesDirtyTree(decision') THEN "blocked" ELSE "running"
    /\ UNCHANGED <<tree, head, cycle, edits>>

Weaving == status = "running" /\ decision.kind \in Weavable

WeaveNew ==
    /\ Weaving /\ Clean
    /\ Writes(decision) /\ Written(decision) \subseteq DeclaredArtifacts(decision)
    /\ tree' = Writing(decision, tree) /\ head' = tree'
    /\ fresh' = FALSE
    /\ Advance
    /\ UNCHANGED edits

(* An idempotent knot, verified as it is.                                  *)
AcceptPresent ==
    /\ Weaving /\ Clean /\ AlreadyImplemented(decision)
    /\ Advance
    /\ UNCHANGED <<tree, head, fresh, edits>>

(* What the first attempt left when it failed: on a dirty tree, on files   *)
(* of which some exist, outside its artifacts, or in its tests.            *)
FailedAttempt == IF Clean /\ Writes(decision) THEN Writing(decision, tree) ELSE tree

IsFile(item) ==
    item[1] \in {"Engines", "test", "Docs/Engines", "file", "Product", "product test",
                 "Docs/Product"}

(* AutonomousKnotRecovery.rollback: reset, and clean of a product's files; *)
(* other files that git does not track stay, and it throws.                *)
RolledBack ==
    LET untracked == {i \in FailedAttempt \ head : IsFile(i)}
        cleaned == IF decision.engine = "product" THEN Product(decision.id) ELSE {}
    IN  head \cup (untracked \ cleaned)

Rollback ==
    /\ Weaving
    /\ RolledBack # head
    /\ tree' = RolledBack
    /\ fresh' = FALSE
    /\ EndRun("blocked")
    /\ UNCHANGED <<head, edits>>

(* The second attempt, with the tree back at the checkpoint: the agent is  *)
(* told to repair, and writes over whatever is there.                      *)
Reweave ==
    /\ Weaving
    /\ RolledBack = head
    /\ Needs(decision) \subseteq head
    /\ Writing(decision, head) # head
    /\ tree' = Writing(decision, head)
    /\ \/ /\ Written(decision) \subseteq DeclaredArtifacts(decision)
          /\ head' = tree'
          /\ Advance
       \/ /\ UNCHANGED head             \* outside its artifacts, or tests fail
          /\ EndRun("blocked")
    /\ fresh' = FALSE
    /\ UNCHANGED edits

ReweaveWritesNothing ==
    /\ Weaving
    /\ RolledBack = head
    /\ ~(Needs(decision) \subseteq head) \/ Writing(decision, head) = head
    /\ tree' = head
    /\ fresh' = (fresh /\ Clean)
    /\ EndRun("blocked")
    /\ UNCHANGED <<head, edits>>

(* People.                                                                 *)
PersonEdits ==
    /\ edits < MaxEdits
    /\ \E i \in Editable : tree' = IF i \in tree THEN tree \ {i} ELSE tree \cup {i}
    /\ edits' = edits + 1
    /\ fresh' = FALSE
    /\ UNCHANGED <<head, decision, status, cycle>>

PersonCommits ==
    /\ ~Clean
    /\ head' = tree
    /\ fresh' = FALSE
    /\ UNCHANGED <<tree, decision, status, cycle, edits>>

Next ==
    \/ StartRun \/ Select \/ WeaveNew \/ AcceptPresent
    \/ Rollback \/ Reweave \/ ReweaveWritesNothing \/ PersonEdits \/ PersonCommits

Spec == Init /\ [][Next]_vars

-----------------------------------------------------------------------------
(* What no mission asks for, whatever is missing of it.                    *)
Unasked ==
    {File(f) : f \in {"tsconfig.json", "jest.config.js", "ARCHITECTURE.md", ".gitignore",
        "AI_RULES.md", "performance/performance_engine.py",
        "performance_engine/performance_engine.py"}}
    \cup Forbidden
    \cup {Says("package.json", "autonomous:build"),
          Says("AutonomousBuildDaemon", "completion gate"), DeployContract}

(* When the daemon calls the platform complete, its four lists of what     *)
(* that takes do agree: every entry of the backlog is implemented, each on *)
(* implemented dependencies (the selection did not merely get stuck), and  *)
(* the gates of a release and the final qualification, which keep lists of *)
(* their own, can only ask for what no mission of the daemon builds.       *)
CompleteMeansBuilt ==
    (decision.kind = "platform-complete" /\ fresh) =>
        /\ Implemented(tree) = DOMAIN Backlog
        /\ AcceptanceBlockers(tree) \subseteq Unasked
        /\ QualificationMissing(tree) \subseteq UnaskedTests

(* When the canonical audit ends a run, it names something that is missing *)
(* (the daemon has two more reasons to give, and never gives them), and no *)
(* mission could have built it: everything it asks for and the selection   *)
(* looks for too is there.  What is left are the method names of its own   *)
(* table, the one document that no backlog entry has, and the roadmap.     *)
AuditBlocksOnWhatIsUnasked ==
    (decision = CanonicalBlock /\ fresh) =>
        /\ Implemented(tree) = DOMAIN Backlog
        /\ CanonicalMissing(tree) # {}
        /\ CanonicalMissing(tree) \subseteq
               {File("ROADMAP.md"), Doc("CloudDeployment")} \cup {Method(e) : e \in SemanticMethods}

(* What the gates miss of a tree that is complete for the daemon stays     *)
(* missing until a person supplies it: no cycle, no rollback and no repair *)
(* puts any of it into the tree or a commit, nor a forbidden file.         *)
OnlyPeopleSupplyTheUnasked ==
    [][PersonEdits \/ (tree' \cup head') \cap (Unasked \cup UnaskedTests) \subseteq tree \cup head]_vars

(* What the daemon commits keeps every file that was committed, and of the *)
(* new ones each is an artifact its mission declares.                      *)
CommitsAddDeclaredFiles ==
    [][head' # head /\ ~PersonCommits =>
        {i \in head : IsFile(i)} \subseteq head'
        /\ {i \in head' \ head : IsFile(i)} \subseteq DeclaredArtifacts(decision)]_vars

(* A cycle of the daemon commits no tree in which tests have stopped to    *)
(* call what they tested: construction adds to trusted work, or leaves it. *)
TrustedWorkKept ==
    [][cycle' = cycle + 1 => {i \in head : i[1] = "calls"} \subseteq head']_vars
=============================================================================
