-------------------------- MODULE ProjectConductor --------------------------
(***************************************************************************)
(* The two conductors that look for what the project lacks.  A repository  *)
(* is what its inventory shows: the words its text evidences, how many     *)
(* builder files share a name, and whether it has repairers and tools.     *)
(***************************************************************************)
EXTENDS Naturals

(* The target of the assistant's analyze.                                  *)
TargetEngines ==
    {"Reasoning Engine", "Governance Engine", "Executive Intelligence Engine",
     "Organizational Intelligence Engine", "Autonomous Operations Engine"}
RequiredCapabilities ==
    {"autonomous construction", "mission planning", "reasoning", "verification", "learning"}

(* inventory and readProjectText: the text is that of the first 5000 files *)
(* with a textual extension; a file that cannot be read says nothing.      *)
Repositories ==
    [evidenced : SUBSET (TargetEngines \cup RequiredCapabilities),
     builders : [STRING -> Nat],
     repairers : BOOLEAN, tools : BOOLEAN]

DuplicateNames(repository) ==
    {name \in DOMAIN repository.builders : repository.builders[name] > 1}

Gap(kind, about, priority) == [kind |-> kind, about |-> about, priority |-> priority]

(* findGaps                                                                *)
Gaps(repository) ==
    {Gap("engine", e, 100) : e \in TargetEngines \ repository.evidenced}
    \cup {Gap("capability", c, 90) : c \in RequiredCapabilities \ repository.evidenced}
    \cup {Gap("duplicate-builder", n, 70) : n \in DuplicateNames(repository)}
    \cup (IF repository.repairers THEN {} ELSE {Gap("self-healing", "fabric", 95)})
    \cup (IF repository.tools THEN {} ELSE {Gap("tools", "fabric", 95)})

(* inspect: the next action is the first of the gaps of highest priority.  *)
NextActions(repository) ==
    {g \in Gaps(repository) : \A h \in Gaps(repository) : g.priority >= h.priority}

Status(repository) == IF Gaps(repository) = {} THEN "COMPLETE" ELSE "READY"

-----------------------------------------------------------------------------
(* The other conductor knows one gap, and has a supervisor build it:       *)
(* AutonomousBuildSupervisor repeats the build loop until a cycle          *)
(* completes, maxCycles times at most.  Results is what each cycle would   *)
(* come to.                                                                *)
InspectInventory(capabilities) ==
    IF "autonomous-self-healing" \in capabilities THEN {} ELSE {"autonomous-self-healing"}

(* AutonomousBuilderLoop.run                                               *)
LoopStatus(ok) == IF ok THEN "completed" ELSE "blocked"

RunsCycle(results, cycle) ==
    \A earlier \in 1..(cycle - 1) : LoopStatus(results[earlier]) = "blocked"

Cycles(results, maxCycles) ==
    {cycle \in 1..maxCycles : RunsCycle(results, cycle)}

(* AutonomousProjectConductor.execute, and auditPlatform and               *)
(* constructPlatform of the mission controller, which refuse to go on      *)
(* without a conductor.                                                    *)
Construct(hasConductor, capabilities, results, maxCycles) ==
    IF hasConductor
    THEN [gap \in InspectInventory(capabilities) |-> Cycles(results, maxCycles)]
    ELSE "CONSTRUCTION_CONDUCTOR_REQUIRED"
=============================================================================
