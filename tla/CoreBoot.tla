------------------------------ MODULE CoreBoot ------------------------------
(***************************************************************************)
(* How HBOS decides that it is up: the dependencies engines register, the  *)
(* statuses of the lifecycle manager, the report of the health monitor,    *)
(* the boot report made from it, and boot of HBOS itself.  Each is a map   *)
(* or a list its callers hand from one to the next.                        *)
(***************************************************************************)
EXTENDS Naturals, Sequences

Statuses == {"CREATED", "INITIALIZED", "RUNNING", "PAUSED", "STOPPED", "FAILED"}

(* A Map: what was set last for a key is what it has.                      *)
Set(map, key, value) ==
    [k \in DOMAIN map \cup {key} |-> IF k = key THEN value ELSE map[k]]

-----------------------------------------------------------------------------
(* EngineDependencyManager and BootDependencyValidator                     *)
NoDependencies == [e \in {} |-> {}]

RegisterDependency(dependencies, engine, dependsOn) ==
    Set(dependencies, engine, dependsOn)

GetDependencies(dependencies, engine) ==
    IF engine \in DOMAIN dependencies THEN dependencies[engine] ELSE {}

Validate(dependencies, engine, available) ==
    \A d \in GetDependencies(dependencies, engine) : d \in available

CanBoot(dependencies, engine, available) == Validate(dependencies, engine, available)

-----------------------------------------------------------------------------
(* EngineLifecycleManager: any status may follow any other, and an engine  *)
(* that is registered again has the status it is registered with.          *)
RegisterEngine(statuses, engine, status) == Set(statuses, engine, status)
UpdateStatus(statuses, engine, status) == Set(statuses, engine, status)

(* HealthMonitorEngine                                                     *)
CheckEngine(statuses, engine) ==
    LET status == IF engine \in DOMAIN statuses THEN statuses[engine] ELSE "UNKNOWN"
    IN  [engine |-> engine, status |-> status, healthy |-> status = "RUNNING"]

GenerateReport(statuses, engines) ==
    LET report == {CheckEngine(statuses, e) : e \in engines}
    IN  [system  |-> IF \A item \in report : item.healthy THEN "READY" ELSE "DEGRADED",
         engines |-> report]

(* BootReportGenerator; STARTING and FAILED are never reported.            *)
GenerateBootReport(engines, dependenciesPassed, bootDuration) ==
    [status |-> IF (\A e \in engines : e.healthy) /\ dependenciesPassed
                THEN "READY" ELSE "DEGRADED",
     engines |-> engines,
     passed |-> dependenciesPassed,
     bootDuration |-> bootDuration]

(* BootTimer: zero when it was never started.                              *)
StopTimer(startTime, now) == IF startTime = 0 THEN 0 ELSE now - startTime

(* HBOSBootService: starts its timer, stops it, and reports.               *)
StartBoot(engines, dependenciesPassed, start, stop) ==
    GenerateBootReport(engines, dependenciesPassed, StopTimer(start, stop))

-----------------------------------------------------------------------------
(* The constructor of HBOS: what it registers, by the names the engines    *)
(* have, and the one dependency, by other names.                           *)
Registered ==
    <<"MemoryEngine", "ReactionEngine", "DecisionEngine", "ProjectPilotEngine",
      "KnowledgeEngine", "AssistantEngine">>

Dependencies ==
    RegisterDependency(NoDependencies, "Assistant Engine",
                       {"Memory Engine", "Knowledge Engine"})

(* EngineRegistry: health of every engine is constant.                     *)
HealthReport(engines) ==
    [i \in DOMAIN engines |-> [name |-> engines[i], healthy |-> TRUE]]

GetEngine(engines, name) == {i \in DOMAIN engines :
    engines[i] = name /\ \A j \in DOMAIN engines : engines[j] = name => i <= j}

(* boot: its list of available engines is a constant of its own.           *)
AvailableEngines ==
    {"Memory Engine", "Reaction Engine", "Decision Engine", "Project Pilot Engine",
     "Knowledge Engine", "Assistant Engine"}

Boot == CanBoot(Dependencies, "Assistant Engine", AvailableEngines)
=============================================================================
