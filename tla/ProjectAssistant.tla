-------------------------- MODULE ProjectAssistant --------------------------
(***************************************************************************)
(* The projects of Core/ and the assistant that analyses one.  The project *)
(* pilot records each creation in a memory engine it makes for itself,     *)
(* with a reaction engine subscribed; the assistant engine reads its       *)
(* events from another one, also its own.  Confidences are in hundredths.  *)
(***************************************************************************)
EXTENDS Naturals, Sequences

CONSTANT Names      \* names of projects; a project may have the name ""

VARIABLES
    projects,       \* ProjectRegistry, in the order of creation
    pilotMemory,    \* the memory engine of the project pilot
    pilotReactions, \* what its reaction engine answered, which nobody reads
    assistantMemory \* the memory engine of the assistant engine

projectVars == <<projects, pilotMemory, pilotReactions, assistantMemory>>

ProjectStatuses == {"Planning", "Active", "Completed", "Archived"}
Project == [name : Names, status : ProjectStatuses]
Event(name) == [type |-> "PROJECT_CREATED", data |-> name, source |-> "ProjectPilotEngine"]

React(event) ==
    IF event.type = "PROJECT_CREATED" THEN "PROJECT_INSIGHT_REQUIRED" ELSE "NO_ACTION"

(* MemoryEngine.store, with a reaction engine subscribed.                  *)
Remember(event) ==
    /\ pilotMemory' = Append(pilotMemory, event)
    /\ pilotReactions' = Append(pilotReactions, React(event))

CreateProject(name) ==
    /\ projects' = Append(projects, [name |-> name, status |-> "Planning"])
    /\ Remember(Event(name))
    /\ UNCHANGED assistantMemory

(* activate, complete and archive: any of them whatever the status is.     *)
ChangeStatus(i, status) ==
    /\ projects' = [projects EXCEPT ![i] = [name |-> @.name, status |-> status]]
    /\ UNCHANGED <<pilotMemory, pilotReactions, assistantMemory>>

ProjectInit ==
    /\ projects = <<>> /\ pilotMemory = <<>> /\ pilotReactions = <<>>
    /\ assistantMemory = <<>>

ProjectNext ==
    \/ \E name \in Names : CreateProject(name)
    \/ \E i \in DOMAIN projects, status \in ProjectStatuses \ {"Planning"} :
          ChangeStatus(i, status)

ProjectSpec == ProjectInit /\ [][ProjectNext]_projectVars

-----------------------------------------------------------------------------
(* DecisionEngine.evaluateProject, AssistantReasoning.analyze              *)
EvaluateProject(status) ==
    CASE status = "Planning" -> "Start project planning"
      [] status = "Active" -> "Monitor project progress"
      [] status = "Completed" -> "Review project results"
      [] status = "Archived" -> "Archive project records"

Recommend(status) ==
    CASE status = "Planning" -> "Define milestones and execution steps."
      [] status = "Active" -> "Monitor progress and evaluate performance."
      [] status \in {"Completed", "Archived"} -> "Review project condition."

(* AssistantConfidence.calculate: the score stays within one by itself, so *)
(* its cap is never reached.                                               *)
Confidence(context) ==
    50 + (IF context.project.name # "" THEN 20 ELSE 0)
       + (IF context.memories # <<>> THEN 20 ELSE 0)
       + (IF context.project.status # "" THEN 10 ELSE 0)

(* AssistantEngine.createContext and analyzeProject                        *)
Context(i) == [project |-> projects[i], memories |-> assistantMemory]

AnalyzeProject(i) ==
    [recommendation |-> Recommend(projects[i].status),
     decision |-> EvaluateProject(projects[i].status),
     confidence |-> Confidence(Context(i))]

-----------------------------------------------------------------------------
(* Properties.                                                             *)

(* The pilot's memory has one creation for each project, in their order,   *)
(* whatever became of the project since, and each was reacted to.          *)
CreationsRemembered ==
    /\ Len(pilotMemory) = Len(projects) /\ Len(pilotReactions) = Len(projects)
    /\ \A i \in 1..Len(projects) :
          pilotMemory[i] = Event(projects[i].name)
          /\ pilotReactions[i] = "PROJECT_INSIGHT_REQUIRED"

(* Nothing that is remembered about projects ever reaches the assistant:   *)
(* it is never more than eighty per cent confident, of a project with a    *)
(* name and a history as of one that is new.                               *)
ConfidenceIgnoresHistory ==
    \A i \in 1..Len(projects) :
        AnalyzeProject(i).confidence = IF projects[i].name # "" THEN 80 ELSE 60
=============================================================================
