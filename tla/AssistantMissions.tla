-------------------------- MODULE AssistantMissions --------------------------
(***************************************************************************)
(* Missions of the assistant on the event loop of one process.  Callers    *)
(* start missions without waiting for one another, at any of four doors:   *)
(*   self      HooshyarSelfOperatingAssistant.runMission                   *)
(*   assistant HooshyarAutonomousAssistant.execute                         *)
(*   core      Assistant/Core/AutonomousAssistant.execute                  *)
(*   platform  AutonomousAssistantPlatform.boot                            *)
(* and the synchronous controllers (the operating system and the chief     *)
(* engineer).  A call runs up to its first await; what follows an await is *)
(* a job of the microtask queue, which is first in, first out.  The build  *)
(* daemon runs to its end inside one job, and may throw.                   *)
(***************************************************************************)
EXTENDS MissionPipeline, FiniteSets, SequencesExt

CONSTANTS
    Capabilities,   \* what weaving feedback is about
    MaxEvents       \* bound: calls and feedback in a behaviour

ASSUME EventsAssumption == MaxEvents \in Nat

VARIABLES
    calls,          \* the missions, numbered in the order of their calls
    jobs,           \* the microtask queue
    outcome,        \* of every mission: pending, fulfilled or rejected
    goals,          \* AutonomousGoalManager of the autonomous assistant
    decisions,      \* ArchitectureMemory of its mission controller and of the
                    \* controller each runtime has
    memory,         \* PersistentArchitectureMemory of each runtime
    knowledge,      \* DecisionKnowledgeStore of each runtime
    project,        \* ProjectExecutionMemory of the autonomous assistant
    history,        \* MissionHistoryEngine of the self-operating assistant
    builds,         \* history: the missions the build daemon was run for
    lessons,        \* LearningFeedbackLoop: the lesson of each capability
    feedback,       \* history: the weaving feedback it was given
    records,        \* ArchitectureDecisionMemory of the operating system
    development     \* DevelopmentMemory of the chief engineer controller

stores == <<goals, decisions, memory, knowledge, project, history, builds>>
controllers == <<records, development>>
learning == <<lessons, feedback>>
vars == <<calls, jobs, outcome, stores, learning, controllers>>

-----------------------------------------------------------------------------
Doors == {"self", "assistant", "core", "platform"}

(* Each of these objects makes a runtime of its own.                       *)
Owner(door) == IF door = "self" THEN "assistant" ELSE door
Owners == {Owner(d) : d \in Doors}

Missions == DOMAIN calls
Door(m) == calls[m].door
Goal(m) == calls[m].goal

(* What is left to run of a call once the awaited runtime answers.         *)
Continuations(door) ==
    CASE door = "self"      -> <<"assistant", "self">>
      [] door = "assistant" -> <<"assistant">>
      [] door = "core"      -> <<"core">>
      [] door = "platform"  -> <<"orchestrator", "platform">>

Job(m, steps, rejected) == [mission |-> m, steps |-> steps, rejected |-> rejected]

(* Fault: the job that became ready last is served first.                  *)
EnqueueFirst(queue, job) == <<job>> \o queue

(* A settled promise queues the continuation that awaits it.               *)
Enqueue(queue, job) == Append(queue, job)

Settle(results, m, rejected) ==
    [results EXCEPT ![m] = IF rejected THEN "rejected" ELSE "fulfilled"]

(* Fault: a rejection reaches nobody.                                      *)
ResumeFulfilled(m, rest, rejected) ==
    IF rejected THEN jobs' = Tail(jobs) /\ UNCHANGED outcome
    ELSE IF rest = <<>>
    THEN jobs' = Tail(jobs) /\ outcome' = Settle(outcome, m, rejected)
    ELSE jobs' = Enqueue(Tail(jobs), Job(m, rest, rejected)) /\ UNCHANGED outcome

(* The step of a job ended: the next one is queued, or the caller has its  *)
(* answer.                                                                 *)
Resume(m, rest, rejected) ==
    IF rest = <<>>
    THEN jobs' = Tail(jobs) /\ outcome' = Settle(outcome, m, rejected)
    ELSE jobs' = Enqueue(Tail(jobs), Job(m, rest, rejected)) /\ UNCHANGED outcome

Events == Len(calls) + Len(feedback) + Len(records) + Len(development)

-----------------------------------------------------------------------------
(* The stores, all of them arrays in the process.                          *)
CreateGoal(m) == goals' = Append(goals, m)
StoreDecision(c, m, goal) ==
    decisions' = IF ExecuteMission(goal).stored
                 THEN [decisions EXCEPT ![c] = Append(@, m)] ELSE decisions
SaveMemory(o, m) == memory' = [memory EXCEPT ![o] = Append(@, m)]
AddKnowledge(o, m) == knowledge' = [knowledge EXCEPT ![o] = Append(@, m)]
RecordProject(m) == project' = Append(project, m)
RecordHistory(m) == history' = Append(history, m)

(* A call up to its first await.  The autonomous assistant runs its own    *)
(* lifecycle first, and answers at once when that does not complete; the   *)
(* other doors ask their runtime whatever the goal.                        *)
BeginMission(door, goal) ==
    LET m      == Len(calls) + 1
        turned == Owner(door) = "assistant" /\ ExecuteMission(goal).status # "COMPLETED"
    IN  /\ calls' = Append(calls, [door |-> door, goal |-> goal])
        /\ IF turned
           THEN IF door = "self"
                THEN /\ jobs' = Enqueue(jobs, Job(m, <<"self">>, FALSE))
                     /\ outcome' = Append(outcome, "pending")
                ELSE UNCHANGED jobs /\ outcome' = Append(outcome, "fulfilled")
           ELSE /\ jobs' = Enqueue(jobs, Job(m, <<"runtime">> \o Continuations(door), FALSE))
                /\ outcome' = Append(outcome, "pending")

(* The autonomous assistant notes the goal and runs its own lifecycle.      *)
TakeGoal(goal) ==
    /\ CreateGoal(Len(calls) + 1)
    /\ StoreDecision("intake", Len(calls) + 1, goal)

(* runMission: its governance approves every plan.                         *)
RunMission(goal) ==
    /\ Events < MaxEvents
    /\ BeginMission("self", goal) /\ TakeGoal(goal)
    /\ UNCHANGED <<memory, knowledge, project, history, builds, learning, controllers>>

(* execute of the autonomous assistant, called by somebody else.           *)
ExecuteAssistant(goal) ==
    /\ Events < MaxEvents
    /\ BeginMission("assistant", goal) /\ TakeGoal(goal)
    /\ UNCHANGED <<memory, knowledge, project, history, builds, learning, controllers>>

(* execute of the core assistant: analyze only reads.                      *)
ExecuteCore(goal) ==
    /\ Events < MaxEvents
    /\ BeginMission("core", goal)
    /\ UNCHANGED <<stores, learning, controllers>>

BootPlatform(goal) ==
    /\ Events < MaxEvents
    /\ BeginMission("platform", goal)
    /\ UNCHANGED <<stores, learning, controllers>>

-----------------------------------------------------------------------------
(* The first job of the queue, and the step it is to run.                  *)
Running(step) == jobs # <<>> /\ Head(Head(jobs).steps) = step
Current == Head(jobs).mission
Rest == Tail(Head(jobs).steps)

(* AutonomousAssistantRuntime.execute behind its await: whatever the       *)
(* reasoning answered and whatever the lifecycle of its own controller     *)
(* says, the result is remembered.  It is no weaving feedback, so the      *)
(* learning loop learns nothing from it.                                   *)
RuntimeStep ==
    LET m == Current  o == Owner(Door(m))
    IN  /\ Running("runtime")
        /\ StoreDecision(o, m, Goal(m))
        /\ SaveMemory(o, m) /\ AddKnowledge(o, m)
        /\ Resume(m, Rest, FALSE)
        /\ UNCHANGED <<calls, goals, project, history, builds>>
        /\ UNCHANGED <<learning, controllers>>

(* Fault: the result is recorded before the daemon is run.                 *)
AssistantStepRecordsFirst(threw) ==
    LET m == Current
    IN  /\ Running("assistant")
        /\ builds' = Append(builds, m)
        /\ RecordProject(m)
        /\ Resume(m, Rest, threw)
        /\ UNCHANGED <<calls, goals, decisions, memory, knowledge, history>>
        /\ UNCHANGED <<learning, controllers>>

(* The rest of HooshyarAutonomousAssistant.execute: the daemon is run, and *)
(* only a run that returns is remembered as a result.                      *)
AssistantStep(threw) ==
    LET m == Current
    IN  /\ Running("assistant")
        /\ builds' = Append(builds, m)
        /\ IF threw THEN UNCHANGED project ELSE RecordProject(m)
        /\ Resume(m, Rest, threw)
        /\ UNCHANGED <<calls, goals, decisions, memory, knowledge, history>>
        /\ UNCHANGED <<learning, controllers>>

(* The rest of runMission: the history has every mission whose execution   *)
(* answered, the turned away ones too; a rejection passes it by.           *)
SelfStep ==
    LET m == Current
    IN  /\ Running("self")
        /\ IF Head(jobs).rejected THEN UNCHANGED history ELSE RecordHistory(m)
        /\ Resume(m, Rest, Head(jobs).rejected)
        /\ UNCHANGED <<calls, goals, decisions, memory, knowledge, project, builds>>
        /\ UNCHANGED <<learning, controllers>>

(* The rest of the core assistant's execute, whose build returns a label   *)
(* and whose remember keeps nothing, and of the two awaits of boot.        *)
PassStep ==
    /\ \E step \in {"core", "orchestrator", "platform"} : Running(step)
    /\ Resume(Current, Rest, FALSE)
    /\ UNCHANGED <<calls, stores, learning, controllers>>

RunJob == RuntimeStep \/ (\E threw \in BOOLEAN : AssistantStep(threw)) \/ SelfStep \/ PassStep

-----------------------------------------------------------------------------
(* What the weaving of a capability came to.  The daemon's caller says     *)
(* which recovery it used, or does not say; only a failure has a code.     *)
Recoveries == {"NONE", "ROLLBACK", "REPAIR"}
Feedback ==
    {f \in [capability : Capabilities, ok : BOOLEAN,
            recovery : Recoveries \cup {"unsaid"}, code : {"none", "generation", "verify"}] :
        f.ok => f.recovery = "NONE" /\ f.code = "none"}

NoLesson == [failureCount |-> 0, lastFailureCode |-> "none", preferredRecovery |-> "unsaid"]

(* Fault: a success starts the lesson anew.                                *)
LessonAfterForgets(previous, f) ==
    [failureCount |-> IF f.ok THEN 0 ELSE previous.failureCount + 1,
     lastFailureCode |-> f.code,
     preferredRecovery |-> IF f.ok THEN "NONE" ELSE "REPAIR"]

(* LearningFeedbackLoop.learn of weaving feedback                          *)
LessonAfter(previous, f) ==
    [failureCount |-> previous.failureCount + (IF f.ok THEN 0 ELSE 1),
     lastFailureCode |-> IF f.ok THEN previous.lastFailureCode ELSE f.code,
     preferredRecovery |->
        CASE f.ok -> "NONE"
          [] ~f.ok /\ f.recovery \in {"NONE", "unsaid"} -> "REPAIR"
          [] OTHER -> f.recovery]

Learn(f) ==
    /\ Events < MaxEvents
    /\ lessons' = [lessons EXCEPT ![f.capability] = LessonAfter(@, f)]
    /\ feedback' = Append(feedback, f)
    /\ UNCHANGED <<calls, jobs, outcome, stores, controllers>>

-----------------------------------------------------------------------------
(* The controllers that await nothing.  AutonomousOperatingSystem.run      *)
(* remembers an executed goal; its commit is a record of one, no commit.   *)
RunOperatingSystem(goal) ==
    /\ Events < MaxEvents /\ Approved(Decompose(goal))
    /\ records' = Append(records, Execute(Decompose(goal)))
    /\ UNCHANGED <<calls, jobs, outcome, stores, learning, development>>

(* ChiefEngineerController.execute: plans and remembers, executes nothing. *)
ExecuteChiefEngineer ==
    /\ Events < MaxEvents
    /\ development' = Append(development, "plan")
    /\ UNCHANGED <<calls, jobs, outcome, stores, learning, records>>

(* AutonomousChiefEngineer.run: executes, whatever its gate says, and      *)
(* remembers nothing.                                                      *)
RunChiefEngineer(goal) ==
    [approval |-> Approved(Decompose(goal)), execution |-> Execute(Decompose(goal))]

-----------------------------------------------------------------------------
Init ==
    /\ calls = <<>> /\ jobs = <<>> /\ outcome = <<>>
    /\ goals = <<>> /\ project = <<>> /\ history = <<>> /\ builds = <<>>
    /\ decisions = [c \in Owners \cup {"intake"} |-> <<>>]
    /\ memory = [o \in Owners |-> <<>>] /\ knowledge = [o \in Owners |-> <<>>]
    /\ lessons = [c \in Capabilities |-> NoLesson] /\ feedback = <<>>
    /\ records = <<>> /\ development = <<>>

Next ==
    \/ \E goal \in Goals :
        RunMission(goal) \/ ExecuteAssistant(goal) \/ ExecuteCore(goal) \/ BootPlatform(goal)
    \/ \E f \in Feedback : Learn(f)
    \/ \E goal \in Goals : RunOperatingSystem(goal)
    \/ ExecuteChiefEngineer
    \/ RunJob

(* The event loop serves its queue until it is empty.                      *)
Spec == Init /\ [][Next]_vars /\ WF_vars(RunJob)

-----------------------------------------------------------------------------
(* Properties.                                                             *)

InCallOrder(s) == \A i, j \in DOMAIN s : i < j => s[i] < s[j]
Stated(m) == Goal(m) = "stated"

(* Missions that overlap never pass one another: every store has the       *)
(* missions in the order of their calls, though each store is written      *)
(* behind a different number of awaits.  Only in the history may a blank   *)
(* goal come before a mission called earlier.                              *)
OneOrderEverywhere ==
    /\ \A s \in {goals, project, builds} : InCallOrder(s)
    /\ \A i, j \in DOMAIN history :
        i < j /\ Stated(history[i]) /\ Stated(history[j]) => history[i] < history[j]
    /\ \A o \in Owners : InCallOrder(memory[o]) /\ InCallOrder(knowledge[o])
    /\ \A c \in DOMAIN decisions : InCallOrder(decisions[c])

(* The daemon is run once for a mission, and only for one that its own     *)
(* controller and the runtime's completed and the runtime has learned of.  *)
BuildsAreEarned ==
    /\ IsInjective(builds)
    /\ \A m \in ToSet(builds) :
        /\ Stated(m)
        /\ m \in ToSet(decisions["intake"]) \cap ToSet(decisions["assistant"])
        /\ m \in ToSet(memory["assistant"]) \cap ToSet(knowledge["assistant"])

(* A settled mission of the autonomous assistant is in every store or, if  *)
(* the daemon threw, in those of the runtime and no further: the caller    *)
(* gets the error, and project memory and history deny the mission that    *)
(* the knowledge store and the repository have.                            *)
LostOnlyByDaemon ==
    \A m \in Missions :
        Owner(Door(m)) = "assistant" /\ Stated(m) /\ outcome[m] # "pending" =>
            /\ m \in ToSet(knowledge["assistant"]) \cap ToSet(builds)
            /\ m \in ToSet(project) <=> outcome[m] = "fulfilled"
            /\ Door(m) = "self" => (m \in ToSet(history) <=> outcome[m] = "fulfilled")

(* A lesson is what its feedback says: it counts the failures, keeps the   *)
(* code of the last one, and prefers no recovery once a weaving succeeds.  *)
LessonsSummarise ==
    \A c \in Capabilities :
        LET about  == {i \in DOMAIN feedback : feedback[i].capability = c}
            failed == {i \in about : ~feedback[i].ok}
            IsLast(places, i) == i \in places /\ \A j \in places : j <= i
        IN  /\ lessons[c].failureCount = Cardinality(failed)
            /\ \A i \in DOMAIN feedback :
                /\ IsLast(failed, i) => lessons[c].lastFailureCode = feedback[i].code
                /\ IsLast(about, i) =>
                       (lessons[c].preferredRecovery = "NONE" <=> feedback[i].ok)

(* No promise is dropped: a mission without an answer has a job in the     *)
(* queue, one and no more, and a mission that has one has none.            *)
NobodyIsDropped ==
    /\ \A m \in Missions :
        outcome[m] = "pending" <=> \E i \in DOMAIN jobs : jobs[i].mission = m
    /\ \A i, j \in DOMAIN jobs : jobs[i].mission = jobs[j].mission => i = j

(* The job at i comes closer to its mission's answer.                      *)
Advances(i) ==
    \/ outcome'[jobs[i].mission] # "pending"
    \/ \E k \in DOMAIN jobs' :
        /\ jobs'[k].mission = jobs[i].mission
        /\ \/ jobs'[k].steps = Tail(jobs[i].steps)
           \/ jobs'[k].steps = jobs[i].steps /\ k = i - 1

(* Every job that is run brings every mission that waits closer to its     *)
(* answer, by a place in the queue or by a stage, and nothing else that    *)
(* happens takes it back: later calls, failures and feedback delay nobody. *)
EveryTurnCounts ==
    [][\A i \in DOMAIN jobs :
        IF RunJob THEN Advances(i) ELSE i \in DOMAIN jobs' /\ jobs'[i] = jobs[i]]_vars

(* Every caller gets an answer.                                            *)
EveryMissionSettles ==
    \A m \in 1..MaxEvents : m \in Missions ~> (m \in Missions /\ outcome[m] # "pending")
=============================================================================
