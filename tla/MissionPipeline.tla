--------------------------- MODULE MissionPipeline ---------------------------
(***************************************************************************)
(* The mission lifecycle every controller of the assistant runs through:   *)
(* AutonomousMissionController.executeMission with its decomposer, its     *)
(* gate and its executor.  A goal is the one thing the lifecycle looks at: *)
(* whether it says anything at all.                                        *)
(***************************************************************************)
EXTENDS Naturals, Sequences

Goals == {"stated", "blank"}

(* TaskDecomposer: the same three tasks for every goal.                    *)
Decompose(goal) ==
    [i \in 1..3 |-> [task |-> <<"Analyze", "Implement", "Test">>[i], executed |-> FALSE]]

(* GovernanceGate                                                          *)
Approved(tasks) == TRUE

(* AutonomousExecutionLoop: every task, marked as executed.                *)
Execute(tasks) == [i \in DOMAIN tasks |-> [tasks[i] EXCEPT !.executed = TRUE]]

Verified(tasks, execution) ==
    /\ Len(execution) = Len(tasks)
    /\ \A i \in DOMAIN execution : execution[i].executed

(* Fault: the blank goal is not turned away.                               *)
ExecuteAnyMission(goal) == [status |-> "COMPLETED", stage |-> "LEARN", stored |-> TRUE]

(* executeMission: the status, the stage it stopped in, and whether the    *)
(* controller's ArchitectureMemory stores the record.  A blank goal is     *)
(* turned away before anything is remembered of it.  The branch for an     *)
(* executor that throws has no case: this executor does not.               *)
ExecuteMission(goal) ==
    LET tasks     == Decompose(goal)
        execution == Execute(tasks)
        Record(status, stage, stored) ==
            [status |-> status, stage |-> stage, stored |-> stored]
    IN  CASE goal = "blank" -> Record("FAILED", "OBSERVE", FALSE)
          [] goal # "blank" /\ ~Approved(tasks) -> Record("BLOCKED", "DECIDE", TRUE)
          [] goal # "blank" /\ Approved(tasks) /\ ~Verified(tasks, execution) ->
                Record("FAILED", "VERIFY", TRUE)
          [] OTHER -> Record("COMPLETED", "LEARN", TRUE)
=============================================================================
