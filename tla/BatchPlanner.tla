---------------------------- MODULE BatchPlanner ----------------------------
(***************************************************************************)
(* AutonomousConstructionBatchPlanner.plan: capabilities in batches that   *)
(* may be built in parallel.  A batch is found by one walk over what       *)
(* remains, in the order of the list; an id listed twice keeps its first   *)
(* place and its last description, as the Map of the code does.            *)
(***************************************************************************)
EXTENDS Naturals, Sequences

CONSTANTS
    Listed,         \* the ids in the order of the list, each once
    Owner,          \* the owner of each listed id
    DependsOn       \* what each listed id depends on, listed or not

VARIABLES
    at,             \* the place of the walk
    remaining,      \* the ids in no batch yet
    completed,      \* the ids of the batches made
    selectedOwners, \* the owners the present batch has
    ready,          \* the ids of the present batch
    batches,        \* the batches made, a set of ids each
    outcome         \* planning, planned, or the error for a cycle

planVars == <<at, remaining, completed, selectedOwners, ready, batches, outcome>>

Ids == {Listed[i] : i \in DOMAIN Listed}

(* What is listed is a finite list.                                        *)
ListIsFinite == \E n \in Nat : DOMAIN Listed = 1..n

-----------------------------------------------------------------------------
(* A dependency that is not in the list is nobody's to wait for.           *)
DependenciesReady(id) ==
    \A d \in DependsOn[id] : d \in completed \/ d \notin Ids

Walking == outcome = "planning" /\ remaining # {} /\ at \in DOMAIN Listed
WalkEnded == outcome = "planning" /\ remaining # {} /\ at \notin DOMAIN Listed

TakeReady ==
    LET id == Listed[at]
    IN  /\ Walking
        /\ id \in remaining /\ DependenciesReady(id) /\ Owner[id] \notin selectedOwners
        /\ ready' = ready \cup {id}
        /\ selectedOwners' = selectedOwners \cup {Owner[id]}
        /\ at' = at + 1
        /\ UNCHANGED <<remaining, completed, batches, outcome>>

Pass ==
    LET id == Listed[at]
    IN  /\ Walking
        /\ ~(id \in remaining /\ DependenciesReady(id) /\ Owner[id] \notin selectedOwners)
        /\ at' = at + 1
        /\ UNCHANGED <<remaining, completed, selectedOwners, ready, batches, outcome>>

CloseBatch ==
    /\ WalkEnded /\ ready # {}
    /\ batches' = Append(batches, ready)
    /\ remaining' = remaining \ ready
    /\ completed' = completed \cup ready
    /\ at' = 1 /\ selectedOwners' = {} /\ ready' = {}
    /\ UNCHANGED outcome

(* AUTONOMOUS_BATCH_CYCLE_OR_UNRESOLVED_DEPENDENCY                         *)
Refuse ==
    /\ WalkEnded /\ ready = {}
    /\ outcome' = "cycle"
    /\ UNCHANGED <<at, remaining, completed, selectedOwners, ready, batches>>

Return ==
    /\ outcome = "planning" /\ remaining = {}
    /\ outcome' = "planned"
    /\ UNCHANGED <<at, remaining, completed, selectedOwners, ready, batches>>

-----------------------------------------------------------------------------
PlanInit ==
    /\ at = 1 /\ remaining = Ids /\ completed = {}
    /\ selectedOwners = {} /\ ready = {} /\ batches = <<>>
    /\ outcome = "planning"

PlanNext == TakeReady \/ Pass \/ CloseBatch \/ Refuse \/ Return

PlannerSpec == PlanInit /\ [][PlanNext]_planVars

-----------------------------------------------------------------------------
(* Properties.                                                             *)

(* Whatever a capability depends on is in an earlier batch.                *)
DependenciesFirst ==
    \A n \in DOMAIN batches : \A id \in batches[n] : \A d \in DependsOn[id] \cap Ids :
        \E k \in 1..(n - 1) : d \in batches[k]

(* Two capabilities of a batch never have the same owner.                  *)
OwnersApart ==
    \A n \in DOMAIN batches : \A a, b \in batches[n] : Owner[a] = Owner[b] => a = b

(* No capability is in two batches, and a plan that is returned has them   *)
(* all.                                                                    *)
EachPlannedOnce ==
    /\ \A n, k \in DOMAIN batches : n # k => batches[n] \cap batches[k] = {}
    /\ outcome = "planned" => \A id \in Ids : \E n \in DOMAIN batches : id \in batches[n]

(* The planner gives up only where everything that remains waits for       *)
(* something that remains: never for want of an owner.                     *)
RefusesOnlyCycles ==
    outcome = "cycle" =>
        /\ remaining # {}
        /\ \A id \in remaining : \E d \in DependsOn[id] : d \in remaining
=============================================================================
