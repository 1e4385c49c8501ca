------------------------- MODULE PerformanceBudget -------------------------
(***************************************************************************)
(* The time budget of the build daemon                                     *)
(* (Runtime/AutonomousPerformanceBudget.ts): a construction may go on for  *)
(* DeadlineMs from its first start, however often the daemon is restarted  *)
(* in between.  What outlives the process is a JSON file that is written   *)
(* in place; a write that fails is passed over, a file that cannot be read *)
(* counts as none.  The environment is the wall clock, which may be set    *)
(* back, the file system, and the death of the process.                    *)
(***************************************************************************)
EXTENDS Integers

CONSTANTS
    DeadlineMs,     \* the budget; the constructor takes at least 1
    MaxClock,       \* bound: the last instant of the clock
    MaxCycles       \* bound: completed cycles in a behaviour

ASSUME DeadlineAssumption == DeadlineMs \in Nat \ {0}
ASSUME ClockAssumption == MaxClock \in Nat /\ MaxCycles \in Nat

Instants == 0 .. MaxClock

(* PersistedPerformanceState, which is also what the object remembers.     *)
States == [startedAt : Instants, cycleCount : Nat, totalCycleElapsed : Nat]

VARIABLES
    clock,      \* Date.now()
    file,       \* the state file: [state |-> "absent" | "corrupt" | "valid", ...]
    phase,      \* the daemon: "down", "between" cycles, "starting" or "running" one
    budget,     \* the fields of the object while the daemon is up
    cycleStart, \* what beginCycle returned
    firstStart, \* history: when the construction was first started, or -1
    admittedAt, \* history: when assertWithinDeadline let the cycle through
    completed,  \* history: cycles completed so far, by every process
    lost,       \* history: a write of the state file failed or was cut short
    slipped     \* history: the clock was set back

vars == <<clock, file, phase, budget, cycleStart,
          firstStart, admittedAt, completed, lost, slipped>>

NoState == [startedAt |-> 0, cycleCount |-> 0, totalCycleElapsed |-> 0]

File(state, content) == [state |-> state, content |-> content]

Absent == File("absent", NoState)

Corrupt == File("corrupt", NoState)

(* Math.max(0, to - from)                                                  *)
Elapsed(from, to) == IF to > from THEN to - from ELSE 0

Init ==
    /\ clock \in Instants
    /\ file = Absent
    /\ phase = "down"
    /\ budget = NoState
    /\ cycleStart = 0
    /\ firstStart = -1
    /\ admittedAt = 0
    /\ completed = 0
    /\ lost = FALSE
    /\ slipped = FALSE

-----------------------------------------------------------------------------
(* Fault: the cycle telemetry is persisted, the start of the budget anew.  *)
LoadedRestarted ==
    IF file.state = "valid" THEN [file.content EXCEPT !.startedAt = clock]
    ELSE [NoState EXCEPT !.startedAt = clock]

(* loadState and the three ?? of the constructor.                          *)
Loaded ==
    IF file.state = "valid" THEN file.content
    ELSE [NoState EXCEPT !.startedAt = clock]

(* persist, writing the state b.  The write is done; or it fails, with the *)
(* file untouched or already truncated, and nobody is told.                *)
Persist(b) ==
    \/ file' = File("valid", b) /\ UNCHANGED lost
    \/ file' \in {file, Corrupt} /\ lost' = TRUE

(* The process dies in the middle of a write.                              *)
DiesWriting ==
    /\ file' = Corrupt
    /\ lost' = TRUE
    /\ phase' = "down"
    /\ budget' = NoState

(* The daemon is started: the constructor.                                 *)
Construct ==
    /\ phase = "down"
    /\ firstStart' = IF firstStart = -1 THEN clock ELSE firstStart
    /\ \/ /\ budget' = Loaded
          /\ Persist(Loaded)
          /\ phase' = "between"
       \/ DiesWriting
    /\ UNCHANGED <<clock, cycleStart, admittedAt, completed, slipped>>

(* beginCycle; the clock is read once more by assertWithinDeadline.        *)
BeginCycle ==
    /\ phase = "between"
    /\ completed < MaxCycles
    /\ cycleStart' = clock
    /\ phase' = "starting"
    /\ UNCHANGED <<clock, file, budget, firstStart, admittedAt, completed, lost, slipped>>

DeadlineExceeded == Elapsed(budget.startedAt, clock) >= DeadlineMs

Admit ==
    /\ phase = "starting"
    /\ ~DeadlineExceeded
    /\ admittedAt' = clock
    /\ phase' = "running"
    /\ UNCHANGED <<clock, file, budget, cycleStart, firstStart, completed, lost, slipped>>

(* assertWithinDeadline throws, and the daemon returns.                    *)
Refuse ==
    /\ phase = "starting"
    /\ DeadlineExceeded
    /\ phase' = "down"
    /\ budget' = NoState
    /\ UNCHANGED <<clock, file, cycleStart, firstStart, admittedAt, completed, lost, slipped>>

(* Fault: the cycle is timed from the start of the budget.                 *)
CycleAddedFromStart ==
    [budget EXCEPT !.cycleCount = @ + 1,
                   !.totalCycleElapsed = @ + Elapsed(budget.startedAt, clock)]

CycleAdded ==
    [budget EXCEPT !.cycleCount = @ + 1,
                   !.totalCycleElapsed = @ + Elapsed(cycleStart, clock)]

(* Fault: the file is written when the daemon starts, not after a cycle.   *)
CompleteUnpersisted ==
    /\ phase = "running"
    /\ completed' = completed + 1
    /\ budget' = CycleAdded
    /\ phase' = "between"
    /\ UNCHANGED <<clock, file, lost, cycleStart, firstStart, admittedAt, slipped>>

(* completeCycle, called once at each of the ends a cycle may come to.     *)
CompleteCycle ==
    /\ phase = "running"
    /\ completed' = completed + 1
    /\ \/ /\ budget' = CycleAdded
          /\ Persist(CycleAdded)
          /\ phase' = "between"
       \/ DiesWriting
    /\ UNCHANGED <<clock, cycleStart, firstStart, admittedAt, slipped>>

(* The daemon returns between two cycles, or dies anywhere.                *)
Leave ==
    /\ phase # "down"
    /\ phase' = "down"
    /\ budget' = NoState
    /\ UNCHANGED <<clock, file, cycleStart, firstStart, admittedAt, completed, lost, slipped>>

Tick ==
    /\ clock < MaxClock
    /\ clock' = clock + 1
    /\ UNCHANGED <<file, phase, budget, cycleStart, firstStart, admittedAt,
                   completed, lost, slipped>>

SetBack ==
    /\ clock > 0
    /\ clock' \in 0 .. (clock - 1)
    /\ slipped' = TRUE
    /\ UNCHANGED <<file, phase, budget, cycleStart, firstStart, admittedAt,
                   completed, lost>>

Next ==
    \/ Construct \/ BeginCycle \/ Admit \/ Refuse \/ CompleteCycle \/ Leave
    \/ Tick \/ SetBack

Spec == Init /\ [][Next]_vars

-----------------------------------------------------------------------------
(* The types, with everything the state file may hold.                     *)
TypeOK ==
    /\ clock \in Instants
    /\ file \in [state : {"absent", "corrupt", "valid"}, content : States]
    /\ phase \in {"down", "between", "starting", "running"}
    /\ budget \in States
    /\ cycleStart \in Instants
    /\ firstStart \in Instants \cup {-1}
    /\ admittedAt \in Instants
    /\ completed \in 0 .. MaxCycles
    /\ lost \in BOOLEAN
    /\ slipped \in BOOLEAN

(* As long as no write of the state file was lost, every cycle was let     *)
(* through within the budget of the first start: through any number of     *)
(* restarts, crashes in the middle of a cycle, and clocks set back.        *)
CyclesWithinBudget ==
    phase = "running" /\ ~lost => admittedAt < firstStart + DeadlineMs

(* As long as no write was lost, the telemetry accounts for every cycle    *)
(* any process completed, in memory and in the file.                       *)
TelemetryComplete ==
    ~lost =>
        /\ phase # "down" => budget.cycleCount = completed
        /\ file.state = "valid" => file.content.cycleCount = completed
        /\ file.state # "valid" => completed = 0

(* The time the cycles took is time that passed since the budget started:  *)
(* cycles do not overlap, and a restart neither counts a cycle twice nor   *)
(* keeps the cycles of a budget it has forgotten.  True of a clock that is *)
(* not set back, whatever becomes of the writes.                           *)
CyclesFitElapsedTime ==
    ~slipped /\ phase # "down" =>
        budget.totalCycleElapsed <= clock - budget.startedAt
=============================================================================
