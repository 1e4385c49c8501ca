---------------------------- MODULE BuildDaemon ----------------------------
(***************************************************************************)
(* The autonomous build daemon (Runtime/AutonomousBuildDaemon.ts): run     *)
(* after run, it picks the next knot of the backlog, lets the construction *)
(* engine weave it with the repository's tools, and on a failure goes back *)
(* to its checkpoint and weaves the knot once more.  The engine is         *)
(* ConstructionEngine, the repository ConstructionRepository; an action    *)
(* here conjoins a step of the engine with the effect of the tool it       *)
(* calls.  Around the daemon, people push to the remote, git commands      *)
(* fail, and the process dies.                                             *)
(***************************************************************************)
EXTENDS ConstructionEngine, ConstructionRepository

CONSTANTS
    Backlog,        \* capabilityBacklog(), in its order
    Extensions,     \* the extensions of AutonomousPlatformContinuation
    Gate,           \* assistant.completion.evidence, outside the backlog
    Opaque,         \* foreign patches whose knots the audit does not recognise
    MaxCycles,      \* the maxCycles option
    MaxRuns,        \* bound: runs of the daemon in a behaviour
    MaxCrashes      \* bound: crashes in a behaviour

ASSUME BacklogAssumption ==
    /\ Backlog \in Seq(Knots) /\ Extensions \in Seq(Knots)
    /\ Gate \in Knots \ (Range(Backlog) \cup Range(Extensions))
    /\ Opaque \subseteq Foreign
ASSUME BoundsAssumption == MaxCycles \in Nat /\ MaxRuns \in Nat /\ MaxCrashes \in Nat

VARIABLES
    mode,           \* what run() is doing: off, deciding, weaving, reweaving
    cycle,          \* its loop variable
    mission,        \* the capability of the cycle
    checkpoint,     \* before.commit: the head the cycle began from
    built,          \* knots this run advanced over, with a commit
    presumed,       \* knots this run advanced over as idempotent
    status,         \* the status the last run returned
    runs, crashes,  \* counted for the bounds
    provenKnots,    \* history: knots some build of which was proven
    provenTree,     \* history: the content that VERIFY last proved this cycle
    found,          \* history: the uncommitted changes the run started on
    misread         \* history: a snapshot of this run missed a dirty tree

runVars == <<mode, cycle, mission, checkpoint, built, presumed, status>>
boundVars == <<runs, crashes>>
historyVars == <<provenKnots, provenTree, found, misread>>
vars == <<engineVars, repositoryVars, runVars, boundVars, historyVars>>

NoCommit == <<NoKnot>>   \* the "" of a snapshot whose git rev-parse failed

Init ==
    /\ EngineInit
    /\ RepositoryInit
    /\ mode = "off" /\ cycle = 0 /\ mission = NoKnot /\ checkpoint = NoCommit
    /\ built = {} /\ presumed = {} /\ status = "none"
    /\ runs = 0 /\ crashes = 0
    /\ provenKnots = {} /\ provenTree = NoCommit /\ found = {} /\ misread = FALSE

-----------------------------------------------------------------------------
(* AutonomousProjectMission.snapshot: a git command that fails reads as no *)
(* commit, and as a clean tree.                                            *)
Snapshots ==
    [commit : {head} \cup (IF GitMayFail THEN {NoCommit} ELSE {}),
     clean  : {Clean} \cup (IF GitMayFail THEN {TRUE} ELSE {})]

(* isCapabilityImplemented looks at the files and at their text.  Of what  *)
(* the agent wrote without a text of its own it finds no behaviour it      *)
(* counts: the tests of such a scaffold call only methods it ignores.      *)
Recognised(k) ==
    \/ Current(k) \in OwnPatches(k) /\ k \in Scripted
    \/ Current(k) \in Foreign \ Opaque

Implemented(k) == \A d \in Deps[k] \cup {k} : Recognised(d)

(* Fault: the audit of the knot itself is left out.                        *)
ReadyUnaudited(k) == \A d \in Deps[k] : Implemented(d)

Ready(k) == ~Implemented(k) /\ \A d \in Deps[k] : Implemented(d)

First(s, Test(_)) ==
    LET i == SelectInSeq(s, Test) IN IF i = 0 THEN NoKnot ELSE s[i]

(* selectNextCapability: the backlog first, then the first extension with  *)
(* a missing artifact, whatever it depends on.                             *)
NextCapability ==
    LET canonical == First(Backlog, Ready)
    IN  IF canonical # NoKnot THEN canonical
        ELSE First(Extensions, LAMBDA k : ~Exists(k))

(* finalCompletionEvidence, the assistant's files being in place.          *)
EvidenceComplete(evidence) == evidence.clean /\ evidence.commit # NoCommit

EndRun(s) ==
    /\ mode' = "off"
    /\ status' = s
    /\ UNCHANGED <<cycle, mission, checkpoint, built, presumed>>

StartRun ==
    /\ mode = "off"
    /\ runs < MaxRuns
    /\ mode' = IF MaxCycles = 0 THEN "off" ELSE "deciding"
    /\ cycle' = IF MaxCycles = 0 THEN 0 ELSE 1
    /\ status' = IF MaxCycles = 0 THEN "cycle_limit" ELSE "none"
    /\ mission' = NoKnot
    /\ checkpoint' = NoCommit
    /\ built' = {} /\ presumed' = {}
    /\ found' = worktree /\ misread' = FALSE
    /\ runs' = runs + 1
    /\ UNCHANGED <<engineVars, repositoryVars, crashes, provenKnots, provenTree>>

(* assertWithinDeadline throws: the budget (PerformanceBudget) is used up. *)
DeadlinePassed ==
    /\ mode = "deciding"
    /\ EndRun("blocked")
    /\ UNCHANGED <<engineVars, repositoryVars, boundVars, historyVars>>

(* Fault: the planner weaves whatever the tree looks like.                 *)
WeaveAnyway(k, before) ==
    /\ mode' = "weaving"
    /\ mission' = k
    /\ checkpoint' = before.commit
    /\ misread' = (misread \/ before.clean # Clean)
    /\ provenTree' = NoCommit
    /\ Begin("complete")
    /\ UNCHANGED <<repositoryVars, cycle, built, presumed, status, boundVars,
                   provenKnots, found>>

(* A new cycle takes its checkpoint and hands the knot to the engine,      *)
(* unless the tree it saw is dirty (AutonomousWeavingPlanner).             *)
Weave(k, before) ==
    /\ before.clean
    /\ mode' = "weaving"
    /\ mission' = k
    /\ checkpoint' = before.commit
    /\ misread' = (misread \/ before.clean # Clean)
    /\ provenTree' = NoCommit
    /\ Begin("complete")
    /\ UNCHANGED <<repositoryVars, cycle, built, presumed, status, boundVars,
                   provenKnots, found>>

RefuseToWeave(before) ==
    /\ ~before.clean
    /\ EndRun("blocked")
    /\ UNCHANGED <<engineVars, repositoryVars, boundVars, historyVars>>

BeginCycle ==
    /\ mode = "deciding"
    /\ NextCapability # NoKnot
    /\ \E before \in Snapshots :
          \/ Weave(NextCapability, before)
          \/ RefuseToWeave(before)

(* Nothing is left to build, but the tree is dirty or HEAD unknown.        *)
BeginGateCycle ==
    /\ mode = "deciding"
    /\ NextCapability = NoKnot
    /\ \E before, evidence \in Snapshots :
          /\ ~EvidenceComplete(evidence)
          /\ Weave(Gate, before) \/ RefuseToWeave(before)

(* Nothing is left to build: the canonical and the commercial audit decide.*)
AuditCompletion ==
    /\ mode = "deciding"
    /\ NextCapability = NoKnot
    /\ \E evidence \in Snapshots : EvidenceComplete(evidence)
    /\ \E outcome \in {"completed", "blocked"} : EndRun(outcome)
    /\ UNCHANGED <<engineVars, repositoryVars, boundVars, historyVars>>

-----------------------------------------------------------------------------
(* The engine at work on the mission, with the tools of the repository.    *)
Weaving == mode \in {"weaving", "reweaving"}

Repairing == mode = "reweaving"     \* the capability id begins with repair-

daemonVars == <<runVars, boundVars, historyVars>>

PrepareBuild ==
    /\ Weaving
    /\ \/ \E answer \in Answers["ARCHITECTURE"] : RunArchitecture(answer)
       \/ \E answer \in Answers["PLAN"] : RunPlan(answer)
    /\ UNCHANGED <<repositoryVars, daemonVars>>

GenerateKnot ==
    /\ Weaving
    /\ \/ Generate("failed") /\ GenerateRefused
       \/ Generate("failed") /\ GenerateFailed(mission, Repairing)
       \/ Generate("produced") /\ GenerateProduced(mission, Repairing)
       \/ Generate("noop") /\ GenerateNoop(mission, Repairing)
    /\ UNCHANGED daemonVars

TreeUnderTest == IF Clean THEN head ELSE Append(head, pending)

VerifyKnot ==
    /\ Weaving
    /\ \E answer \in Answers["VERIFY"] :
          /\ Verify(answer)
          /\ IF answer = "proven"
             THEN /\ provenKnots' = provenKnots \cup {mission}
                  /\ provenTree' = TreeUnderTest
             ELSE UNCHANGED <<provenKnots, provenTree>>
    /\ UNCHANGED <<repositoryVars, runVars, boundVars, found, misread>>

(* The shipped tools have nothing that repairs: the stage just answers.    *)
RepairKnot ==
    /\ Weaving
    /\ \E answer \in Answers["REPAIR"] : Repair(answer)
    /\ UNCHANGED <<repositoryVars, daemonVars>>

FinalizeKnot ==
    /\ Weaving
    /\ stage = "FINALIZE"
    /\ \/ UNCHANGED engineVars /\ (Commit \/ Fetch \/ NoRebaseNeeded \/ Rebase)
       \/ Finalize("ok") /\ Push
       \/ Finalize("nochange") /\ NothingToFinalize
       \/ /\ Finalize("failed")
          /\ CommitFails \/ FetchFails \/ RebaseFails \/ PushRejected \/ PushUnnoticed
    /\ UNCHANGED daemonVars

-----------------------------------------------------------------------------
(* The first weaving failed: back to the checkpoint, then once more.       *)
Reweave ==
    /\ mode = "weaving"
    /\ stage = "done" /\ ~result.ok
    /\ checkpoint # NoCommit
    /\ RollbackSucceeds(mission, checkpoint)
    /\ mode' = "reweaving"
    /\ Begin("complete")
    /\ UNCHANGED <<cycle, mission, checkpoint, built, presumed, status,
                   boundVars, historyVars>>

RecoveryBlocked ==
    /\ mode = "weaving"
    /\ stage = "done" /\ ~result.ok
    /\ \/ checkpoint = NoCommit /\ UNCHANGED repositoryVars
       \/ checkpoint # NoCommit /\ RollbackFails(mission, checkpoint)
    /\ EndRun("blocked")
    /\ UNCHANGED <<engineVars, boundVars, historyVars>>

(* After a repair there must be a new commit and a clean tree.             *)
ReweaveAccepted ==
    \E repaired \in Snapshots :
        /\ repaired.commit # checkpoint \/ result.idempotent
        /\ repaired.clean

ReweaveRefused ==
    \/ ~result.ok
    \/ \E repaired \in Snapshots :
          \/ repaired.commit = checkpoint /\ ~result.idempotent
          \/ ~repaired.clean

(* Fault: a reweaving that failed is tried again in the same cycle.        *)
ReweaveRetried ==
    /\ mode = "reweaving"
    /\ stage = "done"
    /\ ReweaveRefused
    /\ mode' = "deciding"
    /\ UNCHANGED <<cycle, mission, checkpoint, built, presumed, status>>
    /\ UNCHANGED <<engineVars, repositoryVars, boundVars, historyVars>>

ReweaveBlocked ==
    /\ mode = "reweaving"
    /\ stage = "done"
    /\ ReweaveRefused
    /\ EndRun("blocked")
    /\ UNCHANGED <<engineVars, repositoryVars, boundVars, historyVars>>

(* AutonomousKnotRecovery.observe on what the daemon saw of the build.     *)
Trusted(after) ==
    /\ result.ok
    /\ result.stage = "FINALIZE"
    /\ result.idempotent \/ (after.commit # checkpoint /\ after.clean)

KnotChecked ==
    /\ stage = "done" /\ result.ok
    /\ \/ mode = "weaving"
       \/ mode = "reweaving" /\ ReweaveAccepted

KnotBlocked ==
    /\ KnotChecked
    /\ \E after \in Snapshots : ~Trusted(after)
    /\ EndRun("blocked")
    /\ UNCHANGED <<engineVars, repositoryVars, boundVars, historyVars>>

Advance ==
    /\ KnotChecked
    /\ \E after \in Snapshots : Trusted(after)
    /\ built' = IF result.idempotent THEN built ELSE built \cup {mission}
    /\ presumed' = IF result.idempotent THEN presumed \cup {mission} ELSE presumed
    /\ \/ /\ cycle < MaxCycles
          /\ mode' = "deciding"
          /\ cycle' = cycle + 1
          /\ UNCHANGED status
       \/ /\ cycle = MaxCycles
          /\ mode' = "off"
          /\ status' = "cycle_limit"
          /\ UNCHANGED cycle
    /\ UNCHANGED <<engineVars, repositoryVars, mission, checkpoint, boundVars,
                   historyVars>>

-----------------------------------------------------------------------------
(* The process dies; the next run starts with nothing but the repository.  *)
Crash ==
    /\ mode # "off"
    /\ crashes < MaxCrashes
    /\ crashes' = crashes + 1
    /\ CrashOfRepository
    /\ EndRun("crashed")
    /\ stage' = "idle" /\ attempt' = 0 /\ generated' = "none"
    /\ trace' = <<>> /\ result' = NoResult /\ unproven' = TRUE
    /\ UNCHANGED <<runs, historyVars>>

SomebodyPushes ==
    /\ \E f \in Foreign : OutsiderPush(f)
    /\ UNCHANGED <<engineVars, daemonVars>>

DaemonStep ==
    \/ DeadlinePassed \/ BeginCycle \/ BeginGateCycle \/ AuditCompletion
    \/ PrepareBuild \/ GenerateKnot \/ VerifyKnot \/ RepairKnot \/ FinalizeKnot
    \/ Reweave \/ RecoveryBlocked \/ ReweaveBlocked \/ KnotBlocked \/ Advance

Next == StartRun \/ DaemonStep \/ Crash \/ SomebodyPushes

(* A run goes on by itself: it is one synchronous call, and its tools run  *)
(* under a time limit.  Nothing makes anyone start one, push, or crash.    *)
Spec == Init /\ [][Next]_vars /\ WF_vars(DaemonStep)

-----------------------------------------------------------------------------
(* The shared branch only grows; the daemon adds to it only proven knots,  *)
(* each where nobody has, and those the agent has the text of after their  *)
(* dependencies: over failed and repeated runs, crashes at any point of    *)
(* FINALIZE, pushes that land unnoticed, and people pushing in between.    *)
Published ==
    INSTANCE PublishedHistory
        WITH ledger <- origin, proven <- provenKnots, Ordered <- Scripted

PublishesProvenHistory == Published!Spec

(* What git commit records is the mission's knot, its declared artifacts   *)
(* only, as VERIFY proved them: git add -A sweeps up whatever is there, so *)
(* this rests on every refusal before it.                                  *)
CommitsRecordProvenKnot ==
    [][Len(head') > Len(head) /\ git' = "committed" =>
          /\ pending \in OwnPatches(mission)
          /\ "stray" \notin worktree
          /\ ~unproven
          /\ head' = provenTree]_vars

(* A knot is rewoven from the checkpoint itself: HEAD is there again and   *)
(* the tree is clean, with nothing left of the failed weaving.             *)
ReweavesFromCheckpoint ==
    mode = "reweaving" /\ stage = "ARCHITECTURE" => head = checkpoint /\ Clean

(* The daemon advances over a knot it built only once the remote has it.   *)
BuiltKnotsPublished == \A k \in built : Woven(k, origin)

(* When a run selects again, every knot it has advanced over is in HEAD:   *)
(* those it has built and those it took for present on the word of the     *)
(* agent, for which an idempotent result stands in for a commit.  No       *)
(* rebase, failed weaving or rollback of a later cycle takes one away.     *)
AdvancedKnotsPresent ==
    mode = "deciding" => \A k \in built \cup presumed : Present(k, head)

(* A run does not weave again a knot it has already advanced over, except  *)
(* what its audit does not recognise: scaffolds, somebody's unusual work,  *)
(* and the gate, woven whenever the evidence of completion was not read.   *)
Unrecognised ==
    {Gate} \cup (Range(Backlog) \ Scripted) \cup UNION {Provides[f] : f \in Opaque}

WovenOncePerRun ==
    mode = "weaving" /\ mission \in built \cup presumed => mission \in Unrecognised

(* Uncommitted work found at the start of a run survives the run, unless a *)
(* failed git status hid it: the planner stops before the rollback, whose  *)
(* reset --hard would destroy it.                                          *)
FoundWorkSurvives ==
    [][mode # "off" /\ found # {} /\ ~misread => worktree' = worktree]_vars

(* Every run returns: it comes to the end of its cycles, blocks, completes *)
(* or dies.                                                                *)
RunsEnd == mode # "off" ~> mode = "off"
=============================================================================
