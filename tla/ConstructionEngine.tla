------------------------- MODULE ConstructionEngine -------------------------
(***************************************************************************)
(* The construction engine of the autonomous builder                       *)
(* (Builder/Autonomous/AutonomousConstructionEngine.ts), with the two      *)
(* layers that call it: AutonomousDevelopmentLoop.execute, which turns a   *)
(* goal into a requirement and checks the evidence of a completed build,   *)
(* and ArchitectureDrivenBuildController.construct, which lets the         *)
(* architecture brain decide on the requirement first.                     *)
(*                                                                         *)
(* A build is one call of build(): a sequence of tool calls, one per       *)
(* stage.  `stage' names the tool whose answer the engine waits for.  The  *)
(* tools are the environment: an action takes the answer of the tool as    *)
(* its parameter.  Next lets the tools answer anything in Answers;         *)
(* BuildDaemon conjoins the same actions with what the shipped tools do.   *)
(***************************************************************************)
EXTENDS Naturals, Sequences

CONSTANTS
    MaxRepairAttempts,  \* the constructor's second argument (3 by default)
    Answers,            \* Answers[s]: what the tool of stage s may answer
    Requirements        \* "complete": every field is set; "incomplete": not

Stages == {"ARCHITECTURE", "PLAN", "GENERATE", "VERIFY", "REPAIR", "FINALIZE"}

(***************************************************************************)
(* The answers the engine tells apart.  GENERATE: "produced" is ok without *)
(* changed = false; "unchanged" is ok with changed = false; "noop" is the  *)
(* failed answer of an agent that exited with 0, changed nothing and       *)
(* printed "Already implemented:".  VERIFY: "proven" is ok with the whole  *)
(* evidence record; "unproven" is ok without it.  FINALIZE: "nochange" is  *)
(* GIT_NO_REPOSITORY_CHANGE.                                               *)
(***************************************************************************)
AnswersOf ==
    [s \in Stages |->
        CASE s = "GENERATE" -> {"produced", "unchanged", "noop", "failed"}
          [] s = "VERIFY"   -> {"proven", "unproven", "failed"}
          [] s = "FINALIZE" -> {"ok", "nochange", "failed"}
          [] OTHER          -> {"ok", "failed"}]

ASSUME MaxRepairAssumption == MaxRepairAttempts \in Nat
ASSUME AnswersAssumption == \A s \in Stages : Answers[s] \subseteq AnswersOf[s]
ASSUME RequirementsAssumption == Requirements \subseteq {"complete", "incomplete"}

VARIABLES
    stage,      \* the stage whose tool is running, "idle" or "done"
    attempt,    \* repair attempts of this build
    generated,  \* artifacts.GENERATE, as far as it is looked at
    trace,      \* the trace of the result: the stages in the order called
    result,     \* the ConstructionResult, meaningful when stage = "done"
    unproven    \* history: content may differ from what VERIFY last proved

engineVars == <<stage, attempt, generated, trace, result, unproven>>

NoResult == [ok |-> FALSE, status |-> "NONE", stage |-> "NONE",
             attempts |-> 0, idempotent |-> FALSE]

Success(status, n, idempotent) ==
    [ok |-> TRUE, status |-> status, stage |-> "FINALIZE",
     attempts |-> n, idempotent |-> idempotent]

Blocked(s, n) ==
    [ok |-> FALSE, status |-> "BLOCKED", stage |-> s,
     attempts |-> n, idempotent |-> FALSE]

EngineInit ==
    /\ stage = "idle"
    /\ attempt = 0
    /\ generated = "none"
    /\ trace = <<>>
    /\ result = NoResult
    /\ unproven = TRUE

-----------------------------------------------------------------------------
(* The next tool is called: its stage is pushed on the trace.              *)
Call(s) ==
    /\ stage' = s
    /\ trace' = Append(trace, s)

Finish(r) ==
    /\ stage' = "done"
    /\ result' = r

(* construct and build: a requirement the architecture brain refuses       *)
(* blocks at once, any other one starts the stages from scratch.           *)
Begin(requirement) ==
    /\ stage \in {"idle", "done"}
    /\ attempt' = 0
    /\ generated' = "none"
    /\ unproven' = TRUE
    /\ trace' = <<"ARCHITECTURE">>
    /\ \/ /\ requirement = "complete"
          /\ stage' = "ARCHITECTURE"
          /\ result' = NoResult
       \/ /\ requirement = "incomplete"
          /\ Finish(Blocked("ARCHITECTURE", 0))

(* The two stages before GENERATE; s is the stage after the current one.   *)
Prepare(s, answer) ==
    /\ \/ /\ answer = "ok"
          /\ Call(s)
          /\ UNCHANGED result
       \/ /\ answer = "failed"
          /\ Finish(Blocked(stage, attempt))
          /\ UNCHANGED trace
    /\ UNCHANGED <<attempt, generated, unproven>>

RunArchitecture(answer) == stage = "ARCHITECTURE" /\ Prepare("PLAN", answer)

RunPlan(answer) == stage = "PLAN" /\ Prepare("GENERATE", answer)

(* Fault: a capability that is already there goes straight to FINALIZE.    *)
GenerateSkipsVerify(answer) ==
    /\ stage = "GENERATE"
    /\ generated' = answer
    /\ \/ answer = "produced" /\ Call("VERIFY") /\ UNCHANGED result
       \/ answer = "noop" /\ Call("FINALIZE") /\ UNCHANGED result
       \/ /\ answer \in {"unchanged", "failed"}
          /\ Finish(Blocked("GENERATE", attempt))
          /\ UNCHANGED trace
    /\ UNCHANGED <<attempt, unproven>>

(* An agent that found nothing to do is not a failure; a tool that claims  *)
(* success without a change is blocked before its VERIFY is run.           *)
Generate(answer) ==
    /\ stage = "GENERATE"
    /\ generated' = answer
    /\ \/ /\ answer \in {"produced", "noop"}
          /\ Call("VERIFY")
          /\ UNCHANGED result
       \/ /\ answer = "unchanged"
          /\ trace' = Append(trace, "VERIFY")
          /\ Finish(Blocked("VERIFY", attempt))
       \/ /\ answer = "failed"
          /\ Finish(Blocked("GENERATE", attempt))
          /\ UNCHANGED trace
    /\ UNCHANGED <<attempt, unproven>>

(* What follows a verification that did not hold: repair while attempts    *)
(* are left, else give up.  `n' is the number of attempts made.            *)
RepairOrBlock(n) ==
    \/ /\ n < MaxRepairAttempts
       /\ attempt' = n + 1
       /\ Call("REPAIR")
       /\ UNCHANGED result
    \/ /\ n >= MaxRepairAttempts
       /\ Finish(Blocked("VERIFY", n))
       /\ UNCHANGED <<attempt, trace>>

(* Fault: an ok from VERIFY is enough, with the evidence or without it.    *)
VerifyWithoutEvidence(answer) ==
    /\ stage = "VERIFY"
    /\ \/ /\ answer \in {"proven", "unproven"}
          /\ Call("FINALIZE")
          /\ unproven' = (unproven /\ answer = "unproven")
          /\ UNCHANGED <<attempt, result>>
       \/ answer = "failed" /\ RepairOrBlock(attempt) /\ UNCHANGED unproven
    /\ UNCHANGED generated

(* A VERIFY answer without the required evidence counts as a failure.      *)
Verify(answer) ==
    /\ stage = "VERIFY"
    /\ \/ /\ answer = "proven"
          /\ Call("FINALIZE")
          /\ unproven' = FALSE
          /\ UNCHANGED <<attempt, result>>
       \/ /\ answer \in {"unproven", "failed"}
          /\ RepairOrBlock(attempt)
          /\ UNCHANGED unproven
    /\ UNCHANGED generated

(* Fault: a repair that went well is finalized without a new VERIFY.       *)
RepairUnverified(answer) ==
    /\ stage = "REPAIR"
    /\ unproven' = TRUE
    /\ \/ answer = "ok" /\ Call("FINALIZE") /\ UNCHANGED <<attempt, result>>
       \/ answer = "failed" /\ RepairOrBlock(attempt)
    /\ UNCHANGED generated

(* Fault: the first repair that fails ends the build.                      *)
RepairGivesUp(answer) ==
    /\ stage = "REPAIR"
    /\ unproven' = TRUE
    /\ \/ answer = "ok" /\ Call("VERIFY") /\ UNCHANGED result
       \/ answer = "failed" /\ Finish(Blocked("VERIFY", attempt)) /\ UNCHANGED trace
    /\ UNCHANGED <<generated, attempt>>

(* Fault: a failed repair is taken back, attempt and trace, and retried.   *)
RepairUncounted(answer) ==
    /\ stage = "REPAIR"
    /\ unproven' = TRUE
    /\ \/ answer = "ok" /\ Call("VERIFY") /\ UNCHANGED attempt
       \/ /\ answer = "failed"
          /\ stage' = "VERIFY"
          /\ attempt' = attempt - 1
          /\ trace' = SubSeq(trace, 1, Len(trace) - 1)
    /\ UNCHANGED <<generated, result>>

(* A repair, even a failed one, may have touched the content.  A failed    *)
(* one uses up its attempt and is not followed by a verification.          *)
Repair(answer) ==
    /\ stage = "REPAIR"
    /\ unproven' = TRUE
    /\ \/ /\ answer = "ok"
          /\ Call("VERIFY")
          /\ UNCHANGED <<attempt, result>>
       \/ /\ answer = "failed"
          /\ RepairOrBlock(attempt)
    /\ UNCHANGED generated

(* isIdempotentFinalizeNoOp                                                *)
FinalizeAccepted(answer) ==
    answer = "ok" \/ (answer = "nochange" /\ generated = "noop")

Finalize(answer) ==
    /\ stage = "FINALIZE"
    /\ \/ /\ FinalizeAccepted(answer)
          /\ Finish(Success(IF attempt > 0 THEN "REPAIRED" ELSE "BUILT",
                            attempt, generated = "noop"))
       \/ /\ ~FinalizeAccepted(answer)
          /\ Finish(Blocked("FINALIZE", attempt))
    /\ UNCHANGED <<attempt, generated, trace, unproven>>

-----------------------------------------------------------------------------
BuildStep ==
    \/ \E answer \in Answers["ARCHITECTURE"] : RunArchitecture(answer)
    \/ \E answer \in Answers["PLAN"] : RunPlan(answer)
    \/ \E answer \in Answers["GENERATE"] : Generate(answer)
    \/ \E answer \in Answers["VERIFY"] : Verify(answer)
    \/ \E answer \in Answers["REPAIR"] : Repair(answer)
    \/ \E answer \in Answers["FINALIZE"] : Finalize(answer)

EngineNext ==
    \/ \E requirement \in Requirements : Begin(requirement)
    \/ BuildStep

(* Every tool call returns: each runs under an execFileSync time limit, so *)
(* a build that has begun goes on.  Nothing makes a caller begin another.  *)
EngineSpec == EngineInit /\ [][EngineNext]_engineVars /\ WF_engineVars(BuildStep)

-----------------------------------------------------------------------------
(* The type of the engine's state; the attempts stay within the limit.     *)
EngineTypeOK ==
    /\ stage \in Stages \cup {"idle", "done"}
    /\ attempt \in 0 .. MaxRepairAttempts
    /\ generated \in AnswersOf["GENERATE"] \cup {"none"}
    /\ trace \in Seq(Stages)
    /\ result \in [ok : BOOLEAN,
                   status : {"NONE", "BUILT", "REPAIRED", "BLOCKED"},
                   stage : Stages \cup {"NONE"},
                   attempts : 0 .. MaxRepairAttempts,
                   idempotent : BOOLEAN]
    /\ unproven \in BOOLEAN

(* Nothing reaches the finalizer, and no build reports success, on content *)
(* that generation or a repair touched after the last complete proof: the  *)
(* retry loop of build() re-verifies after every repair it lets through.   *)
SuccessRestsOnProof ==
    (stage = "FINALIZE" \/ (stage = "done" /\ result.ok)) => ~unproven

InTrace(s) == \E i \in 1 .. Len(trace) : trace[i] = s

RequiredStages == {"ARCHITECTURE", "PLAN", "GENERATE", "VERIFY", "FINALIZE"}

(* AutonomousDevelopmentLoop.verifyCompletionEvidence, which execute calls *)
(* on every completed build, never throws out of the daemon's cycle: the   *)
(* trace has the five required stages and the result is at FINALIZE.       *)
CompletionEvidenceHolds ==
    stage = "done" /\ result.ok =>
        /\ \A s \in RequiredStages : InTrace(s)
        /\ result.stage = "FINALIZE"

(* A build gives up on verification only after every repair attempt it is  *)
(* allowed, failed repairs included, or when generation changed nothing;   *)
(* and it says REPAIRED exactly when a repair was tried.                   *)
RepairsExhausted ==
    stage = "done" =>
        /\ result.status = "BLOCKED" /\ result.stage = "VERIFY"
              => result.attempts = MaxRepairAttempts \/ generated = "unchanged"
        /\ result.ok => (result.status = "REPAIRED" <=> InTrace("REPAIR"))

(* A build calls its tools five times, and twice more for each attempt at  *)
(* a repair, at most: whatever they answer, in whatever order.             *)
CallsAreFew == Len(trace) <= 5 + 2 * MaxRepairAttempts

(* The stages a build may still run.                                       *)
StagesLeft ==
    LET repairs == 2 * (MaxRepairAttempts - attempt)
    IN  CASE stage = "ARCHITECTURE" -> repairs + 5
          [] stage = "PLAN" -> repairs + 4
          [] stage \in {"GENERATE", "REPAIR"} -> repairs + 3
          [] stage = "VERIFY" -> repairs + 2
          [] stage = "FINALIZE" -> 1
          [] OTHER -> 0

(* Each stage that runs leaves fewer of them, a failed repair included.    *)
EveryStageCounts == [][BuildStep => StagesLeft' \in 0 .. StagesLeft - 1]_engineVars

(* Every build that starts comes to an end, whatever the tools answer: the *)
(* repair loop, whose failed repairs `continue', runs out of attempts.     *)
EveryBuildEnds == stage \notin {"idle", "done"} ~> stage = "done"
=============================================================================
