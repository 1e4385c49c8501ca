------------------------- MODULE BuildDaemonProofs --------------------------
(***************************************************************************)
(* The daemon over the repository, for any backlog, any set of knots with  *)
(* any dependencies, and any number of cycles, runs, crashes and pushes of *)
(* other people.  Three inductive invariants carry the proofs: Working,    *)
(* what the working tree holds at each stage; Achieved, that what the run  *)
(* has advanced over is in HEAD, and what it built on the remote; Lineage, *)
(* that every commit HEAD has and the remote lacks may be published, also  *)
(* after a rebase.  A lemma per kind of step says what the step does.  The *)
(* last part bounds a run: what liveness says when it needs no fairness.   *)
(***************************************************************************)
EXTENDS BuildDaemon, FiniteSetTheorems, SequenceTheorems, WellFoundedInduction, TLAPS

-----------------------------------------------------------------------------
(* The engine, for every limit on repair attempts and every choice of what *)
(* the tools may answer.                                                   *)

(* The type invariant is inductive: the guard of RepairOrBlock is what     *)
(* keeps the attempts within their limit.                                  *)
LEMMA TypeHoldsInitially == EngineInit => EngineTypeOK
BY MaxRepairAssumption DEF EngineInit, EngineTypeOK, NoResult, AnswersOf, Stages

(* What the two ways of going on, and of ending, do to the types.          *)
LEMMA CallIsTyped ==
    ASSUME EngineTypeOK, NEW s \in Stages, Call(s)
    PROVE  /\ stage' \in Stages \cup {"idle", "done"}
           /\ trace' \in Seq(Stages)
BY DEF EngineTypeOK, Call, Stages

LEMMA BlockedIsTyped ==
    ASSUME NEW s \in Stages, NEW n \in 0 .. MaxRepairAttempts, Finish(Blocked(s, n))
    PROVE  /\ stage' \in Stages \cup {"idle", "done"}
           /\ result' \in [ok : BOOLEAN,
                           status : {"NONE", "BUILT", "REPAIRED", "BLOCKED"},
                           stage : Stages \cup {"NONE"},
                           attempts : 0 .. MaxRepairAttempts,
                           idempotent : BOOLEAN]
BY DEF Finish, Blocked, Stages

LEMMA RepairOrBlockIsTyped ==
    ASSUME EngineTypeOK, RepairOrBlock(attempt)
    PROVE  /\ stage' \in Stages \cup {"idle", "done"}
           /\ attempt' \in 0 .. MaxRepairAttempts
           /\ trace' \in Seq(Stages)
           /\ result' \in [ok : BOOLEAN,
                           status : {"NONE", "BUILT", "REPAIRED", "BLOCKED"},
                           stage : Stages \cup {"NONE"},
                           attempts : 0 .. MaxRepairAttempts,
                           idempotent : BOOLEAN]
<1>1. CASE /\ attempt < MaxRepairAttempts
           /\ attempt' = attempt + 1
           /\ Call("REPAIR")
           /\ UNCHANGED result
  <2>1. "REPAIR" \in Stages  BY DEF Stages
  <2>2. attempt' \in 0 .. MaxRepairAttempts
    BY <1>1, MaxRepairAssumption DEF EngineTypeOK
  <2> QED  BY <1>1, <2>1, <2>2, CallIsTyped DEF EngineTypeOK
<1>2. CASE /\ attempt >= MaxRepairAttempts
           /\ Finish(Blocked("VERIFY", attempt))
           /\ UNCHANGED <<attempt, trace>>
  <2>1. "VERIFY" \in Stages  BY DEF Stages
  <2> QED  BY <1>2, <2>1, BlockedIsTyped DEF EngineTypeOK
<1> QED  BY <1>1, <1>2 DEF RepairOrBlock

LEMMA TypeIsPreserved == EngineTypeOK /\ [EngineNext]_engineVars => EngineTypeOK'
<1> SUFFICES ASSUME EngineTypeOK, [EngineNext]_engineVars PROVE EngineTypeOK'
    OBVIOUS
<1>1. ASSUME NEW requirement \in Requirements, Begin(requirement) PROVE EngineTypeOK'
  <2>1. /\ attempt' \in 0 .. MaxRepairAttempts
        /\ generated' \in AnswersOf["GENERATE"] \cup {"none"}
        /\ unproven' \in BOOLEAN
        /\ trace' \in Seq(Stages)
    BY <1>1, MaxRepairAssumption DEF Begin, Stages
  <2>2. "ARCHITECTURE" \in Stages /\ 0 \in 0 .. MaxRepairAttempts
    BY MaxRepairAssumption DEF Stages
  <2>3. CASE stage' = "ARCHITECTURE" /\ result' = NoResult
    BY <2>1, <2>2, <2>3 DEF EngineTypeOK, NoResult
  <2>4. CASE Finish(Blocked("ARCHITECTURE", 0))
    BY <2>1, <2>2, <2>4, BlockedIsTyped DEF EngineTypeOK
  <2> QED  BY <1>1, <2>3, <2>4 DEF Begin
<1>2. ASSUME NEW answer, RunArchitecture(answer) \/ RunPlan(answer) PROVE EngineTypeOK'
  <2>1. PICK s \in {"PLAN", "GENERATE"} : Prepare(s, answer)
    BY <1>2 DEF RunArchitecture, RunPlan
  <2>2. s \in Stages /\ stage \in Stages
    BY <1>2 DEF Stages, RunArchitecture, RunPlan
  <2>3. CASE Call(s) /\ UNCHANGED result
    BY <2>1, <2>2, <2>3, CallIsTyped DEF EngineTypeOK, Prepare
  <2>4. CASE Finish(Blocked(stage, attempt)) /\ UNCHANGED trace
    BY <2>1, <2>2, <2>4, BlockedIsTyped DEF EngineTypeOK, Prepare
  <2> QED  BY <2>1, <2>3, <2>4 DEF Prepare
<1>3. ASSUME NEW answer \in Answers["GENERATE"], Generate(answer) PROVE EngineTypeOK'
  <2>1. {"GENERATE", "VERIFY"} \subseteq Stages  BY DEF Stages
  <2>2. generated' \in AnswersOf["GENERATE"]
    BY <1>3, <2>1, AnswersAssumption DEF Generate
  <2>3. CASE Call("VERIFY") /\ UNCHANGED result
    BY <1>3, <2>1, <2>2, <2>3, CallIsTyped DEF EngineTypeOK, Generate
  <2>4. CASE trace' = Append(trace, "VERIFY") /\ Finish(Blocked("VERIFY", attempt))
    <3>1. trace' \in Seq(Stages)  BY <2>1, <2>4 DEF EngineTypeOK
    <3> QED  BY <1>3, <2>1, <2>2, <2>4, <3>1, BlockedIsTyped DEF EngineTypeOK, Generate
  <2>5. CASE Finish(Blocked("GENERATE", attempt)) /\ UNCHANGED trace
    BY <1>3, <2>1, <2>2, <2>5, BlockedIsTyped DEF EngineTypeOK, Generate
  <2> QED  BY <1>3, <2>3, <2>4, <2>5 DEF Generate
<1>4. ASSUME NEW answer, Verify(answer) PROVE EngineTypeOK'
  <2>1. CASE Call("FINALIZE") /\ unproven' = FALSE /\ UNCHANGED <<attempt, result>>
    <3>1. "FINALIZE" \in Stages  BY DEF Stages
    <3> QED  BY <1>4, <2>1, <3>1, CallIsTyped DEF EngineTypeOK, Verify
  <2>2. CASE RepairOrBlock(attempt) /\ UNCHANGED unproven
    BY <1>4, <2>2, RepairOrBlockIsTyped DEF EngineTypeOK, Verify
  <2> QED  BY <1>4, <2>1, <2>2 DEF Verify
<1>5. ASSUME NEW answer, Repair(answer) PROVE EngineTypeOK'
  <2>1. CASE Call("VERIFY") /\ UNCHANGED <<attempt, result>>
    <3>1. "VERIFY" \in Stages  BY DEF Stages
    <3> QED  BY <1>5, <2>1, <3>1, CallIsTyped DEF EngineTypeOK, Repair
  <2>2. CASE RepairOrBlock(attempt)
    BY <1>5, <2>2, RepairOrBlockIsTyped DEF EngineTypeOK, Repair
  <2> QED  BY <1>5, <2>1, <2>2 DEF Repair
<1>6. ASSUME NEW answer, Finalize(answer) PROVE EngineTypeOK'
  <2>1. "FINALIZE" \in Stages  BY DEF Stages
  <2>2. UNCHANGED <<attempt, generated, trace, unproven>>  BY <1>6 DEF Finalize
  <2>3. CASE Finish(Success(IF attempt > 0 THEN "REPAIRED" ELSE "BUILT",
                            attempt, generated = "noop"))
    BY <2>1, <2>2, <2>3 DEF EngineTypeOK, Finish, Success
  <2>4. CASE Finish(Blocked("FINALIZE", attempt))
    BY <2>1, <2>2, <2>4, BlockedIsTyped DEF EngineTypeOK
  <2> QED  BY <1>6, <2>3, <2>4 DEF Finalize
<1>7. CASE UNCHANGED engineVars
  BY <1>7 DEF engineVars, EngineTypeOK
<1> QED  BY <1>1, <1>2, <1>3, <1>4, <1>5, <1>6, <1>7 DEF EngineNext, BuildStep

(* The state of the engine has its type, and the attempts never exceed     *)
(* MaxRepairAttempts, whatever that is: the loop of build() counts a       *)
(* repair before it is run and a failed one as well.                       *)
THEOREM EngineTypeCorrect == EngineSpec => []EngineTypeOK
BY TypeHoldsInitially, TypeIsPreserved, PTL DEF EngineSpec

-----------------------------------------------------------------------------
(* Success rests on proof.  The invariant is inductive as it stands: only  *)
(* Verify enters FINALIZE, with a complete proof, and only Finalize reaches*)
(* a success, which leaves the content alone.                              *)
LEMMA ProofIsPreserved ==
    SuccessRestsOnProof /\ [EngineNext]_engineVars => SuccessRestsOnProof'
<1> SUFFICES ASSUME SuccessRestsOnProof, [EngineNext]_engineVars
             PROVE  SuccessRestsOnProof'
    OBVIOUS
<1> USE DEF SuccessRestsOnProof, Call, Finish, Blocked
<1>1. ASSUME NEW requirement, Begin(requirement) PROVE SuccessRestsOnProof'
  BY <1>1 DEF Begin
<1>2. ASSUME NEW answer, RunArchitecture(answer) \/ RunPlan(answer)
      PROVE  SuccessRestsOnProof'
  BY <1>2 DEF RunArchitecture, RunPlan, Prepare
<1>3. ASSUME NEW answer, Generate(answer) PROVE SuccessRestsOnProof'
  BY <1>3 DEF Generate
<1>4. ASSUME NEW answer, Verify(answer) PROVE SuccessRestsOnProof'
  BY <1>4 DEF Verify, RepairOrBlock
<1>5. ASSUME NEW answer, Repair(answer) PROVE SuccessRestsOnProof'
  BY <1>5 DEF Repair, RepairOrBlock
<1>6. ASSUME NEW answer, Finalize(answer) PROVE SuccessRestsOnProof'
  BY <1>6 DEF Finalize
<1>7. CASE UNCHANGED engineVars
  BY <1>7 DEF engineVars
<1> QED  BY <1>1, <1>2, <1>3, <1>4, <1>5, <1>6, <1>7 DEF EngineNext, BuildStep

(* Whatever the tools answer and however often a build is repaired, the    *)
(* finalizer only ever sees content as the last complete proof saw it.     *)
THEOREM SuccessProven == EngineSpec => []SuccessRestsOnProof
<1>1. EngineInit => SuccessRestsOnProof
  BY DEF EngineInit, SuccessRestsOnProof
<1> QED  BY <1>1, ProofIsPreserved, PTL DEF EngineSpec

-----------------------------------------------------------------------------
(* What the trace says of the stages.  TraceInv is the strengthening both  *)
(* remaining invariants need: the trace holds every stage the build has    *)
(* come through, the attempts are counted exactly when REPAIR is on it,    *)
(* and a result carries the attempts and the success its build had.        *)
Visited(s) ==
    CASE s = "ARCHITECTURE" -> {"ARCHITECTURE"}
      [] s = "PLAN" -> {"ARCHITECTURE", "PLAN"}
      [] s = "GENERATE" -> {"ARCHITECTURE", "PLAN", "GENERATE"}
      [] s = "VERIFY" -> {"ARCHITECTURE", "PLAN", "GENERATE", "VERIFY"}
      [] s = "REPAIR" -> {"ARCHITECTURE", "PLAN", "GENERATE", "VERIFY", "REPAIR"}
      [] s = "FINALIZE" -> RequiredStages

TraceInv ==
    /\ stage \in Stages => \A s \in Visited(stage) : InTrace(s)
    /\ attempt > 0 <=> InTrace("REPAIR")
    /\ CompletionEvidenceHolds
    /\ RepairsExhausted

(* The stages on a trace to which one is appended.                         *)
LEMMA AppendedTrace ==
    ASSUME EngineTypeOK, NEW r \in Stages, trace' = Append(trace, r), NEW s
    PROVE  InTrace(s)' <=> InTrace(s) \/ s = r
<1>1. trace \in Seq(Stages)  BY DEF EngineTypeOK
<1>2. /\ Len(trace') = Len(trace) + 1
      /\ trace'[Len(trace) + 1] = r
      /\ \A i \in 1 .. Len(trace) : trace'[i] = trace[i]
  BY <1>1
<1>3. Len(trace) \in Nat  BY <1>1
<1>4. ASSUME InTrace(s)' PROVE InTrace(s) \/ s = r
  BY <1>2, <1>3, <1>4 DEF InTrace
<1>5. ASSUME InTrace(s) PROVE InTrace(s)'
  BY <1>2, <1>3, <1>5 DEF InTrace
<1>6. ASSUME s = r PROVE InTrace(s)'
  BY <1>2, <1>3, <1>6 DEF InTrace
<1> QED  BY <1>4, <1>5, <1>6

LEMMA TraceHoldsInitially == EngineInit => TraceInv
BY DEF EngineInit, TraceInv, InTrace, CompletionEvidenceHolds, RepairsExhausted, Stages

(* A build that goes on from one stage to the next.                        *)
LEMMA GoingOn ==
    ASSUME EngineTypeOK, TraceInv, stage \in Stages,
           NEW r \in Stages, Call(r),
           Visited(r) \subseteq Visited(stage) \cup {r},
           attempt' > 0 <=> (attempt > 0 \/ r = "REPAIR")
    PROVE  TraceInv'
<1>1. \A s : InTrace(s)' <=> InTrace(s) \/ s = r
  BY AppendedTrace DEF Call
<1>2. stage' = r /\ stage' # "done"
  BY DEF Call, Stages
<1>3. \A s \in Visited(stage') : InTrace(s)'
  BY <1>1, <1>2 DEF TraceInv
<1>4. attempt' > 0 <=> InTrace("REPAIR")'
  BY <1>1 DEF TraceInv
<1> QED  BY <1>2, <1>3, <1>4 DEF TraceInv, CompletionEvidenceHolds, RepairsExhausted

(* A build that is blocked: at VERIFY only with its repairs used up, or    *)
(* because generation changed nothing.                                     *)
LEMMA GivingUp ==
    ASSUME EngineTypeOK, TraceInv, NEW s, Finish(Blocked(s, attempt)),
           UNCHANGED attempt,
           UNCHANGED trace \/ trace' = Append(trace, "VERIFY"),
           s = "VERIFY" => attempt = MaxRepairAttempts \/ generated' = "unchanged"
    PROVE  TraceInv'
<1>1. "VERIFY" \in Stages  BY DEF Stages
<1>2. InTrace("REPAIR")' <=> InTrace("REPAIR")
  <2>1. CASE UNCHANGED trace  BY <2>1 DEF InTrace
  <2>2. CASE trace' = Append(trace, "VERIFY")  BY <1>1, <2>2, AppendedTrace
  <2> QED  BY <2>1, <2>2
<1>3. stage' = "done" /\ stage' \notin Stages /\ ~result'.ok
  BY DEF Finish, Blocked, Stages
<1>4. result'.stage = s /\ result'.attempts = attempt /\ result'.status = "BLOCKED"
  BY DEF Finish, Blocked
<1> QED
  BY <1>2, <1>3, <1>4 DEF TraceInv, CompletionEvidenceHolds, RepairsExhausted

LEMMA RepairOrBlockTraced ==
    ASSUME EngineTypeOK, TraceInv, stage \in {"VERIFY", "REPAIR"}, RepairOrBlock(attempt)
    PROVE  TraceInv'
<1>1. stage \in Stages /\ "REPAIR" \in Stages  BY DEF Stages
<1>2. CASE attempt < MaxRepairAttempts /\ attempt' = attempt + 1 /\ Call("REPAIR")
  <2>1. attempt' > 0 /\ attempt \in Nat  BY <1>2 DEF EngineTypeOK
  <2>2. Visited("REPAIR") \subseteq Visited(stage) \cup {"REPAIR"}  BY DEF Visited
  <2> QED  BY <1>1, <1>2, <2>1, <2>2, GoingOn
<1>3. CASE /\ attempt >= MaxRepairAttempts
           /\ Finish(Blocked("VERIFY", attempt))
           /\ UNCHANGED <<attempt, trace>>
  <2>1. attempt = MaxRepairAttempts
    BY <1>3, MaxRepairAssumption DEF EngineTypeOK
  <2> QED  BY <1>3, <2>1, GivingUp
<1> QED  BY <1>2, <1>3 DEF RepairOrBlock

LEMMA TraceIsPreserved ==
    EngineTypeOK /\ TraceInv /\ [EngineNext]_engineVars => TraceInv'
<1> SUFFICES ASSUME EngineTypeOK, TraceInv, [EngineNext]_engineVars PROVE TraceInv'
    OBVIOUS
<1>1. ASSUME NEW requirement, Begin(requirement) PROVE TraceInv'
  <2>1. /\ attempt' = 0
        /\ trace' = <<"ARCHITECTURE">>
    BY <1>1 DEF Begin
  <2>2. InTrace("ARCHITECTURE")' /\ ~InTrace("REPAIR")'
    BY <2>1 DEF InTrace
  <2>3. CASE stage' = "ARCHITECTURE"
    BY <2>1, <2>2, <2>3
       DEF TraceInv, Visited, CompletionEvidenceHolds, RepairsExhausted
  <2>4. CASE Finish(Blocked("ARCHITECTURE", 0))
    BY <2>1, <2>2, <2>4
       DEF TraceInv, Finish, Blocked, Stages, CompletionEvidenceHolds, RepairsExhausted
  <2> QED  BY <1>1, <2>3, <2>4 DEF Begin
<1>2. ASSUME NEW answer, RunArchitecture(answer) \/ RunPlan(answer) PROVE TraceInv'
  <2>1. PICK s : \/ stage = "ARCHITECTURE" /\ s = "PLAN" /\ Prepare(s, answer)
                 \/ stage = "PLAN" /\ s = "GENERATE" /\ Prepare(s, answer)
    BY <1>2 DEF RunArchitecture, RunPlan
  <2>2. stage \in Stages /\ s \in Stages /\ stage # "VERIFY" /\ s # "REPAIR"
    BY <2>1 DEF Stages
  <2>3. Visited(s) \subseteq Visited(stage) \cup {s}  BY <2>1 DEF Visited
  <2>4. UNCHANGED <<attempt, generated>>  BY <2>1 DEF Prepare
  <2>5. CASE Call(s)  BY <2>2, <2>3, <2>4, <2>5, GoingOn
  <2>6. CASE Finish(Blocked(stage, attempt)) /\ UNCHANGED trace
    BY <2>2, <2>4, <2>6, GivingUp
  <2> QED  BY <2>1, <2>5, <2>6 DEF Prepare
<1>3. ASSUME NEW answer, Generate(answer) PROVE TraceInv'
  <2>1. stage \in Stages /\ "VERIFY" \in Stages  BY <1>3 DEF Generate, Stages
  <2>2. Visited("VERIFY") \subseteq Visited(stage) \cup {"VERIFY"}
    BY <1>3 DEF Generate, Visited
  <2>3. UNCHANGED attempt /\ generated' = answer  BY <1>3 DEF Generate
  <2>4. CASE Call("VERIFY")  BY <2>1, <2>2, <2>3, <2>4, GoingOn
  <2>5. CASE /\ answer = "unchanged"
             /\ trace' = Append(trace, "VERIFY")
             /\ Finish(Blocked("VERIFY", attempt))
    BY <2>3, <2>5, GivingUp
  <2>6. CASE Finish(Blocked("GENERATE", attempt)) /\ UNCHANGED trace
    BY <2>3, <2>6, GivingUp
  <2> QED  BY <1>3, <2>4, <2>5, <2>6 DEF Generate
<1>4. ASSUME NEW answer, Verify(answer) PROVE TraceInv'
  <2>1. stage = "VERIFY" /\ stage \in Stages /\ "FINALIZE" \in Stages
    BY <1>4 DEF Verify, Stages
  <2>2. Visited("FINALIZE") \subseteq Visited(stage) \cup {"FINALIZE"}
    BY <2>1 DEF Visited, RequiredStages
  <2>3. CASE Call("FINALIZE") /\ UNCHANGED attempt  BY <2>1, <2>2, <2>3, GoingOn
  <2>4. CASE RepairOrBlock(attempt)  BY <2>1, <2>4, RepairOrBlockTraced
  <2> QED  BY <1>4, <2>3, <2>4 DEF Verify
<1>5. ASSUME NEW answer, Repair(answer) PROVE TraceInv'
  <2>1. stage = "REPAIR" /\ stage \in Stages /\ "VERIFY" \in Stages
    BY <1>5 DEF Repair, Stages
  <2>2. Visited("VERIFY") \subseteq Visited(stage) \cup {"VERIFY"}
    BY <2>1 DEF Visited
  <2>3. CASE Call("VERIFY") /\ UNCHANGED attempt  BY <2>1, <2>2, <2>3, GoingOn
  <2>4. CASE RepairOrBlock(attempt)  BY <2>1, <2>4, RepairOrBlockTraced
  <2> QED  BY <1>5, <2>3, <2>4 DEF Repair
<1>6. ASSUME NEW answer, Finalize(answer) PROVE TraceInv'
  <2>1. stage = "FINALIZE" /\ UNCHANGED <<attempt, generated, trace>>
    BY <1>6 DEF Finalize
  <2>2. \A s \in RequiredStages : InTrace(s)'
    BY <2>1 DEF TraceInv, Visited, Stages, InTrace
  <2>3. attempt' > 0 <=> InTrace("REPAIR")'
    BY <2>1 DEF TraceInv, InTrace
  <2>4. CASE Finish(Success(IF attempt > 0 THEN "REPAIRED" ELSE "BUILT",
                            attempt, generated = "noop"))
    BY <2>1, <2>2, <2>3, <2>4
       DEF TraceInv, Finish, Success, Stages, CompletionEvidenceHolds, RepairsExhausted
  <2>5. CASE Finish(Blocked("FINALIZE", attempt))
    BY <2>1, <2>5, GivingUp
  <2> QED  BY <1>6, <2>4, <2>5 DEF Finalize
<1>7. CASE UNCHANGED engineVars
  BY <1>7 DEF engineVars, TraceInv, InTrace, CompletionEvidenceHolds, RepairsExhausted
<1> QED  BY <1>1, <1>2, <1>3, <1>4, <1>5, <1>6, <1>7 DEF EngineNext, BuildStep

LEMMA TraceInvariant == EngineSpec => []TraceInv
BY TypeHoldsInitially, TypeIsPreserved, TraceHoldsInitially, TraceIsPreserved, PTL
   DEF EngineSpec

(* verifyCompletionEvidence never throws: a completed build went through   *)
(* the five required stages, for every limit on its repairs.               *)
THEOREM CompletionEvidenceProven == EngineSpec => []CompletionEvidenceHolds
<1>1. TraceInv => CompletionEvidenceHolds  BY DEF TraceInv
<1> QED  BY <1>1, TraceInvariant, PTL

(* A build gives up on verification only with all its repairs used up, and *)
(* says REPAIRED exactly when one was tried.                               *)
THEOREM RepairsExhaustedProven == EngineSpec => []RepairsExhausted
<1>1. TraceInv => RepairsExhausted  BY DEF TraceInv
<1> QED  BY <1>1, TraceInvariant, PTL

-----------------------------------------------------------------------------
(* What a build has called and what it may still call.                     *)
CallsFit ==
    IF stage \in Stages
    THEN Len(trace) + StagesLeft <= 6 + 2 * MaxRepairAttempts
    ELSE CallsAreFew

LEMMA StagesLeftMeans ==
    ASSUME EngineTypeOK
    PROVE  /\ StagesLeft \in Nat /\ (stage \in Stages => StagesLeft >= 1)
           /\ Len(trace) \in Nat /\ attempt \in Nat /\ MaxRepairAttempts \in Nat
           /\ attempt <= MaxRepairAttempts
<1>1. /\ attempt \in Nat /\ MaxRepairAttempts \in Nat /\ attempt <= MaxRepairAttempts
      /\ trace \in Seq(Stages)
    BY MaxRepairAssumption DEF EngineTypeOK
<1>2. Len(trace) \in Nat
    BY <1>1
<1> QED
    BY <1>1, <1>2 DEF StagesLeft, Stages

LEMMA StagesRunOut ==
    ASSUME EngineTypeOK, CallsFit, BuildStep
    PROVE  CallsFit' /\ StagesLeft' \in 0 .. StagesLeft - 1
<1>0. /\ StagesLeft \in Nat /\ Len(trace) \in Nat
      /\ attempt \in Nat /\ MaxRepairAttempts \in Nat /\ attempt <= MaxRepairAttempts
      /\ trace \in Seq(Stages)
    BY StagesLeftMeans DEF EngineTypeOK
<1>1. \A s \in Stages : Len(Append(trace, s)) = Len(trace) + 1
    BY <1>0
<1>2. ASSUME NEW s \in Stages, Call(s), UNCHANGED attempt,
             StagesLeft' \in 1 .. StagesLeft - 1, stage \in Stages
      PROVE  CallsFit' /\ StagesLeft' \in 0 .. StagesLeft - 1
  <2>1. stage' \in Stages /\ Len(trace') = Len(trace) + 1
      BY <1>1, <1>2 DEF Call
  <2> QED
      BY <1>0, <1>2, <2>1 DEF CallsFit
<1>3. ASSUME NEW r, Finish(r), stage \in Stages, NEW calls \in 0 .. 1,
             Len(trace') = Len(trace) + calls, StagesLeft >= 1 + calls
      PROVE  CallsFit' /\ StagesLeft' \in 0 .. StagesLeft - 1
  <2>1. stage' = "done" /\ stage' \notin Stages /\ StagesLeft' = 0
      BY <1>3 DEF Finish, Stages, StagesLeft
  <2>2. Len(trace') + 1 <= Len(trace) + StagesLeft /\ Len(trace') \in Nat
      BY <1>0, <1>3
  <2>3. Len(trace) + StagesLeft <= 6 + 2 * MaxRepairAttempts
      BY <1>3 DEF CallsFit
  <2>4. Len(trace') <= 5 + 2 * MaxRepairAttempts
      BY <1>0, <2>2, <2>3
  <2> QED
      BY <1>0, <1>3, <2>1, <2>4 DEF CallsFit, CallsAreFew
<1>3a. ASSUME NEW r, Finish(r), stage \in Stages, UNCHANGED trace
       PROVE  CallsFit' /\ StagesLeft' \in 0 .. StagesLeft - 1
  <2>1. StagesLeft >= 1 + 0 /\ Len(trace') = Len(trace) + 0 /\ 0 \in 0 .. 1
      BY <1>0, <1>3a, StagesLeftMeans
  <2> QED
      BY <1>3, <1>3a, <2>1
<1>4. ASSUME stage \in {"VERIFY", "REPAIR"}, RepairOrBlock(attempt)
      PROVE  CallsFit' /\ StagesLeft' \in 0 .. StagesLeft - 1
  <2>1. stage \in Stages
      BY <1>4 DEF Stages
  <2>2. CASE attempt < MaxRepairAttempts /\ attempt' = attempt + 1 /\ Call("REPAIR")
    <3>1. stage' = "REPAIR" /\ stage' \in Stages /\ Len(trace') = Len(trace) + 1
        BY <1>1, <2>2 DEF Call, Stages
    <3>2. StagesLeft' \in 1 .. StagesLeft - 1
        BY <1>0, <1>4, <2>2, <3>1 DEF StagesLeft
    <3> QED
        BY <1>0, <2>1, <3>1, <3>2 DEF CallsFit
  <2>3. CASE Finish(Blocked("VERIFY", attempt)) /\ UNCHANGED trace
      BY <1>3a, <2>1, <2>3
  <2> QED
      BY <1>4, <2>2, <2>3 DEF RepairOrBlock
<1>5. ASSUME NEW answer, RunArchitecture(answer) \/ RunPlan(answer)
      PROVE  CallsFit' /\ StagesLeft' \in 0 .. StagesLeft - 1
  <2>1. PICK s \in Stages : \/ stage = "ARCHITECTURE" /\ s = "PLAN" /\ Prepare(s, answer)
                            \/ stage = "PLAN" /\ s = "GENERATE" /\ Prepare(s, answer)
      BY <1>5 DEF RunArchitecture, RunPlan, Stages
  <2>2. stage \in Stages /\ UNCHANGED attempt
      BY <2>1 DEF Prepare, Stages
  <2>3. CASE Call(s)
    <3>1. StagesLeft' \in 1 .. StagesLeft - 1
        BY <1>0, <2>1, <2>2, <2>3 DEF Call, StagesLeft
    <3> QED
        BY <1>2, <2>2, <2>3, <3>1
  <2>4. CASE Finish(Blocked(stage, attempt)) /\ UNCHANGED trace
      BY <1>3a, <2>2, <2>4
  <2> QED
      BY <2>1, <2>3, <2>4 DEF Prepare
<1>6. ASSUME NEW answer, Generate(answer)
      PROVE  CallsFit' /\ StagesLeft' \in 0 .. StagesLeft - 1
  <2>1. stage = "GENERATE" /\ stage \in Stages /\ UNCHANGED attempt /\ "VERIFY" \in Stages
      BY <1>6 DEF Generate, Stages
  <2>2. StagesLeft >= 3
      BY <1>0, <2>1 DEF StagesLeft
  <2>3. CASE Call("VERIFY")
    <3>1. StagesLeft' \in 1 .. StagesLeft - 1
        BY <1>0, <2>1, <2>3 DEF Call, StagesLeft
    <3> QED
        BY <1>2, <2>1, <2>3, <3>1
  <2>4. CASE /\ trace' = Append(trace, "VERIFY") \/ UNCHANGED trace
             /\ \E s : Finish(Blocked(s, attempt))
    <3>1. CASE trace' = Append(trace, "VERIFY") /\ \E s : Finish(Blocked(s, attempt))
      <4>1. Len(trace') = Len(trace) + 1 /\ StagesLeft >= 1 + 1 /\ 1 \in 0 .. 1
          BY <1>0, <1>1, <2>1, <2>2, <3>1
      <4> QED
          BY <1>3, <2>1, <3>1, <4>1
    <3>2. CASE UNCHANGED trace /\ \E s : Finish(Blocked(s, attempt))
        BY <1>3a, <2>1, <3>2
    <3> QED
        BY <2>4, <3>1, <3>2
  <2> QED
      BY <1>6, <2>3, <2>4 DEF Generate
<1>7. ASSUME NEW answer, Verify(answer)
      PROVE  CallsFit' /\ StagesLeft' \in 0 .. StagesLeft - 1
  <2>1. stage = "VERIFY" /\ stage \in Stages /\ "FINALIZE" \in Stages
      BY <1>7 DEF Verify, Stages
  <2>2. CASE Call("FINALIZE") /\ UNCHANGED attempt
    <3>1. StagesLeft' \in 1 .. StagesLeft - 1
        BY <1>0, <2>1, <2>2 DEF Call, StagesLeft
    <3> QED
        BY <1>2, <2>1, <2>2, <3>1
  <2> QED
      BY <1>4, <1>7, <2>1, <2>2 DEF Verify
<1>8. ASSUME NEW answer, Repair(answer)
      PROVE  CallsFit' /\ StagesLeft' \in 0 .. StagesLeft - 1
  <2>1. stage = "REPAIR" /\ stage \in Stages /\ "VERIFY" \in Stages
      BY <1>8 DEF Repair, Stages
  <2>2. CASE Call("VERIFY") /\ UNCHANGED attempt
    <3>1. StagesLeft' \in 1 .. StagesLeft - 1
        BY <1>0, <2>1, <2>2 DEF Call, StagesLeft
    <3> QED
        BY <1>2, <2>1, <2>2, <3>1
  <2> QED
      BY <1>4, <1>8, <2>1, <2>2 DEF Repair
<1>9. ASSUME NEW answer, Finalize(answer)
      PROVE  CallsFit' /\ StagesLeft' \in 0 .. StagesLeft - 1
  <2>1. stage = "FINALIZE" /\ stage \in Stages /\ UNCHANGED trace /\ \E r : Finish(r)
      BY <1>9 DEF Finalize, Stages
  <2> QED
      BY <1>3a, <2>1
<1> QED
    BY <1>5, <1>6, <1>7, <1>8, <1>9 DEF BuildStep

(* No build calls its tools more often than its repairs allow, and each    *)
(* call uses up one of those left: with tools that answer, it ends.        *)
THEOREM BuildsAreBounded == EngineSpec => []CallsAreFew /\ EveryStageCounts
<1>1. EngineInit => CallsFit
    BY MaxRepairAssumption DEF EngineInit, CallsFit, CallsAreFew, Stages
<1>2. EngineTypeOK /\ CallsFit /\ [EngineNext]_engineVars => CallsFit'
  <2> SUFFICES ASSUME EngineTypeOK, CallsFit, [EngineNext]_engineVars PROVE CallsFit'
      OBVIOUS
  <2>1. ASSUME NEW requirement, Begin(requirement) PROVE CallsFit'
    <3>1. attempt' = 0 /\ Len(trace') = 1 /\ stage' \in {"ARCHITECTURE", "done"}
        BY <2>1 DEF Begin, Finish
    <3> QED
        BY <3>1, MaxRepairAssumption DEF CallsFit, CallsAreFew, StagesLeft, Stages
  <2>2. CASE BuildStep
      BY <2>2, StagesRunOut
  <2>3. CASE UNCHANGED engineVars
      BY <2>3 DEF engineVars, CallsFit, CallsAreFew, StagesLeft
  <2> QED
      BY <2>1, <2>2, <2>3 DEF EngineNext
<1>3. EngineTypeOK /\ CallsFit /\ [EngineNext]_engineVars =>
          [BuildStep => StagesLeft' \in 0 .. StagesLeft - 1]_engineVars
    BY StagesRunOut
<1>4. EngineTypeOK /\ CallsFit => CallsAreFew
  <2> SUFFICES ASSUME EngineTypeOK, CallsFit PROVE CallsAreFew
      OBVIOUS
  <2>1. CASE stage \in Stages
      BY <2>1, StagesLeftMeans DEF CallsFit, CallsAreFew
  <2> QED
      BY <2>1 DEF CallsFit
<1> QED
    BY <1>1, <1>2, <1>3, <1>4, EngineTypeCorrect, PTL DEF EngineSpec, EveryStageCounts

-----------------------------------------------------------------------------
(* The daemon.                                                             *)

History == Seq(Patches)

Typed ==
    /\ head \in History /\ origin \in History /\ tracking \in History
    /\ worktree \in SUBSET Parts
    /\ pending \in Patches \cup {NoKnot}
    /\ git \in {"idle", "committed", "fetched", "ready"}
    /\ mode \in {"off", "deciding", "weaving", "reweaving"}
    /\ stage \in Stages \cup {"idle", "done"}
    /\ mission \in Knots \cup {NoKnot}
    /\ checkpoint \in History \cup {NoCommit}
    /\ built \in SUBSET Knots /\ presumed \in SUBSET Knots
    /\ provenKnots \in SUBSET Knots

(* Where run() is says where the engine and the git tool are.              *)
Phases ==
    /\ stage \in Stages => Weaving
    /\ git # "idle" => stage = "FINALIZE"
    /\ Weaving => mission \in Knots
    /\ stage = "FINALIZE" => ~unproven /\ mission \in provenKnots

(* Patch p may be added to history h as a build of knot k.                 *)
Addable(p, k, h) ==
    /\ p \in OwnPatches(k)
    /\ k \in Scripted => \A d \in Deps[k] : Present(d, h)
    /\ p = k => ~Present(k, h)

(* From the end of GENERATE to the commit the working tree is as it was    *)
(* found, clean, or has the mission's knot and nothing else.               *)
Generated == stage \in {"VERIFY", "REPAIR"} \/ (stage = "FINALIZE" /\ git = "idle")

TreeHeld ==
    /\ Generated =>
        /\ generated \in {"produced", "noop"}
        /\ generated = "produced" =>
            /\ worktree # {} /\ "stray" \notin worktree
            /\ Addable(pending, mission, head)
            /\ mode = "weaving" => pending = mission
        /\ generated = "noop" => worktree = {} /\ Present(mission, head)
    /\ stage = "FINALIZE" /\ git = "idle" => provenTree = TreeUnderTest

Undisturbed ==
    mode # "off" /\ found # {} /\ ~misread => mode = "deciding" /\ worktree = found

-----------------------------------------------------------------------------
(* Histories.  Up to i, h is the remote as last seen, t.                   *)
Agrees(h, t, i) == i <= Len(t) /\ \A j \in 1 .. i : h[j] = t[j]

Anchors(k, h, i) == \E j \in 1 .. i : k \in Touches(h[j])

(* What stands at i in h is a proven build of one knot, after the knots it *)
(* rests on, and the first of its knot unless it is a rework.              *)
GoodAt(h, i, proven) ==
    \E k \in proven :
        /\ h[i] \in OwnPatches(k)
        /\ k \in Scripted => \A d \in Deps[k] : Anchors(d, h, i - 1)
        /\ h[i] = k => ~Anchors(k, h, i - 1)

Reworks(h) == {k \in Knots : Rework(k) \in Range(h)}
Builds(h) == Range(h) \cap Knots

(* History h may become the HEAD that is rebased on the remote, seen as t, *)
(* and pushed to it as it is, o.                                           *)
Fit(h, o, t, proven) ==
    /\ \A i \in 1 .. Len(h) : Agrees(h, t, i) \/ GoodAt(h, i, proven)
    /\ Reworks(o) \subseteq Reworks(h)
    /\ Reworks(o) \cap Builds(h) \subseteq Builds(o)

(* A rollback may go back to the checkpoint.                               *)
Recoverable == mode = "weaving" /\ checkpoint # NoCommit

(* A HEAD that a stopped rebase has detached is never pushed again.        *)
Lineage ==
    /\ IsPrefix(tracking, origin)
    /\ git = "fetched" =>
         \A i \in Len(tracking) + 1 .. Len(origin) : origin[i] \in Foreign
    /\ git \in {"fetched", "ready"} => attached
    /\ attached => Fit(head, origin, tracking, provenKnots)
    /\ attached /\ Recoverable =>
        /\ Fit(checkpoint, origin, tracking, provenKnots)
        /\ Reworks(head) \subseteq Reworks(checkpoint)
        /\ Builds(checkpoint) \subseteq Builds(head)

-----------------------------------------------------------------------------
(* What the daemon advanced over.                                          *)
Advanced == built \cup presumed

Achieved ==
    /\ \A k \in built : Woven(k, origin)
    /\ git # "idle" => Woven(mission, head)
    /\ Weaving /\ stage = "done" /\ result.ok =>
        /\ Present(mission, head)
        /\ result.idempotent \/ Woven(mission, origin)
    /\ mode = "deciding" \/ (Weaving /\ (stage # "done" \/ result.ok)) =>
        \A k \in Advanced : Present(k, head)
    /\ Recoverable => \A k \in Advanced : Present(k, checkpoint)

-----------------------------------------------------------------------------
(* Numbers, sequences and patches.                                         *)
LEMMA LeastExists ==
    ASSUME NEW S \in SUBSET Nat, S # {}
    PROVE  \E m \in S : \A i \in S : m <= i
<1>1. PICK m \in S : \A i \in S : <<i, m>> \notin OpToRel(<, Nat)
  BY NatLessThanWellFounded, WFMin, Zenon
<1>2. \A i \in S : ~(i < m)
  BY <1>1 DEF OpToRel
<1> QED  BY <1>2

LEMMA GreatestExists ==
    ASSUME NEW n \in Nat, NEW S \in SUBSET (0 .. n), S # {}
    PROVE  \E m \in S : \A i \in S : i <= m
<1> DEFINE R == {n - i : i \in S}
<1>0. \A i \in S : i \in Nat /\ n - i \in Nat
  OBVIOUS
<1>1. R \in SUBSET Nat /\ R # {}
  BY <1>0
<1>2. PICK m \in S : \A j \in R : n - m <= j
  BY <1>1, LeastExists
<1>3. \A i \in S : n - m <= n - i
  BY <1>2
<1> QED  BY <1>3

LEMMA ExtremesAreMembers ==
    ASSUME NEW n \in Nat, NEW S \in SUBSET (1 .. n), S # {}
    PROVE  Max(S) \in S /\ Min(S) \in S
<1>1. Max(S) \in S
  <2>0. S \in SUBSET (0 .. n) /\ \A i \in S : i \in Nat
    OBVIOUS
  <2>1. \E m \in S : \A i \in S : m >= i
    BY <2>0, GreatestExists
  <2> QED  BY <2>1 DEF Max
<1>2. Min(S) \in S
  <2>1. \E m \in S : \A i \in S : m <= i
    BY LeastExists
  <2> QED  BY <2>1 DEF Min
<1> QED  BY <1>1, <1>2

LEMMA OwnPatchesTouch ==
    ASSUME NEW k \in Knots, NEW p \in OwnPatches(k)
    PROVE  /\ p \in Patches /\ p \notin Foreign /\ p # NoKnot
           /\ Touches(p) = {k}
           /\ p \in Knots => p = k
<1>1. p \in Patches  BY DEF Patches
<1>2. p \notin Foreign /\ p # NoKnot
  BY KnotsAssumption, ForeignAssumption, ReworkAssumption DEF OwnPatches
<1>3. \A j \in Knots : p \in OwnPatches(j) => j = k
  <2> SUFFICES ASSUME NEW j \in Knots, p \in OwnPatches(j) PROVE j = k
    OBVIOUS
  <2>1. CASE p = k
    BY <2>1, ReworkAssumption DEF OwnPatches
  <2>2. CASE p = Rework(k)
    <3>1. p = Rework(j)  BY <2>2, ReworkAssumption DEF OwnPatches
    <3>2. Rework(j).repaired = Rework(k).repaired  BY <2>2, <3>1
    <3> QED  BY <3>2 DEF Rework
  <2> QED  BY <2>1, <2>2 DEF OwnPatches
<1>4. Touches(p) = {k}
  BY <1>2, <1>3 DEF Touches
<1>5. p \in Knots => p = k
  BY ReworkAssumption DEF OwnPatches
<1> QED  BY <1>1, <1>2, <1>4, <1>5

LEMMA TouchesKnots ==
    ASSUME NEW p \in Patches
    PROVE  /\ Touches(p) \in SUBSET Knots
           /\ p \notin Foreign => \E k \in Knots : p \in OwnPatches(k)
           /\ p # NoKnot
<1>1. CASE p \in Foreign
  BY <1>1, ForeignAssumption, KnotsAssumption DEF Touches
<1>2. CASE p \notin Foreign
  <2>1. PICK k \in Knots : p \in OwnPatches(k)  BY <1>2 DEF Patches
  <2> QED  BY <1>2, <2>1, OwnPatchesTouch DEF Touches
<1> QED  BY <1>1, <1>2

(* The files of k are there exactly when some patch has written them, and  *)
(* the version there is one of those patches.                              *)
LEMMA PresentMeans ==
    ASSUME NEW k \in Knots, NEW h \in History
    PROVE  /\ Present(k, h) <=> \E i \in 1 .. Len(h) : k \in Touches(h[i])
           /\ Present(k, h) => /\ Version(k, h) \in Patches
                               /\ k \in Touches(Version(k, h))
<1> DEFINE I == {i \in 1 .. Len(h) : k \in Touches(h[i])}
<1>0. Len(h) \in Nat /\ \A i \in 1 .. Len(h) : h[i] \in Patches
  BY DEF History
<1>1. SelectLastInSeq(h, LAMBDA p : k \in Touches(p)) = IF I # {} THEN Max(I) ELSE 0
  BY DEF SelectLastInSeq
<1>2. CASE I = {}
  <2>1. Version(k, h) = NoKnot  BY <1>1, <1>2 DEF Version
  <2> QED  BY <1>2, <2>1 DEF Present
<1>3. CASE I # {}
  <2>1. Max(I) \in I  BY <1>0, <1>3, ExtremesAreMembers
  <2>2. Version(k, h) = h[Max(I)]  BY <1>1, <1>3, <2>1 DEF Version
  <2>3. h[Max(I)] \in Patches /\ k \in Touches(h[Max(I)])  BY <1>0, <2>1
  <2>4. h[Max(I)] # NoKnot  BY <2>3, TouchesKnots
  <2> QED  BY <1>3, <2>1, <2>2, <2>3, <2>4 DEF Present
<1> QED  BY <1>2, <1>3

LEMMA PrefixMeans ==
    ASSUME NEW S, NEW s \in Seq(S), NEW t \in Seq(S)
    PROVE  IsPrefix(s, t) <=> Len(s) <= Len(t) /\ \A j \in 1 .. Len(s) : s[j] = t[j]
<1>1. SubSeq(s, 1, Len(s)) = s  BY SubSeqFull
<1>2. ASSUME Len(s) <= Len(t)
      PROVE  /\ SubSeq(t, 1, Len(s)) \in Seq(S)
             /\ Len(SubSeq(t, 1, Len(s))) = Len(s)
             /\ \A j \in 1 .. Len(s) : SubSeq(t, 1, Len(s))[j] = t[j]
  BY <1>2
<1>3. ASSUME Len(s) <= Len(t), \A j \in 1 .. Len(s) : s[j] = t[j]
      PROVE  s = SubSeq(t, 1, Len(s))
  BY <1>2, <1>3, SeqEqual
<1> QED  BY <1>1, <1>2, <1>3 DEF IsPrefix

LEMMA HistoryPrefixMeans ==
    ASSUME NEW s \in History, NEW t \in History
    PROVE  /\ IsPrefix(s, t) <=> Agrees(s, t, Len(s))
           /\ Len(s) \in Nat /\ Len(t) \in Nat
<1>1. IsPrefix(s, t) <=> Len(s) <= Len(t) /\ \A j \in 1 .. Len(s) : s[j] = t[j]
  BY PrefixMeans DEF History
<1> QED  BY <1>1 DEF Agrees, History

(* Common is where HEAD and the remote part.                               *)
LEMMA CommonMeans ==
    ASSUME head \in History, tracking \in History
    PROVE  /\ Common \in 0 .. Len(head) /\ Common <= Len(tracking)
           /\ \A j \in 1 .. Common : head[j] = tracking[j]
           /\ \A i \in Common + 1 .. Len(head) : ~Agrees(head, tracking, i)
<1> DEFINE C == CommonPrefixes({head, tracking})
           L == LongestCommonPrefix({head, tracking})
<1>0. Len(head) \in Nat /\ Len(tracking) \in Nat
  BY DEF History
<1>1. ASSUME NEW c \in C
      PROVE  /\ c \in History /\ Len(c) \in 0 .. Len(head) /\ Len(c) <= Len(tracking)
             /\ \A j \in 1 .. Len(c) : c[j] = head[j] /\ c[j] = tracking[j]
  <2>1. /\ \E s \in {head, tracking} : \E l \in 0 .. Len(s) : c = SubSeq(s, 1, l)
        /\ IsPrefix(c, head) /\ IsPrefix(c, tracking)
    BY DEF CommonPrefixes, Prefixes
  <2>2. c \in History
    <3>1. PICK s \in {head, tracking} : \E l \in 0 .. Len(s) : c = SubSeq(s, 1, l)
      BY <2>1
    <3>2. s \in Seq(Patches)  BY DEF History
    <3> QED  BY <3>1, <3>2 DEF History
  <2>3. Agrees(c, head, Len(c)) /\ Agrees(c, tracking, Len(c)) /\ Len(c) \in Nat
    BY <2>1, <2>2, HistoryPrefixMeans
  <2> QED  BY <1>0, <2>2, <2>3 DEF Agrees
<1>2. ASSUME NEW i \in 0 .. Len(head), Agrees(head, tracking, i)
      PROVE  SubSeq(head, 1, i) \in C /\ Len(SubSeq(head, 1, i)) = i
  <2> DEFINE c == SubSeq(head, 1, i)
  <2>1. c \in History /\ Len(c) = i /\ \A j \in 1 .. i : c[j] = head[j]
    BY <1>0 DEF History
  <2>2. Agrees(c, head, i) /\ Agrees(c, tracking, i)
    BY <1>0, <1>2, <2>1 DEF Agrees
  <2>3. IsPrefix(c, head) /\ IsPrefix(c, tracking)
    BY <2>1, <2>2, HistoryPrefixMeans
  <2>4. c \in Prefixes(head)  BY DEF Prefixes
  <2> QED  BY <2>1, <2>3, <2>4 DEF CommonPrefixes
<1>3. \E c \in C : \A d \in C : Len(d) <= Len(c)
  <2> DEFINE N == {Len(c) : c \in C}
  <2>1. N \in SUBSET (0 .. Len(head))  BY <1>1
  <2>2. Agrees(head, tracking, 0)  BY <1>0 DEF Agrees
  <2>3. 0 \in N
    <3>1. 0 \in 0 .. Len(head)  BY <1>0
    <3> QED  BY <1>2, <2>2, <3>1, Zenon
  <2>4. PICK m \in N : \A n \in N : n <= m
    BY <1>0, <2>1, <2>3, GreatestExists
  <2> QED  BY <2>4
<1>4. L \in C /\ \A d \in C : Len(d) <= Len(L)
  BY <1>3 DEF LongestCommonPrefix
<1>5. ASSUME NEW i \in Common + 1 .. Len(head), Agrees(head, tracking, i) PROVE FALSE
  <2>1. Common = Len(L) /\ Common \in Nat  BY <1>1, <1>4 DEF Common
  <2>2. i \in 0 .. Len(head) /\ ~(i <= Len(L))  BY <1>0, <2>1
  <2>3. SubSeq(head, 1, i) \in C /\ Len(SubSeq(head, 1, i)) = i  BY <1>2, <1>5, <2>2
  <2>4. Len(SubSeq(head, 1, i)) <= Len(L)  BY <1>4, <2>3
  <2> QED  BY <2>2, <2>3, <2>4
<1> QED  BY <1>1, <1>4, <1>5 DEF Common

(* What the rebase replays, in order: item n is commit place[n] of HEAD.   *)
LEMMA ReplayedMeans ==
    ASSUME head \in History, tracking \in History
    PROVE  /\ Replayed \in History
           /\ \E place \in [1 .. Len(Replayed) -> Common + 1 .. Len(head)] :
                /\ \A n \in 1 .. Len(Replayed) :
                     /\ Replayed[n] = head[place[n]]
                     /\ Replayed[n] \in Knots =>
                          \A j \in Common + 1 .. Len(tracking) : tracking[j] # Replayed[n]
                /\ \A m, n \in 1 .. Len(Replayed) : m < n => place[m] < place[n]
                /\ \A i \in Common + 1 .. Len(head) :
                     \/ \E n \in 1 .. Len(Replayed) : place[n] = i
                     \/ head[i] \in Knots /\ head[i] \in Range(tracking)
<1> DEFINE H == Since(head)
           T == Since(tracking)
           rank(i) == Cardinality({j \in Kept : j <= i})
           N == Cardinality(Kept)
<1>0. Len(head) \in Nat /\ Len(tracking) \in Nat /\ Common \in Nat
  BY CommonMeans DEF History
<1>1. /\ H \in History /\ Len(H) = Len(head) - Common
      /\ \A i \in 1 .. Len(H) : H[i] = head[Common + i]
  BY <1>0, CommonMeans DEF Since, History
<1>2. /\ T \in History /\ Len(T) = Len(tracking) - Common
      /\ \A i \in 1 .. Len(T) : T[i] = tracking[Common + i]
  BY <1>0, CommonMeans DEF Since, History
<1>3. Kept \in SUBSET (1 .. Len(H)) /\ DOMAIN H = 1 .. Len(H)
  BY <1>1 DEF Kept, History
<1>4. IsFiniteSet(Kept) /\ N \in Nat
  <2>1. IsFiniteSet(1 .. Len(H))  BY <1>0, <1>1, FS_Interval
  <2> QED  BY <1>3, <2>1, FS_Subset, FS_CardinalityType
<1>5. ASSUME NEW i \in Kept
      PROVE  rank(i) \in 1 .. N
  <2>1. IsFiniteSet({j \in Kept : j <= i}) /\ rank(i) <= N
    BY <1>4, FS_Subset
  <2>2. i \in {j \in Kept : j <= i}  BY <1>3
  <2>3. rank(i) \in Nat /\ rank(i) # 0
    BY <2>1, <2>2, FS_CardinalityType, FS_EmptySet
  <2> QED  BY <1>4, <2>1, <2>3
<1>6. ASSUME NEW i \in Kept, NEW j \in Kept, i < j
      PROVE  rank(i) < rank(j)
  <2> DEFINE I == {x \in Kept : x <= i}
             J == {x \in Kept : x <= j}
  <2>0. \A x \in Kept : x \in Nat  BY <1>0, <1>1, <1>3
  <2>1. \A x \in Kept : x <= i => x <= j
    BY <1>6, <2>0
  <2>2. j <= j /\ ~(j <= i)
    BY <1>6, <2>0
  <2>3. IsFiniteSet(J)  BY <1>4, FS_Subset
  <2>4. Cardinality(I) <= Cardinality(J) /\ Cardinality(I) # Cardinality(J)
    <3>1. I \in SUBSET J /\ j \in J /\ j \notin I  BY <2>1, <2>2
    <3> QED  BY <2>3, <3>1, FS_Subset
  <2> QED  BY <1>4, <1>5, <2>4
<1>7. \A n \in 1 .. N : \E i \in Kept : rank(i) = n
  <2> DEFINE r == [i \in Kept |-> rank(i)]
  <2>1. r \in [Kept -> 1 .. N]  BY <1>5
  <2>2. ASSUME NEW i \in Kept, NEW j \in Kept, r[i] = r[j] PROVE i = j
    <3>1. i \in Nat /\ j \in Nat  BY <1>0, <1>1, <1>3
    <3>2. rank(i) = rank(j) /\ rank(i) \in Nat  BY <1>5, <2>2
    <3>3. ~(i < j) /\ ~(j < i)
      <4> HIDE DEF rank
      <4>1. i < j => rank(i) < rank(j)  BY <1>6
      <4>2. j < i => rank(j) < rank(i)  BY <1>6
      <4> QED  BY <3>2, <4>1, <4>2
    <3> QED  BY <3>1, <3>3
  <2>3. r \in Injection(Kept, 1 .. N)
    BY <2>1, <2>2 DEF Injection, IsInjective
  <2>4. IsFiniteSet(1 .. N) /\ Cardinality(1 .. N) = N
    BY <1>4, FS_Interval
  <2>5. r \in Surjection(Kept, 1 .. N)
    BY <2>3, <2>4, FS_Injection
  <2>6. \A n \in 1 .. N : \E i \in Kept : r[i] = n
    BY <2>5 DEF Surjection
  <2> QED  BY <2>6
<1> DEFINE at(n) == CHOOSE i \in Kept : rank(i) = n
           place == [n \in 1 .. N |-> Common + at(n)]
<1> HIDE DEF N
<1>8. \A n \in 1 .. N : at(n) \in Kept /\ rank(at(n)) = n
  BY <1>7
<1>9. Replayed = [n \in 1 .. N |-> H[at(n)]]
  BY DEF Replayed, N
<1> HIDE DEF at, rank
<1>10. \A n \in 1 .. N : at(n) \in 1 .. Len(H) /\ H[at(n)] = head[Common + at(n)]
  BY <1>1, <1>3, <1>8
<1>11. Replayed \in History /\ Len(Replayed) = N
  <2>1. \A n \in 1 .. N : H[at(n)] \in Patches  BY <1>1, <1>10 DEF History
  <2> QED  BY <1>4, <1>9, <2>1 DEF History
<1>12. place \in [1 .. Len(Replayed) -> Common + 1 .. Len(head)]
  <2>1. \A n \in 1 .. N : Common + at(n) \in Common + 1 .. Len(head)
    BY <1>0, <1>1, <1>10
  <2> QED  BY <1>11, <2>1
<1>13. \A n \in 1 .. N : Replayed[n] = head[place[n]] /\ Replayed[n] = H[at(n)]
  <2> QED  BY <1>10, <1>9
<1>14. ASSUME NEW n \in 1 .. N, Replayed[n] \in Knots, NEW j \in Common + 1 .. Len(tracking),
              tracking[j] = Replayed[n]
       PROVE  FALSE
  <2>1. H[at(n)] \in Knots /\ H[at(n)] \notin Range(T)
    BY <1>8, <1>13, <1>14 DEF Kept
  <2>2. j - Common \in 1 .. Len(T) /\ T[j - Common] = tracking[j]
    BY <1>0, <1>2
  <2>3. T[j - Common] \in Range(T)  BY <1>2, <2>2 DEF Range, History
  <2> QED  BY <1>13, <1>14, <2>1, <2>2, <2>3
<1>15. \A m, n \in 1 .. N : m < n => place[m] < place[n]
  <2> SUFFICES ASSUME NEW m \in 1 .. N, NEW n \in 1 .. N, m < n PROVE at(m) < at(n)
    BY <1>0, <1>10
  <2>1. at(m) \in Kept /\ at(n) \in Kept /\ rank(at(m)) = m /\ rank(at(n)) = n
    BY <1>8
  <2>2. at(m) \in Nat /\ at(n) \in Nat  BY <1>10
  <2>3. ~(at(n) < at(m)) /\ at(m) # at(n)
    <3>1. at(n) < at(m) => rank(at(n)) < rank(at(m))  BY <1>6, <2>1
    <3> QED  BY <2>1, <3>1
  <2> QED  BY <2>2, <2>3
<1>16. ASSUME NEW i \in Common + 1 .. Len(head)
       PROVE  \/ \E n \in 1 .. N : place[n] = i
              \/ head[i] \in Knots /\ head[i] \in Range(tracking)
  <2>1. i - Common \in 1 .. Len(H) /\ H[i - Common] = head[i]
    BY <1>0, <1>1
  <2>2. CASE i - Common \in Kept
    <3> DEFINE n == rank(i - Common)
    <3> HIDE DEF n
    <3>1. n \in 1 .. N /\ n = rank(i - Common)  BY <1>5, <2>2 DEF n
    <3>2. at(n) \in Kept /\ rank(at(n)) = n  BY <1>8, <3>1
    <3>3. at(n) = i - Common
      <4>1. at(n) \in Nat /\ i - Common \in Nat  BY <1>10, <2>1, <3>1
      <4>2. at(n) < i - Common => rank(at(n)) < rank(i - Common)  BY <1>6, <2>2, <3>2
      <4>3. i - Common < at(n) => rank(i - Common) < rank(at(n))  BY <1>6, <2>2, <3>2
      <4> QED  BY <3>1, <3>2, <4>1, <4>2, <4>3
    <3> QED  BY <1>0, <2>1, <3>1, <3>3
  <2>3. CASE i - Common \notin Kept
    <3>1. H[i - Common] \in Knots /\ H[i - Common] \in Range(T)
      BY <1>3, <2>1, <2>3 DEF Kept
    <3>2. PICK j \in 1 .. Len(T) : T[j] = H[i - Common]
      BY <1>2, <3>1 DEF Range, History
    <3>3. Common + j \in 1 .. Len(tracking) /\ tracking[Common + j] = head[i]
      BY <1>0, <1>2, <2>1, <3>2
    <3> QED  BY <2>1, <3>1, <3>3 DEF Range, History
  <2> QED  BY <2>2, <2>3
<1> QED
  <2> HIDE DEF place, N
  <2> QED  BY <1>11, <1>12, <1>13, <1>14, <1>15, <1>16

(* What is selected was tested.                                            *)
LEMMA SelectionMeans ==
    /\ NextCapability \in Knots \cup {NoKnot}
    /\ NextCapability # NoKnot =>
         \/ NextCapability \in Range(Backlog) /\ Ready(NextCapability)
         \/ NextCapability \in Range(Extensions) /\ ~Exists(NextCapability)
<1> DEFINE I == {i \in 1 .. Len(Backlog) : Ready(Backlog[i])}
           J == {i \in 1 .. Len(Extensions) : ~Exists(Extensions[i])}
<1>0. /\ Len(Backlog) \in Nat /\ Len(Extensions) \in Nat
      /\ \A i \in 1 .. Len(Backlog) : Backlog[i] \in Knots /\ Backlog[i] \in Range(Backlog)
      /\ \A i \in 1 .. Len(Extensions) :
            Extensions[i] \in Knots /\ Extensions[i] \in Range(Extensions)
  BY BacklogAssumption DEF Range
<1>1. SelectInSeq(Backlog, Ready) = IF I # {} THEN Min(I) ELSE 0
  BY DEF SelectInSeq
<1>2. SelectInSeq(Extensions, LAMBDA k : ~Exists(k)) = IF J # {} THEN Min(J) ELSE 0
  BY DEF SelectInSeq
<1>3. /\ First(Backlog, Ready) \in Knots \cup {NoKnot}
      /\ First(Backlog, Ready) # NoKnot =>
            First(Backlog, Ready) \in Range(Backlog) /\ Ready(First(Backlog, Ready))
  <2>1. CASE I = {}
    BY <1>1, <2>1 DEF First
  <2>2. CASE I # {}
    <3>1. Min(I) \in I  BY <1>0, <2>2, ExtremesAreMembers
    <3>2. First(Backlog, Ready) = Backlog[Min(I)]
      BY <1>1, <2>2, <3>1 DEF First
    <3> QED  BY <1>0, <3>1, <3>2
  <2> QED  BY <2>1, <2>2
<1>4. /\ First(Extensions, LAMBDA k : ~Exists(k)) \in Knots \cup {NoKnot}
      /\ First(Extensions, LAMBDA k : ~Exists(k)) # NoKnot =>
            /\ First(Extensions, LAMBDA k : ~Exists(k)) \in Range(Extensions)
            /\ ~Exists(First(Extensions, LAMBDA k : ~Exists(k)))
  <2>1. CASE J = {}
    BY <1>2, <2>1 DEF First
  <2>2. CASE J # {}
    <3>1. Min(J) \in J  BY <1>0, <2>2, ExtremesAreMembers
    <3>2. First(Extensions, LAMBDA k : ~Exists(k)) = Extensions[Min(J)]
      BY <1>2, <2>2, <3>1 DEF First
    <3> QED  BY <1>0, <3>1, <3>2
  <2> QED  BY <2>1, <2>2
<1> QED  BY <1>3, <1>4 DEF NextCapability

-----------------------------------------------------------------------------
(* Types and phases.                                                       *)
LEMMA KnotsAreNamed ==
    /\ NoKnot \notin Knots /\ NoKnot \notin Patches
    /\ Gate \in Knots /\ Foreign \subseteq Patches
    /\ NoCommit \notin History
<1>1. NoKnot \notin Patches  BY TouchesKnots
<1>2. NoCommit \notin History
  <2>1. NoCommit[1] = NoKnot /\ Len(NoCommit) = 1  BY DEF NoCommit
  <2> QED  BY <1>1, <2>1 DEF History
<1> QED  BY <1>1, <1>2, KnotsAssumption, BacklogAssumption DEF Patches

LEMMA StoppedRebaseMeans ==
    ASSUME Typed, NEW n \in 0 .. Len(Replayed), StoppedRebase(n)
    PROVE  /\ head' \in History /\ attached' = FALSE
           /\ worktree' \in SUBSET Parts /\ pending' = NoKnot
<1>1. Replayed \in History /\ tracking \in History
  BY ReplayedMeans DEF Typed
<1>2. SubSeq(Replayed, 1, n) \in History  BY <1>1 DEF History
<1>3. head' \in History  BY <1>1, <1>2 DEF StoppedRebase, History
<1> QED  BY <1>3 DEF StoppedRebase, Parts

LEMMA RollbackMeans ==
    ASSUME Typed, NEW k, checkpoint # NoCommit,
           RollbackSucceeds(k, checkpoint) \/ RollbackFails(k, checkpoint)
    PROVE  /\ head' \in {head, checkpoint} /\ head' \in History
           /\ worktree' \subseteq worktree /\ pending' \in {pending, NoKnot}
           /\ UNCHANGED <<attached, origin, tracking, git>>
           /\ RollbackSucceeds(k, checkpoint) => head' = checkpoint /\ worktree' = {}
BY DEF Typed, RollbackSucceeds, RollbackFails, RollbackTo, LeftAfterReset, repositoryVars

LEMMA GenerateMeans ==
    ASSUME Typed, Phases, GenerateKnot
    PROVE  /\ UNCHANGED <<head, attached, origin, tracking, git, daemonVars, unproven>>
           /\ stage = "GENERATE" /\ Weaving
           /\ worktree' \in SUBSET Parts /\ pending' \in Patches \cup {NoKnot}
           /\ \/ stage' = "VERIFY" /\ generated' \in {"produced", "noop"}
              \/ stage' = "done" /\ ~result'.ok
<1>1. mission \in Knots /\ Weaving  BY DEF GenerateKnot, Phases
<1>2. Made(mission, Repairing) \in Patches
  <2>1. Made(mission, Repairing) \in OwnPatches(mission)  BY DEF Made, OwnPatches
  <2> QED  BY <1>1, <2>1 DEF Patches
<1>3. AgentWrites(mission, Repairing) \in SUBSET Parts
  BY DEF AgentWrites, Parts
<1>4. /\ stage = "GENERATE" /\ UNCHANGED unproven
      /\ \/ stage' = "VERIFY" /\ generated' \in {"produced", "noop"}
         \/ stage' = "done" /\ ~result'.ok
  BY DEF GenerateKnot, Generate, Call, Finish, Blocked
<1>5. /\ UNCHANGED <<head, attached, origin, tracking, git>>
      /\ worktree' \in SUBSET Parts /\ pending' \in Patches \cup {NoKnot}
  BY <1>2, <1>3 DEF GenerateKnot, GenerateRefused, GenerateFailed, GenerateProduced,
     GenerateNoop, repositoryVars, Typed, Parts
<1> QED  BY <1>1, <1>4, <1>5 DEF GenerateKnot

(* What is committed is the mission's knot.                                *)
LEMMA CommitMeans ==
    ASSUME Typed, Phases, TreeHeld, stage = "FINALIZE", Commit
    PROVE  /\ Addable(pending, mission, head) /\ "stray" \notin worktree
           /\ mode = "weaving" => pending = mission
           /\ mission \in provenKnots /\ ~unproven
           /\ pending \in Patches /\ head' = Append(head, pending) /\ head' \in History
           /\ head' = provenTree
<1>1. Generated /\ worktree # {} /\ head' = Append(head, pending)
  BY DEF Generated, Commit, Clean
<1>2. generated = "produced"
  BY <1>1 DEF TreeHeld
<1>3. mission \in Knots /\ mission \in provenKnots /\ ~unproven
  BY DEF Phases, Weaving, Typed
<1>4. pending \in Patches
  BY <1>1, <1>2, <1>3, OwnPatchesTouch DEF TreeHeld, Addable
<1>5. head' \in History
  BY <1>1, <1>4 DEF Typed, History
<1>6. provenTree = Append(head, pending)
  BY <1>1 DEF TreeHeld, TreeUnderTest, Commit, Clean
<1> QED  BY <1>1, <1>2, <1>3, <1>4, <1>5, <1>6 DEF TreeHeld

(* The steps of the git tool.                                              *)
LEMMA FinalizeMeans ==
    ASSUME Typed, Phases, TreeHeld, FinalizeKnot
    PROVE  /\ UNCHANGED <<daemonVars, unproven, generated>>
           /\ stage = "FINALIZE" /\ Weaving /\ mission \in Knots
           /\ head' \in History /\ origin' \in {origin, head}
           /\ tracking' \in {tracking, origin, head}
           /\ worktree' \in SUBSET Parts /\ pending' \in {pending, NoKnot}
           /\ git' \in {"idle", "committed", "fetched", "ready"}
           /\ stage' \in {"FINALIZE", "done"}
           /\ stage' = "done" => git' = "idle"
<1>1. /\ UNCHANGED <<daemonVars, unproven, generated>>
      /\ stage = "FINALIZE" /\ Weaving /\ mission \in Knots
  BY DEF FinalizeKnot, Finalize, engineVars, Phases
<1>2. CASE UNCHANGED engineVars /\ Commit
  <2>1. /\ head' = Append(head, pending) /\ worktree' = {} /\ pending' = NoKnot
        /\ git' = "committed" /\ UNCHANGED <<origin, tracking>> /\ stage' = "FINALIZE"
    BY <1>1, <1>2 DEF Commit, engineVars
  <2>2. head' \in History  BY <1>1, <1>2, CommitMeans
  <2> QED  BY <1>1, <2>1, <2>2
<1>3. CASE UNCHANGED engineVars /\ (Fetch \/ NoRebaseNeeded)
  BY <1>1, <1>3 DEF Fetch, NoRebaseNeeded, engineVars, Typed
<1>4. CASE UNCHANGED engineVars /\ Rebase
  <2>1. Replayed \in History /\ tracking \in History  BY ReplayedMeans DEF Typed
  <2>2. head' \in History  BY <1>4, <2>1 DEF Rebase, History
  <2> QED  BY <1>1, <1>4, <2>2 DEF Rebase, engineVars, Typed
<1>5. CASE Finalize("ok") /\ Push
  BY <1>1, <1>5 DEF Finalize, Finish, Push, GitEnds, Typed
<1>6. CASE Finalize("nochange") /\ NothingToFinalize
  BY <1>1, <1>6 DEF Finalize, Finish, NothingToFinalize, repositoryVars, Typed
<1>7. CASE Finalize("failed") /\ (CommitFails \/ FetchFails \/ PushRejected \/ PushUnnoticed)
  BY <1>1, <1>7 DEF Finalize, Finish, CommitFails, FetchFails, PushRejected, PushUnnoticed,
     GitEnds, Typed, Parts
<1>8. CASE Finalize("failed") /\ RebaseFails
  <2>1. \/ UNCHANGED <<head, worktree, pending>>
        \/ \E n \in 0 .. Len(Replayed) : StoppedRebase(n)
    BY <1>8 DEF RebaseFails
  <2>2. head' \in History /\ worktree' \in SUBSET Parts /\ pending' \in {pending, NoKnot}
    BY <2>1, StoppedRebaseMeans DEF Typed
  <2> QED  BY <1>1, <1>8, <2>2 DEF Finalize, Finish, RebaseFails, GitEnds, Typed
<1> QED  BY <1>2, <1>3, <1>4, <1>5, <1>6, <1>7, <1>8 DEF FinalizeKnot

Working == Typed /\ Phases /\ TreeHeld

(* The steps of run() between two builds, and of the engine, leave the     *)
(* repository alone.                                                       *)
Deciding ==
    StartRun \/ DeadlinePassed \/ BeginCycle \/ BeginGateCycle \/ AuditCompletion
    \/ ReweaveBlocked \/ KnotBlocked \/ Advance

LEMMA DecidingMeans ==
    ASSUME Typed, Phases, Deciding
    PROVE  /\ UNCHANGED <<repositoryVars, provenKnots>>
           /\ stage \in {"idle", "done"} /\ git = "idle"
           /\ mode' \in {"off", "deciding", "weaving"}
           /\ \/ /\ mode' = "weaving" /\ stage' = "ARCHITECTURE"
                 /\ mission' \in Knots /\ mission' \in {NextCapability, Gate}
                 /\ checkpoint' \in {head, NoCommit}
                 /\ UNCHANGED <<built, presumed>>
              \/ /\ mode' # "weaving" /\ UNCHANGED engineVars
                 /\ mission' \in {mission, NoKnot}
                 /\ checkpoint' \in {checkpoint, NoCommit}
                 /\ \/ built' \in {built, {}} /\ presumed' \in {presumed, {}}
                    \/ /\ Weaving /\ mission \in Knots
                       /\ built' \in {built, built \cup {mission}}
                       /\ presumed' \in {presumed, presumed \cup {mission}}
<1>0. /\ mode \in {"off", "deciding"} => stage \in {"idle", "done"}
      /\ stage \in {"idle", "done"} => git = "idle"
  BY DEF Typed, Phases, Weaving, Stages
<1>1. CASE StartRun
  BY <1>0, <1>1 DEF StartRun
<1>2. CASE DeadlinePassed \/ AuditCompletion
  BY <1>0, <1>2 DEF DeadlinePassed, AuditCompletion, EndRun, historyVars
<1>3. CASE BeginCycle \/ BeginGateCycle
  <2>1. mode = "deciding" /\ UNCHANGED <<repositoryVars, built, presumed, provenKnots>>
    BY <1>3 DEF BeginCycle, BeginGateCycle, Weave, RefuseToWeave, EndRun, historyVars
  <2>2. \/ \E k \in {NextCapability, Gate} \ {NoKnot}, before \in Snapshots : Weave(k, before)
        \/ EndRun("blocked") /\ UNCHANGED engineVars
    BY <1>3, KnotsAreNamed DEF BeginCycle, BeginGateCycle, RefuseToWeave
  <2>3. ASSUME NEW k \in {NextCapability, Gate} \ {NoKnot}, NEW before \in Snapshots,
               Weave(k, before)
        PROVE  /\ mode' = "weaving" /\ stage' = "ARCHITECTURE"
               /\ mission' \in Knots /\ mission' \in {NextCapability, Gate}
               /\ checkpoint' \in {head, NoCommit}
    <3>1. k \in Knots  BY SelectionMeans, KnotsAreNamed
    <3>2. before.commit \in {head, NoCommit}  BY DEF Snapshots
    <3> QED  BY <2>3, <3>1, <3>2 DEF Weave, Begin, Finish
  <2> QED  BY <1>0, <2>1, <2>2, <2>3 DEF EndRun
<1>4. CASE ReweaveBlocked \/ KnotBlocked
  BY <1>0, <1>4 DEF ReweaveBlocked, KnotBlocked, KnotChecked, EndRun, historyVars
<1>5. CASE Advance
  BY <1>0, <1>5 DEF Advance, KnotChecked, historyVars, Weaving, Phases
<1> QED  BY <1>1, <1>2, <1>3, <1>4, <1>5 DEF Deciding

(* A stage of the engine that leaves the repository alone.                 *)
Judging == PrepareBuild \/ VerifyKnot \/ RepairKnot

LEMMA JudgingMeans ==
    ASSUME Typed, Phases, Judging
    PROVE  /\ UNCHANGED <<repositoryVars, runVars, boundVars, found, misread, generated>>
           /\ Weaving /\ mission \in Knots /\ git = "idle"
           /\ provenKnots' \in {provenKnots, provenKnots \cup {mission}}
           /\ \/ stage = "ARCHITECTURE" /\ stage' = "PLAN"
              \/ stage = "PLAN" /\ stage' = "GENERATE"
              \/ stage = "VERIFY" /\ stage' \in {"REPAIR", "FINALIZE"}
              \/ stage = "REPAIR" /\ stage' \in {"REPAIR", "VERIFY"}
              \/ stage' = "done" /\ ~result'.ok
           /\ stage' = "FINALIZE" =>
                ~unproven' /\ mission \in provenKnots' /\ provenTree' = TreeUnderTest
<1>0. Weaving /\ mission \in Knots
  BY DEF Judging, PrepareBuild, VerifyKnot, RepairKnot, Phases
<1>1. CASE PrepareBuild
  BY <1>0, <1>1 DEF PrepareBuild, RunArchitecture, RunPlan, Prepare, Call, Finish, Blocked,
     daemonVars, historyVars, Phases
<1>2. CASE VerifyKnot
  BY <1>0, <1>2 DEF VerifyKnot, Verify, RepairOrBlock, Call, Finish, Blocked, runVars, Phases
<1>3. CASE RepairKnot
  BY <1>0, <1>3 DEF RepairKnot, Repair, RepairOrBlock, Call, Finish, Blocked,
     daemonVars, historyVars, Phases
<1> QED  BY <1>1, <1>2, <1>3 DEF Judging

(* Recovery: back to the checkpoint, or as far as it came.                 *)
LEMMA RecoveryMeans ==
    ASSUME Typed, Phases, Reweave \/ RecoveryBlocked
    PROVE  /\ mode = "weaving" /\ stage = "done" /\ ~result.ok /\ git = "idle"
           /\ head' \in {head} \cup (IF Recoverable THEN {checkpoint} ELSE {})
           /\ head' \in History
           /\ worktree' \in SUBSET Parts /\ pending' \in {pending, NoKnot}
           /\ UNCHANGED <<attached, origin, tracking, git, mission, checkpoint, built, presumed,
                          historyVars>>
           /\ \/ mode' = "off" /\ UNCHANGED engineVars
              \/ /\ mode' = "reweaving" /\ stage' = "ARCHITECTURE" /\ checkpoint # NoCommit
                 /\ head' = checkpoint /\ worktree' = {}
<1>1. mode = "weaving" /\ stage = "done" /\ ~result.ok /\ git = "idle"
  BY DEF Reweave, RecoveryBlocked, Phases
<1>2. CASE checkpoint = NoCommit
  BY <1>1, <1>2 DEF Reweave, RecoveryBlocked, repositoryVars, EndRun, Typed, Recoverable
<1>3. CASE checkpoint # NoCommit
  <2>1. RollbackSucceeds(mission, checkpoint) \/ RollbackFails(mission, checkpoint)
    BY <1>3 DEF Reweave, RecoveryBlocked
  <2>2. /\ head' \in {head, checkpoint} /\ head' \in History
        /\ worktree' \subseteq worktree /\ pending' \in {pending, NoKnot}
        /\ UNCHANGED <<attached, origin, tracking, git>>
        /\ RollbackSucceeds(mission, checkpoint) => head' = checkpoint /\ worktree' = {}
    BY <1>3, <2>1, RollbackMeans
  <2>3. worktree' \in SUBSET Parts  BY <2>2 DEF Typed
  <2> QED
    BY <1>1, <1>3, <2>2, <2>3
       DEF Reweave, RecoveryBlocked, Begin, Finish, EndRun, historyVars, Recoverable
<1> QED  BY <1>2, <1>3

LEMMA CrashMeans ==
    ASSUME Typed, Crash
    PROVE  /\ mode # "off" /\ mode' = "off" /\ stage' = "idle" /\ git' = "idle"
           /\ UNCHANGED <<origin, tracking, mission, checkpoint, built, presumed, historyVars>>
           /\ \/ UNCHANGED <<head, attached, worktree, pending>>
              \/ /\ git = "fetched" /\ attached' = FALSE
                 /\ head' \in History /\ worktree' \in SUBSET Parts /\ pending' = NoKnot
<1>1. /\ mode # "off" /\ mode' = "off" /\ stage' = "idle" /\ git' = "idle"
      /\ UNCHANGED <<origin, tracking, mission, checkpoint, built, presumed, historyVars>>
      /\ \/ UNCHANGED <<head, attached, worktree, pending>>
         \/ git = "fetched" /\ \E n \in 0 .. Len(Replayed) : StoppedRebase(n)
  BY DEF Crash, CrashOfRepository, EndRun
<1> QED  BY <1>1, StoppedRebaseMeans

LEMMA StepsAreThese ==
    ASSUME [Next]_vars
    PROVE  \/ Deciding \/ Judging \/ GenerateKnot \/ FinalizeKnot
           \/ Reweave \/ RecoveryBlocked \/ Crash \/ SomebodyPushes \/ UNCHANGED vars
BY DEF Next, DaemonStep, Deciding, Judging

LEMMA PushMeans ==
    ASSUME Typed, SomebodyPushes
    PROVE  /\ UNCHANGED <<engineVars, daemonVars, head, attached, tracking, worktree, pending, git>>
           /\ \E f \in Foreign : f \in Patches /\ origin' = Append(origin, f)
           /\ origin' \in History
<1>1. PICK f \in Foreign : OutsiderPush(f)  BY DEF SomebodyPushes
<1>2. f \in Patches  BY KnotsAreNamed
<1>3. origin' \in History  BY <1>1, <1>2 DEF OutsiderPush, Typed, History
<1> QED  BY <1>1, <1>2, <1>3 DEF SomebodyPushes, OutsiderPush

LEMMA TypesHold ==
    ASSUME Typed, Phases, TreeHeld, [Next]_vars
    PROVE  Typed' /\ Phases'
<1>1. CASE Deciding
  <2>1. Typed'
    <3>1. /\ mission' \in Knots \cup {NoKnot} /\ checkpoint' \in History \cup {NoCommit}
          /\ built' \in SUBSET Knots /\ presumed' \in SUBSET Knots
      BY <1>1, DecidingMeans DEF Typed
    <3>2. stage' \in Stages \cup {"idle", "done"}
      BY <1>1, DecidingMeans DEF Typed, Stages, engineVars
    <3> QED  BY <1>1, <3>1, <3>2, DecidingMeans DEF Typed, repositoryVars
  <2>2. Phases'
    BY <1>1, DecidingMeans DEF Phases, Weaving, Stages, repositoryVars, engineVars
  <2> QED  BY <2>1, <2>2
<1>2. CASE Judging
  <2>1. provenKnots' \in SUBSET Knots
    BY <1>2, JudgingMeans DEF Typed
  <2>2. stage' \in Stages \cup {"idle", "done"}
    BY <1>2, JudgingMeans DEF Stages
  <2>3. UNCHANGED <<repositoryVars, runVars>>
    BY <1>2, JudgingMeans
  <2>4. Typed'
    BY <2>1, <2>2, <2>3 DEF Typed, repositoryVars, runVars
  <2>5. Phases'
    BY <1>2, <2>3, JudgingMeans DEF Phases, Weaving, Stages, repositoryVars, runVars
  <2> QED  BY <2>4, <2>5
<1>3. CASE GenerateKnot
  <2>1. UNCHANGED <<runVars, provenKnots>>
    BY <1>3, GenerateMeans DEF daemonVars, historyVars
  <2>2. stage' \in Stages \cup {"idle", "done"}
    BY <1>3, GenerateMeans DEF Stages
  <2>3. Typed'
    BY <1>3, <2>1, <2>2, GenerateMeans DEF Typed, runVars
  <2>4. Phases'
    BY <1>3, <2>1, GenerateMeans DEF Phases, Weaving, Stages, runVars
  <2> QED  BY <2>3, <2>4
<1>4. CASE FinalizeKnot
  <2>1. UNCHANGED <<runVars, provenKnots>>
    BY <1>4, FinalizeMeans DEF daemonVars, historyVars
  <2>2. stage' \in Stages \cup {"idle", "done"}
    BY <1>4, FinalizeMeans DEF Stages
  <2>3. origin' \in History /\ tracking' \in History /\ pending' \in Patches \cup {NoKnot}
    BY <1>4, FinalizeMeans DEF Typed
  <2>4. Typed'
    BY <1>4, <2>1, <2>2, <2>3, FinalizeMeans DEF Typed, runVars
  <2>5. Phases'
    BY <1>4, <2>1, FinalizeMeans DEF Phases, Weaving, Stages, runVars
  <2> QED  BY <2>4, <2>5
<1>5. CASE Reweave \/ RecoveryBlocked
  <2>1. Typed'
    <3>1. stage' \in Stages \cup {"idle", "done"}
      BY <1>5, RecoveryMeans DEF Stages, engineVars, Typed
    <3>2. mode' \in {"off", "deciding", "weaving", "reweaving"} /\ provenKnots' = provenKnots
      BY <1>5, RecoveryMeans DEF historyVars
    <3> QED  BY <1>5, <3>1, <3>2, RecoveryMeans DEF Typed
  <2>2. Phases'
    BY <1>5, RecoveryMeans DEF Phases, Weaving, Stages, engineVars, historyVars
  <2> QED  BY <2>1, <2>2
<1>6. CASE Crash
  <2>1. provenKnots' = provenKnots  BY <1>6, CrashMeans DEF historyVars
  <2>2. Typed'  BY <1>6, <2>1, CrashMeans DEF Typed
  <2>3. Phases'
    BY <1>6, CrashMeans DEF Phases, Weaving, Stages
  <2> QED  BY <2>2, <2>3
<1>7. CASE SomebodyPushes
  <2>1. UNCHANGED <<engineVars, runVars, provenKnots, head, attached, tracking, worktree,
                    pending, git>>
    BY <1>7, PushMeans DEF daemonVars, historyVars
  <2>2. origin' \in History  BY <1>7, PushMeans
  <2> QED
    BY <2>1, <2>2 DEF Typed, Phases, Weaving, engineVars, runVars
<1>8. CASE UNCHANGED vars
  BY <1>8 DEF vars, Typed, Phases, Weaving, engineVars, repositoryVars, runVars, historyVars
<1> QED  BY <1>1, <1>2, <1>3, <1>4, <1>5, <1>6, <1>7, <1>8, StepsAreThese

(* What the agent was seen to do is what the mission's knot is.            *)
LEMMA ProducedMeans ==
    ASSUME Typed, mission \in Knots, GenerateProduced(mission, Repairing)
    PROVE  /\ worktree' # {} /\ "stray" \notin worktree'
           /\ Addable(pending', mission, head)
           /\ mode = "weaving" => pending' = mission
<1> DEFINE k == mission
<1>1. Clean /\ ~UnmetDependencies(k) /\ AgentWrites(k, Repairing) # {}
      /\ worktree' = AgentWrites(k, Repairing) /\ pending' = Made(k, Repairing)
  BY DEF GenerateProduced
<1>2. "stray" \notin AgentWrites(k, Repairing)
  BY DEF AgentWrites
<1>3. pending' \in OwnPatches(k)
  BY <1>1 DEF Made, OwnPatches
<1>4. k \in Scripted => \A d \in Deps[k] : Present(d, head)
  BY <1>1 DEF UnmetDependencies, Exists, Current, Clean, Present
<1>5. pending' = k => ~Present(k, head)
  <2> SUFFICES ASSUME Present(k, head) PROVE pending' # k
    OBVIOUS
  <2>1. Repairing  BY <1>1 DEF AgentWrites
  <2>2. pending' = Rework(k)  BY <1>1, <2>1 DEF Made
  <2> QED  BY <2>2, ReworkAssumption
<1>6. mode = "weaving" => pending' = mission
  BY <1>1 DEF Repairing, Made
<1> QED  BY <1>1, <1>2, <1>3, <1>4, <1>5, <1>6 DEF Addable

LEMMA TreeStaysHeld ==
    ASSUME Working, [Next]_vars
    PROVE  TreeHeld'
<1> USE DEF Working
<1>1. CASE Deciding
  <2>1. stage' \notin {"VERIFY", "REPAIR", "FINALIZE"}
    BY <1>1, DecidingMeans DEF engineVars
  <2> QED  BY <2>1 DEF TreeHeld, Generated
<1>2. CASE Judging
  <2>1. UNCHANGED <<head, worktree, pending, git, mode, mission, generated>>
    BY <1>2, JudgingMeans DEF repositoryVars, runVars
  <2>2. Generated' => Generated
    BY <1>2, <2>1, JudgingMeans DEF Generated
  <2>3. stage' = "FINALIZE" => provenTree' = TreeUnderTest'
    BY <1>2, <2>1, JudgingMeans DEF TreeUnderTest, Clean
  <2> QED  BY <2>1, <2>2, <2>3 DEF TreeHeld
<1>3. CASE GenerateKnot
  <2>1. UNCHANGED <<head, git, mode, mission>> /\ mission \in Knots /\ stage' # "FINALIZE"
    BY <1>3, GenerateMeans DEF daemonVars, runVars, Phases
  <2>2. CASE Generate("produced") /\ GenerateProduced(mission, Repairing)
    <3>1. /\ worktree' # {} /\ "stray" \notin worktree'
          /\ Addable(pending', mission, head)
          /\ mode = "weaving" => pending' = mission
      BY <2>1, <2>2, ProducedMeans
    <3>2. generated' = "produced"  BY <2>2 DEF Generate
    <3> QED  BY <2>1, <3>1, <3>2 DEF TreeHeld
  <2>3. CASE Generate("noop") /\ GenerateNoop(mission, Repairing)
    <3>1. generated' = "noop" /\ worktree' = {} /\ Present(mission, head)
      BY <2>3 DEF Generate, GenerateNoop, AgentWrites, repositoryVars, Clean
    <3> QED  BY <2>1, <3>1 DEF TreeHeld
  <2>4. CASE Generate("failed")
    <3>1. stage' = "done"  BY <2>4 DEF Generate, Finish
    <3> QED  BY <3>1 DEF TreeHeld, Generated
  <2> QED  BY <1>3, <2>2, <2>3, <2>4 DEF GenerateKnot
<1>4. CASE FinalizeKnot
  <2>1. stage' = "FINALIZE" => git' # "idle"
    BY <1>4 DEF FinalizeKnot, Commit, Fetch, NoRebaseNeeded, Rebase, Finalize, Finish
  <2>2. stage' \notin {"VERIFY", "REPAIR"}
    BY <1>4, FinalizeMeans
  <2> QED  BY <2>1, <2>2 DEF TreeHeld, Generated
<1>5. CASE Reweave \/ RecoveryBlocked \/ Crash
  <2>1. stage' \notin {"VERIFY", "REPAIR", "FINALIZE"}
    BY <1>5, RecoveryMeans, CrashMeans DEF engineVars
  <2> QED  BY <2>1 DEF TreeHeld, Generated
<1>6. CASE SomebodyPushes \/ UNCHANGED vars
  <2>1. UNCHANGED <<stage, generated, mission, mode, head, worktree, pending, git, provenTree>>
    BY <1>6, PushMeans
       DEF vars, engineVars, repositoryVars, daemonVars, runVars, historyVars
  <2> QED
    BY <2>1 DEF TreeHeld, Generated, TreeUnderTest, Clean
<1> QED  BY <1>1, <1>2, <1>3, <1>4, <1>5, <1>6, StepsAreThese

LEMMA AlwaysWorking == Spec => []Working
<1>1. Init => Working
  <2>1. Init => head \in History /\ origin \in History /\ tracking \in History
    BY DEF Init, RepositoryInit, History
  <2>2. Init => Typed
    BY <2>1 DEF Init, RepositoryInit, EngineInit, Typed
  <2>3. Init => Phases /\ TreeHeld
    BY DEF Init, RepositoryInit, EngineInit, Phases, TreeHeld, Generated, Weaving, Stages
  <2> QED  BY <2>2, <2>3 DEF Working
<1>2. Working /\ [Next]_vars => Working'
  BY TypesHold, TreeStaysHeld DEF Working
<1> QED  BY <1>1, <1>2, PTL DEF Spec

(* What git commit records is the mission's knot, its declared artifacts   *)
(* only, as VERIFY proved them.                                            *)
THEOREM OnlyProvenKnotsAreCommitted == Spec => CommitsRecordProvenKnot
<1> DEFINE A == Len(head') > Len(head) /\ git' = "committed" =>
                  /\ pending \in OwnPatches(mission)
                  /\ "stray" \notin worktree
                  /\ ~unproven
                  /\ head' = provenTree
<1>1. Working /\ [Next]_vars => [A]_vars
  <2> SUFFICES ASSUME Working, [Next]_vars, head' # head, git' = "committed"
               PROVE  A
    BY DEF vars, Working, Typed, History
  <2> USE DEF Working
  <2>1. FinalizeKnot
    <3>1. ~Deciding /\ ~Judging /\ ~GenerateKnot /\ ~SomebodyPushes /\ ~UNCHANGED vars
      BY DecidingMeans, JudgingMeans, GenerateMeans, PushMeans DEF repositoryVars, vars
    <3>2. ~Reweave /\ ~RecoveryBlocked /\ ~Crash
      BY RecoveryMeans, CrashMeans
    <3> QED  BY <3>1, <3>2, StepsAreThese
  <2>2. stage = "FINALIZE" /\ Commit
    BY <2>1 DEF FinalizeKnot, Fetch, NoRebaseNeeded, Rebase, Push, NothingToFinalize,
       CommitFails, FetchFails, RebaseFails, PushRejected, PushUnnoticed, GitEnds,
       repositoryVars
  <2> QED  BY <2>2, CommitMeans DEF Addable
<1> QED  BY <1>1, AlwaysWorking, PTL DEF Spec, CommitsRecordProvenKnot

(* A knot is rewoven from its checkpoint, in a clean tree.                 *)
THEOREM ReweavingStartsClean == Spec => []ReweavesFromCheckpoint
<1>1. Init => ReweavesFromCheckpoint
  BY DEF Init, ReweavesFromCheckpoint
<1>2. Working /\ ReweavesFromCheckpoint /\ [Next]_vars => ReweavesFromCheckpoint'
  <2> SUFFICES ASSUME Working, ReweavesFromCheckpoint, [Next]_vars,
                      mode' = "reweaving", stage' = "ARCHITECTURE"
               PROVE  head' = checkpoint' /\ worktree' = {}
    BY DEF ReweavesFromCheckpoint, Clean
  <2> USE DEF Working
  <2>1. CASE Reweave \/ RecoveryBlocked
    BY <2>1, RecoveryMeans
  <2>2. CASE SomebodyPushes \/ UNCHANGED vars
    <3>1. UNCHANGED <<mode, stage, head, worktree, checkpoint>>
      BY <2>2, PushMeans DEF vars, engineVars, repositoryVars, daemonVars, runVars
    <3> QED  BY <3>1 DEF ReweavesFromCheckpoint, Clean
  <2>3. ~Deciding /\ ~Judging /\ ~GenerateKnot /\ ~FinalizeKnot /\ ~Crash
    <3>1. ~Deciding
      <4>1. Deciding => stage' = stage \/ mode' = "weaving"
        BY DecidingMeans DEF engineVars
      <4>2. Deciding => mode' # "reweaving"  BY DecidingMeans
      <4> QED  BY <4>2
    <3> QED  BY <3>1, JudgingMeans, GenerateMeans, FinalizeMeans, CrashMeans
  <2> QED  BY <2>1, <2>2, <2>3, StepsAreThese
<1> QED  BY <1>1, <1>2, AlwaysWorking, PTL DEF Spec

(* A run that has found uncommitted work, and seen it, never weaves.       *)
LEMMA UndisturbedHolds ==
    ASSUME Working, Undisturbed, [Next]_vars
    PROVE  Undisturbed'
<1> USE DEF Working
<1>1. CASE Deciding
  <2>1. CASE StartRun
    BY <2>1 DEF StartRun, Undisturbed, repositoryVars
  <2>2. CASE DeadlinePassed \/ AuditCompletion \/ ReweaveBlocked \/ KnotBlocked
    BY <2>2 DEF DeadlinePassed, AuditCompletion, ReweaveBlocked, KnotBlocked, EndRun,
       Undisturbed
  <2>3. CASE BeginCycle \/ BeginGateCycle
    <3>1. CASE mode' = "off"
      BY <3>1 DEF Undisturbed
    <3>2. CASE \E k \in {NextCapability, Gate}, before \in Snapshots : Weave(k, before)
      <4>1. mode = "deciding" /\ found' = found
        BY <2>3, <3>2 DEF BeginCycle, BeginGateCycle, Weave
      <4>2. found # {} /\ ~misread => misread'
        BY <3>2, <4>1 DEF Weave, Undisturbed, Clean
      <4>3. misread => misread'
        BY <3>2 DEF Weave
      <4> QED  BY <4>1, <4>2, <4>3 DEF Undisturbed
    <3> QED  BY <2>3, <3>1, <3>2 DEF BeginCycle, BeginGateCycle, RefuseToWeave, EndRun
  <2>4. CASE Advance
    BY <2>4 DEF Advance, KnotChecked, historyVars, Undisturbed
  <2> QED  BY <1>1, <2>1, <2>2, <2>3, <2>4 DEF Deciding
<1>2. CASE Judging \/ GenerateKnot \/ FinalizeKnot
  <2>1. Weaving /\ UNCHANGED <<mode, found, misread>>
    BY <1>2, JudgingMeans, GenerateMeans, FinalizeMeans DEF daemonVars, runVars, historyVars
  <2> QED  BY <2>1 DEF Undisturbed, Weaving
<1>3. CASE Reweave \/ RecoveryBlocked
  <2>1. mode = "weaving" /\ UNCHANGED <<found, misread>>
    BY <1>3, RecoveryMeans DEF historyVars
  <2> QED  BY <2>1 DEF Undisturbed
<1>4. CASE Crash
  BY <1>4, CrashMeans DEF Undisturbed
<1>5. CASE SomebodyPushes \/ UNCHANGED vars
  <2>1. UNCHANGED <<mode, worktree, found, misread>>
    BY <1>5, PushMeans DEF vars, engineVars, repositoryVars, daemonVars, runVars, historyVars
  <2> QED  BY <2>1 DEF Undisturbed
<1> QED  BY <1>1, <1>2, <1>3, <1>4, <1>5, StepsAreThese

(* Uncommitted work found at the start of a run survives the run, unless a *)
(* failed git status hid it.                                               *)
THEOREM FoundWorkIsLeftAlone == Spec => FoundWorkSurvives
<1>1. Init => Undisturbed
  BY DEF Init, Undisturbed
<1>2. Working /\ Undisturbed /\ [Next]_vars => Undisturbed'
  BY UndisturbedHolds
<1>3. Working /\ Undisturbed /\ [Next]_vars =>
        [mode # "off" /\ found # {} /\ ~misread => worktree' = worktree]_vars
  <2> SUFFICES ASSUME Working, Undisturbed, [Next]_vars, mode # "off", found # {}, ~misread
               PROVE  worktree' = worktree
    OBVIOUS
  <2> USE DEF Working
  <2>1. mode = "deciding" /\ git = "idle"
    BY DEF Undisturbed, Phases, Weaving, Stages
  <2>2. ~Judging /\ ~GenerateKnot /\ ~FinalizeKnot /\ ~Reweave /\ ~RecoveryBlocked
    BY <2>1, JudgingMeans, GenerateMeans, FinalizeMeans, RecoveryMeans DEF Weaving
  <2>3. CASE Deciding  BY <2>3, DecidingMeans DEF repositoryVars
  <2>4. CASE Crash  BY <2>1, <2>4, CrashMeans
  <2>5. CASE SomebodyPushes  BY <2>5, PushMeans
  <2>6. CASE UNCHANGED vars  BY <2>6 DEF vars, repositoryVars
  <2> QED  BY <2>2, <2>3, <2>4, <2>5, <2>6, StepsAreThese
<1> QED  BY <1>1, <1>2, <1>3, AlwaysWorking, PTL DEF Spec, FoundWorkSurvives

-----------------------------------------------------------------------------
(* What is in a history stays in a larger one.                             *)
LEMMA LargerHistories ==
    ASSUME NEW h \in History, NEW g \in History, Range(h) \subseteq Range(g), NEW k \in Knots
    PROVE  /\ Present(k, h) => Present(k, g)
           /\ Woven(k, h) => Woven(k, g)
           /\ Woven(k, h) => Present(k, h)
<1>0. /\ Range(h) = {h[i] : i \in 1 .. Len(h)}
      /\ Range(g) = {g[i] : i \in 1 .. Len(g)}
  BY DEF Range, History
<1>1. Present(k, h) => Present(k, g)
  <2> SUFFICES ASSUME NEW i \in 1 .. Len(h), k \in Touches(h[i]) PROVE Present(k, g)
    BY PresentMeans
  <2>1. PICK j \in 1 .. Len(g) : g[j] = h[i]  BY <1>0
  <2> QED  BY <2>1, PresentMeans
<1>2. Woven(k, h) => Woven(k, g)
  BY DEF Woven
<1>3. Woven(k, h) => Present(k, h)
  <2> SUFFICES ASSUME Woven(k, h) PROVE Present(k, h)
    OBVIOUS
  <2>1. PICK p \in OwnPatches(k) : p \in Range(h)  BY DEF Woven
  <2>2. PICK i \in 1 .. Len(h) : h[i] = p  BY <1>0, <2>1
  <2> QED  BY <2>1, <2>2, OwnPatchesTouch, PresentMeans
<1> QED  BY <1>1, <1>2, <1>3

LEMMA ExtensionsAreLarger ==
    ASSUME NEW h \in History, NEW g \in History
    PROVE  /\ IsPrefix(h, g) => Range(h) \subseteq Range(g)
           /\ \A p \in Patches : /\ Append(h, p) \in History
                                 /\ Range(Append(h, p)) = Range(h) \cup {p}
           /\ h \o g \in History /\ Range(h \o g) = Range(h) \cup Range(g)
<1>0. /\ Len(h) \in Nat /\ Len(g) \in Nat
      /\ DOMAIN h = 1 .. Len(h) /\ DOMAIN g = 1 .. Len(g)
  BY DEF History
<1>1. ASSUME IsPrefix(h, g) PROVE Range(h) \subseteq Range(g)
  <2>1. Agrees(h, g, Len(h))  BY <1>1, HistoryPrefixMeans
  <2> QED  BY <1>0, <2>1 DEF Agrees, Range
<1>2. ASSUME NEW p \in Patches
      PROVE  Append(h, p) \in History /\ Range(Append(h, p)) = Range(h) \cup {p}
  <2> DEFINE a == Append(h, p)
  <2>1. /\ a \in Seq(Patches) /\ Len(a) = Len(h) + 1 /\ DOMAIN a = 1 .. Len(a)
        /\ a[Len(h) + 1] = p /\ \A i \in 1 .. Len(h) : a[i] = h[i]
    BY <1>2 DEF History
  <2>2. Range(a) \subseteq Range(h) \cup {p}
    BY <1>0, <2>1 DEF Range
  <2>3. Range(h) \cup {p} \subseteq Range(a)
    BY <1>0, <2>1 DEF Range
  <2> QED  BY <2>1, <2>2, <2>3 DEF History
<1>3. h \o g \in History /\ Range(h \o g) = Range(h) \cup Range(g)
  <2> DEFINE c == h \o g
  <2>1. /\ c \in Seq(Patches) /\ Len(c) = Len(h) + Len(g) /\ DOMAIN c = 1 .. Len(c)
        /\ \A i \in 1 .. Len(h) : c[i] = h[i]
        /\ \A i \in 1 .. Len(g) : c[Len(h) + i] = g[i]
    BY <1>0 DEF History
  <2>2. ASSUME NEW i \in 1 .. Len(c) PROVE c[i] \in Range(h) \cup Range(g)
    <3>1. CASE i <= Len(h)  BY <1>0, <2>1, <3>1 DEF Range
    <3>2. CASE i > Len(h)
      <4>1. i - Len(h) \in 1 .. Len(g) /\ c[i] = c[Len(h) + (i - Len(h))]
        BY <1>0, <2>1, <3>2
      <4> QED  BY <1>0, <2>1, <4>1 DEF Range
    <3> QED  BY <1>0, <2>1, <3>1, <3>2
  <2>3. ASSUME NEW i \in 1 .. Len(h) PROVE h[i] \in Range(c)
    BY <1>0, <2>1 DEF Range
  <2>4. ASSUME NEW i \in 1 .. Len(g) PROVE g[i] \in Range(c)
    <3>1. Len(h) + i \in 1 .. Len(c) /\ c[Len(h) + i] = g[i]  BY <1>0, <2>1
    <3> QED  BY <2>1, <3>1 DEF Range
  <2>5. Range(c) = {c[i] : i \in 1 .. Len(c)} /\ Range(h) = {h[i] : i \in 1 .. Len(h)}
        /\ Range(g) = {g[i] : i \in 1 .. Len(g)}
    BY <1>0, <2>1 DEF Range
  <2> HIDE DEF c
  <2>6. c \in History  BY <2>1 DEF History
  <2>7. Range(c) = Range(h) \cup Range(g)  BY <2>2, <2>3, <2>4, <2>5
  <2> QED  BY <2>6, <2>7 DEF c
<1> QED  BY <1>1, <1>2, <1>3

(* A rebase loses nothing that HEAD had.                                   *)
LEMMA RebaseKeeps ==
    ASSUME Typed
    PROVE  /\ tracking \o Replayed \in History
           /\ Range(head) \subseteq Range(tracking \o Replayed)
<1>0. head \in History /\ tracking \in History /\ Replayed \in History
  BY ReplayedMeans DEF Typed
<1>1. /\ tracking \o Replayed \in History
      /\ Range(tracking \o Replayed) = Range(tracking) \cup Range(Replayed)
  BY <1>0, ExtensionsAreLarger
<1>2. PICK place \in [1 .. Len(Replayed) -> Common + 1 .. Len(head)] :
        /\ \A n \in 1 .. Len(Replayed) : Replayed[n] = head[place[n]]
        /\ \A i \in Common + 1 .. Len(head) :
             \/ \E n \in 1 .. Len(Replayed) : place[n] = i
             \/ head[i] \in Knots /\ head[i] \in Range(tracking)
  BY <1>0, ReplayedMeans
<1>3. /\ Range(head) = {head[i] : i \in 1 .. Len(head)}
      /\ \A n \in 1 .. Len(Replayed) : Replayed[n] \in Range(Replayed)
      /\ \A n \in 1 .. Len(tracking) : tracking[n] \in Range(tracking)
  BY <1>0 DEF Range, History
<1>4. ASSUME NEW i \in 1 .. Len(head)
      PROVE  head[i] \in Range(tracking) \cup Range(Replayed)
  <2>1. CASE i <= Common
    <3>1. Common \in Nat /\ Common <= Len(tracking) /\ Len(tracking) \in Nat
          /\ \A j \in 1 .. Common : head[j] = tracking[j]
      BY <1>0, CommonMeans DEF History
    <3>2. i \in 1 .. Common /\ i \in 1 .. Len(tracking)  BY <2>1, <3>1
    <3> QED  BY <1>3, <3>1, <3>2
  <2>2. CASE ~(i <= Common)
    <3>1. Common \in Nat /\ Len(head) \in Nat  BY <1>0, CommonMeans DEF History
    <3>2. i \in Common + 1 .. Len(head)  BY <2>2, <3>1
    <3> QED  BY <1>2, <1>3, <3>2
  <2> QED  BY <2>1, <2>2
<1> QED  BY <1>1, <1>3, <1>4

LEMMA FinalizeAchieves ==
    ASSUME Working, Achieved, FinalizeKnot
    PROVE  Achieved'
<1> USE DEF Working
<1>1. /\ UNCHANGED <<mode, mission, checkpoint, built, presumed, generated>>
      /\ stage = "FINALIZE" /\ Weaving /\ mission \in Knots
      /\ head' \in History /\ origin' \in {origin, head}
      /\ stage' \in {"FINALIZE", "done"} /\ (stage' = "done" => git' = "idle")
  BY FinalizeMeans DEF daemonVars, runVars
<1>2. head \in History /\ origin \in History /\ pending \in Patches \cup {NoKnot}
  BY DEF Typed
<1>3. \A k \in Advanced : k \in Knots /\ Present(k, head)
  BY <1>1 DEF Achieved, Typed, Advanced
<1>4. \A k \in built : k \in Knots /\ Woven(k, origin)
  BY DEF Achieved, Typed
<1>5. Range(head) \subseteq Range(head') \/ (stage' = "done" /\ ~result'.ok)
  <2>1. CASE Commit /\ UNCHANGED engineVars
    <3>1. pending \in Patches /\ head' = Append(head, pending)
      BY <1>1, <2>1, CommitMeans
    <3> QED  BY <1>2, <3>1, ExtensionsAreLarger
  <2>2. CASE Rebase /\ UNCHANGED engineVars
    BY <2>2, RebaseKeeps DEF Rebase
  <2>3. CASE (Fetch \/ NoRebaseNeeded \/ Push \/ NothingToFinalize)
    BY <2>3 DEF Fetch, NoRebaseNeeded, Push, NothingToFinalize, repositoryVars
  <2>4. CASE Finalize("failed")
    BY <2>4 DEF Finalize, Finish, FinalizeAccepted, Blocked
  <2> QED  BY <2>1, <2>2, <2>3, <2>4 DEF FinalizeKnot
<1>6. Range(head) \subseteq Range(head') => \A k \in Advanced : Present(k, head')
  BY <1>1, <1>2, <1>3, LargerHistories
<1>7. origin' = head => (git = "ready" /\ IsPrefix(origin, head)) \/ origin' = origin
  BY DEF FinalizeKnot, Commit, Fetch, NoRebaseNeeded, Rebase, NothingToFinalize,
     CommitFails, FetchFails, RebaseFails, PushRejected, PushUnnoticed, Push, repositoryVars
<1>8. \A k \in built : Woven(k, origin')
  <2>1. IsPrefix(origin, head) => \A k \in built : Woven(k, head)
    BY <1>2, <1>4, ExtensionsAreLarger, LargerHistories
  <2> QED  BY <1>1, <1>4, <1>7, <2>1
<1>9. git' # "idle" => Woven(mission, head')
  <2>1. CASE Commit /\ UNCHANGED engineVars
    <3>1. /\ pending \in Patches /\ Addable(pending, mission, head)
          /\ head' = Append(head, pending)
      BY <1>1, <2>1, CommitMeans
    <3>2. pending \in OwnPatches(mission)  BY <3>1 DEF Addable
    <3>3. pending \in Range(head')  BY <1>2, <3>1, ExtensionsAreLarger
    <3> QED  BY <3>2, <3>3 DEF Woven
  <2>2. CASE git # "idle" /\ Range(head) \subseteq Range(head')
    BY <1>1, <1>2, <2>2, LargerHistories DEF Achieved
  <2>3. CASE stage' = "done"  BY <1>1, <2>3
  <2>4. CASE UNCHANGED engineVars /\ (Fetch \/ NoRebaseNeeded \/ Rebase)
    <3>1. git # "idle" /\ stage' # "done"
      BY <1>1, <2>4 DEF Fetch, NoRebaseNeeded, Rebase, engineVars
    <3> QED  BY <1>5, <2>2, <3>1
  <2>5. CASE Finalize("ok") \/ Finalize("nochange") \/ Finalize("failed")
    BY <1>1, <2>5 DEF Finalize, Finish
  <2> QED  BY <2>1, <2>3, <2>4, <2>5 DEF FinalizeKnot
<1>10. ASSUME stage' = "done", result'.ok
       PROVE  Present(mission, head') /\ (result'.idempotent \/ Woven(mission, origin'))
  <2>1. CASE Finalize("ok") /\ Push
    <3>1. head' = head /\ origin' = head /\ Woven(mission, head)
      BY <2>1 DEF Push, Achieved
    <3> QED  BY <1>1, <1>2, <3>1, LargerHistories
  <2>2. CASE Finalize("nochange") /\ NothingToFinalize
    <3>1. generated = "noop" /\ result'.idempotent
      <4>1. ~FinalizeAccepted("nochange") => ~result'.ok
        BY <2>2 DEF Finalize, Finish, Blocked
      <4>2. generated = "noop"
        BY <1>10, <4>1 DEF FinalizeAccepted
      <4>3. PICK s : result' = Success(s, attempt, generated = "noop")
        BY <1>10, <2>2, <4>1 DEF Finalize, Finish
      <4>4. result'.idempotent = (generated = "noop")
        BY <4>3 DEF Success
      <4> QED  BY <4>2, <4>4
    <3>2. git = "idle" /\ head' = head
      BY <2>2 DEF NothingToFinalize, repositoryVars
    <3> QED  BY <1>1, <3>1, <3>2 DEF TreeHeld, Generated
  <2>3. ~Finalize("failed") /\ ~UNCHANGED engineVars
    BY <1>1, <1>10 DEF Finalize, Finish, FinalizeAccepted, Blocked, engineVars
  <2> QED  BY <2>1, <2>2, <2>3 DEF FinalizeKnot
<1>11. Recoverable' => \A k \in Advanced : Present(k, checkpoint)
  BY <1>1 DEF Achieved, Recoverable
<1>12. Advanced' = Advanced /\ mode' # "deciding"
  BY <1>1 DEF Advanced, Weaving
<1> QED
  BY <1>1, <1>5, <1>6, <1>8, <1>9, <1>10, <1>11, <1>12 DEF Achieved

LEMMA AchievementsStay ==
    ASSUME Working, Achieved, [Next]_vars
    PROVE  Achieved'
<1> USE DEF Working
<1>0. /\ head \in History /\ origin \in History
      /\ \A k \in Advanced : k \in Knots
  BY DEF Typed, Advanced
<1>1. CASE Deciding
  <2>1. UNCHANGED <<head, origin, git>> /\ git = "idle" /\ mode' # "reweaving"
    BY <1>1, DecidingMeans DEF repositoryVars
  <2>2. CASE mode' = "weaving"
    <3>1. stage' # "done" /\ checkpoint' \in {head, NoCommit} /\ UNCHANGED <<built, presumed>>
      BY <1>1, <2>2, DecidingMeans
    <3>2. mode = "deciding"
      BY <1>1, <2>2 DEF Deciding, StartRun, DeadlinePassed, BeginCycle, BeginGateCycle,
         AuditCompletion, ReweaveBlocked, KnotBlocked, Advance, Weave, RefuseToWeave, EndRun
    <3> QED
      BY <2>1, <2>2, <3>1, <3>2 DEF Achieved, Advanced, Recoverable, Weaving
  <2>3. CASE mode' # "weaving"
    <3>1. CASE Advance
      <4>1. /\ Weaving /\ mission \in Knots /\ stage = "done" /\ result.ok
            /\ built' = IF result.idempotent THEN built ELSE built \cup {mission}
            /\ presumed' = IF result.idempotent THEN presumed \cup {mission} ELSE presumed
        BY <3>1 DEF Advance, KnotChecked, Weaving, Phases
      <4>2. Present(mission, head) /\ (result.idempotent \/ Woven(mission, origin))
        BY <4>1 DEF Achieved
      <4>3. \A k \in Advanced' : k = mission \/ k \in Advanced
        BY <4>1 DEF Advanced
      <4>4. \A k \in Advanced' : Present(k, head)
        BY <4>1, <4>2, <4>3 DEF Achieved
      <4>5. \A k \in built' : Woven(k, origin)
        BY <4>1, <4>2 DEF Achieved
      <4> QED  BY <2>1, <2>3, <4>4, <4>5 DEF Achieved, Recoverable, Weaving
    <3>2. CASE StartRun
      <4>1. built' = {} /\ presumed' = {}  BY <3>2 DEF StartRun
      <4> QED  BY <2>1, <2>3, <4>1 DEF Achieved, Recoverable, Weaving, Advanced
    <3>3. CASE EndRun("blocked") \/ EndRun("completed")
      <4>1. mode' = "off" /\ built' = built  BY <3>3 DEF EndRun
      <4> QED  BY <2>1, <4>1 DEF Achieved, Recoverable, Weaving
    <3>4. Advance \/ StartRun \/ EndRun("blocked") \/ EndRun("completed")
      BY <1>1, <2>3 DEF Deciding, DeadlinePassed, BeginCycle, BeginGateCycle,
         AuditCompletion, ReweaveBlocked, KnotBlocked, Weave, RefuseToWeave
    <3> QED  BY <3>1, <3>2, <3>3, <3>4
  <2> QED  BY <2>2, <2>3
<1>2. CASE Judging \/ GenerateKnot
  <2>1. UNCHANGED <<head, origin, git, mode, mission, checkpoint, built, presumed>>
    BY <1>2, JudgingMeans, GenerateMeans DEF repositoryVars, daemonVars, runVars
  <2>2. Weaving /\ stage # "done" /\ (stage' = "done" => ~result'.ok)
    <3>1. CASE Judging
      <4>1. Weaving /\ (stage' = "done" => ~result'.ok)
        BY <3>1, JudgingMeans
      <4>2. stage # "done"
        BY <3>1 DEF Judging, PrepareBuild, VerifyKnot, RepairKnot, RunArchitecture, RunPlan,
           Verify, Repair
      <4> QED  BY <4>1, <4>2
    <3>2. CASE GenerateKnot  BY <3>2, GenerateMeans
    <3> QED  BY <1>2, <3>1, <3>2
  <2> QED  BY <2>1, <2>2 DEF Achieved, Recoverable, Weaving, Advanced
<1>3. CASE FinalizeKnot
  BY <1>3, FinalizeAchieves
<1>4. CASE Reweave \/ RecoveryBlocked
  <2>1. /\ mode = "weaving" /\ UNCHANGED <<origin, git, mission, checkpoint, built, presumed>>
        /\ git = "idle" /\ mode' \in {"off", "reweaving"}
        /\ mode' = "reweaving" => stage' # "done" /\ checkpoint # NoCommit /\ head' = checkpoint
    BY <1>4, RecoveryMeans
  <2> QED  BY <2>1 DEF Achieved, Recoverable, Weaving, Advanced
<1>5. CASE Crash
  BY <1>5, CrashMeans DEF Achieved, Recoverable, Weaving
<1>6. CASE SomebodyPushes
  <2>1. /\ UNCHANGED <<head, git, mode, mission, checkpoint, built, presumed, stage, result>>
        /\ origin' \in History
    BY <1>6, PushMeans DEF daemonVars, runVars, engineVars
  <2>2. Range(origin) \subseteq Range(origin')
    <3>1. PICK f \in Foreign : f \in Patches /\ origin' = Append(origin, f)
      BY <1>6, PushMeans
    <3> QED  BY <1>0, <3>1, ExtensionsAreLarger
  <2>3. \A k \in Knots : Woven(k, origin) => Woven(k, origin')
    BY <1>0, <2>1, <2>2, LargerHistories
  <2>4. built \in SUBSET Knots /\ (Weaving => mission \in Knots)
    BY DEF Typed, Phases
  <2> QED  BY <2>1, <2>3, <2>4 DEF Achieved, Recoverable, Weaving, Advanced
<1>7. CASE UNCHANGED vars
  BY <1>7 DEF vars, repositoryVars, runVars, engineVars, Achieved, Recoverable, Weaving, Advanced
<1> QED  BY <1>1, <1>2, <1>3, <1>4, <1>5, <1>6, <1>7, StepsAreThese

LEMMA AlwaysAchieved == Spec => []Achieved
<1>1. Init => Achieved
  BY DEF Init, RepositoryInit, EngineInit, Achieved, Weaving, Recoverable, Advanced
<1> QED  BY <1>1, AchievementsStay, AlwaysWorking, PTL DEF Spec

(* The daemon advances over a knot it built only once the remote has it.   *)
THEOREM WhatIsBuiltIsPublished == Spec => []BuiltKnotsPublished
BY AlwaysAchieved, PTL DEF Achieved, BuiltKnotsPublished

(* What a run has advanced over is in the head it selects on next, whatever*)
(* was rebased, rolled back or rewoven since.                              *)
THEOREM WhatIsAdvancedOverIsPresent == Spec => []AdvancedKnotsPresent
BY AlwaysAchieved, PTL DEF Achieved, Advanced, AdvancedKnotsPresent

(* A knot the run has advanced over is selected again only if the audit    *)
(* does not recognise it.                                                  *)
LEMMA SelectedAgain ==
    ASSUME Working, Achieved, mode = "deciding", NextCapability # NoKnot,
           NextCapability \in Advanced
    PROVE  NextCapability \in Unrecognised
<1> DEFINE k == NextCapability
<1>1. k \in Knots /\ Present(k, head) /\ head \in History /\ pending \in Patches \cup {NoKnot}
  BY SelectionMeans DEF Working, Typed, Achieved
<1>2. /\ Version(k, head) \in Patches /\ k \in Touches(Version(k, head))
      /\ Version(k, head) # NoKnot
  BY <1>1, PresentMeans DEF Present
<1>3. Current(k) \in {pending, Version(k, head)} /\ Current(k) # NoKnot
      /\ (Current(k) \in OwnPatches(k) \/ Current(k) = Version(k, head))
  BY <1>1, <1>2, OwnPatchesTouch DEF Current
<1>4. Ready(k) /\ k \in Range(Backlog)
  BY <1>3, SelectionMeans DEF Exists
<1>5. ~Recognised(k)
  <2>1. \A d \in Deps[k] : Deps[d] \subseteq Deps[k] /\ d \in Deps[d] \cup {d}
    BY <1>1, KnotsAssumption
  <2>2. \A d \in Deps[k] : Recognised(d)
    BY <1>4, <2>1 DEF Ready, Implemented
  <2> QED  BY <1>4, <2>2 DEF Ready, Implemented
<1>6. CASE k \notin Scripted
  BY <1>4, <1>6 DEF Unrecognised
<1>7. CASE k \in Scripted
  <2>1. Current(k) = Version(k, head) /\ Current(k) \notin OwnPatches(k)
    BY <1>3, <1>5, <1>7 DEF Recognised
  <2>2. Current(k) \in Foreign
    <3> SUFFICES ASSUME Current(k) \notin Foreign PROVE FALSE
      OBVIOUS
    <3>1. PICK j \in Knots : Current(k) \in OwnPatches(j)
      BY <1>2, <2>1, TouchesKnots
    <3>2. Touches(Current(k)) = {j}  BY <3>1, OwnPatchesTouch
    <3> QED  BY <1>2, <2>1, <3>1, <3>2
  <2>3. Current(k) \in Opaque
    BY <1>5, <2>2 DEF Recognised
  <2>4. k \in Provides[Current(k)]
    BY <1>2, <2>1, <2>2 DEF Touches
  <2> QED  BY <2>3, <2>4 DEF Unrecognised
<1> QED  BY <1>6, <1>7

(* A run does not weave again what it has already advanced over, except    *)
(* what its audit does not recognise.                                      *)
THEOREM WeavingIsNotRepeated == Spec => []WovenOncePerRun
<1>1. Init => WovenOncePerRun
  BY DEF Init, WovenOncePerRun
<1>2. Working /\ Achieved /\ WovenOncePerRun /\ [Next]_vars => WovenOncePerRun'
  <2> SUFFICES ASSUME Working, Achieved, WovenOncePerRun, [Next]_vars,
                      mode' = "weaving", mission' \in Advanced'
               PROVE  mission' \in Unrecognised
    BY DEF WovenOncePerRun, Advanced
  <2> USE DEF Working
  <2>1. CASE Deciding
    <3>1. mission' \in {NextCapability, Gate} /\ UNCHANGED <<built, presumed>> /\ mission' \in Knots
      BY <2>1, DecidingMeans
    <3>2. mode = "deciding"
      BY <2>1 DEF Deciding, StartRun, DeadlinePassed, BeginCycle, BeginGateCycle,
         AuditCompletion, ReweaveBlocked, KnotBlocked, Advance, Weave, RefuseToWeave, EndRun
    <3>3. CASE mission' = Gate  BY <3>3 DEF Unrecognised
    <3>4. CASE mission' = NextCapability
      BY <3>1, <3>2, <3>4, SelectedAgain, KnotsAreNamed DEF Advanced
    <3> QED  BY <3>1, <3>3, <3>4
  <2>2. CASE Judging \/ GenerateKnot \/ FinalizeKnot \/ SomebodyPushes \/ UNCHANGED vars
    <3>1. UNCHANGED <<mode, mission, built, presumed>>
      BY <2>2, JudgingMeans, GenerateMeans, FinalizeMeans, PushMeans
         DEF daemonVars, runVars, vars
    <3> QED  BY <3>1 DEF WovenOncePerRun, Advanced
  <2>3. ~Reweave /\ ~RecoveryBlocked /\ ~Crash
    BY RecoveryMeans, CrashMeans
  <2> QED  BY <2>1, <2>2, <2>3, StepsAreThese
<1> QED  BY <1>1, <1>2, AlwaysWorking, AlwaysAchieved, PTL DEF Spec

-----------------------------------------------------------------------------
(* What may be published.                                                  *)
LEMMA PrefixesCompose ==
    ASSUME NEW s \in History, NEW t \in History, NEW u \in History
    PROVE  /\ IsPrefix(s, s)
           /\ IsPrefix(s, t) /\ IsPrefix(t, u) => IsPrefix(s, u)
           /\ \A p \in Patches : IsPrefix(s, t) => IsPrefix(s, Append(t, p))
<1>1. IsPrefix(s, s)
  <2>1. Agrees(s, s, Len(s))  BY DEF Agrees, History
  <2> QED  BY <2>1, HistoryPrefixMeans
<1>2. IsPrefix(s, t) /\ IsPrefix(t, u) => IsPrefix(s, u)
  <2> SUFFICES ASSUME Agrees(s, t, Len(s)), Agrees(t, u, Len(t))
               PROVE  Agrees(s, u, Len(s))
    BY HistoryPrefixMeans
  <2>1. Len(s) \in Nat /\ Len(t) \in Nat /\ Len(u) \in Nat  BY DEF History
  <2> QED  BY <2>1 DEF Agrees
<1>3. ASSUME NEW p \in Patches, IsPrefix(s, t) PROVE IsPrefix(s, Append(t, p))
  <2>1. Agrees(s, t, Len(s)) /\ Append(t, p) \in History
    BY <1>3, HistoryPrefixMeans, ExtensionsAreLarger
  <2>2. Agrees(s, Append(t, p), Len(s))
    BY <2>1 DEF Agrees, History
  <2> QED  BY <2>1, <2>2, HistoryPrefixMeans
<1> QED  BY <1>1, <1>2, <1>3

LEMMA FitGrows ==
    ASSUME NEW h \in History, NEW o \in History, NEW t \in History, NEW u \in History,
           NEW P, NEW Q, P \subseteq Q, IsPrefix(t, u), Fit(h, o, t, P)
    PROVE  Fit(h, o, u, Q)
<1>1. Agrees(t, u, Len(t)) /\ Len(t) \in Nat /\ Len(h) \in Nat
  BY HistoryPrefixMeans
<1>2. ASSUME NEW i \in 1 .. Len(h), Agrees(h, t, i) PROVE Agrees(h, u, i)
  BY <1>1, <1>2 DEF Agrees, History
<1>3. ASSUME NEW i \in 1 .. Len(h), GoodAt(h, i, P) PROVE GoodAt(h, i, Q)
  BY <1>3 DEF GoodAt
<1> QED  BY <1>2, <1>3 DEF Fit

LEMMA FitAppended ==
    ASSUME NEW h \in History, NEW o \in History, NEW t \in History, NEW P \in SUBSET Knots,
           Fit(h, o, t, P), NEW k \in P, NEW p \in Patches, Addable(p, k, h)
    PROVE  Fit(Append(h, p), o, t, P)
<1> DEFINE a == Append(h, p)
           n == Len(h) + 1
<1>0. /\ Len(h) \in Nat /\ a \in History /\ Len(a) = n /\ a[n] = p
      /\ \A i \in 1 .. Len(h) : a[i] = h[i]
      /\ Range(a) = Range(h) \cup {p}
      /\ k \in Knots
      /\ n \in 1 .. n /\ \A i \in 1 .. Len(h) : i \in 1 .. n
  BY ExtensionsAreLarger DEF History
<1> HIDE DEF a
<1>1. ASSUME NEW i \in 1 .. Len(h), Agrees(h, t, i) PROVE Agrees(a, t, i)
  BY <1>0, <1>1 DEF Agrees
<1>2. ASSUME NEW d, NEW i \in 1 .. n
      PROVE  Anchors(d, a, i - 1) <=> Anchors(d, h, i - 1)
  BY <1>0 DEF Anchors
<1>3. ASSUME NEW i \in 1 .. Len(h), GoodAt(h, i, P) PROVE GoodAt(a, i, P)
  <2>1. a[i] = h[i] /\ \A d : Anchors(d, a, i - 1) <=> Anchors(d, h, i - 1)
    BY <1>0, <1>2
  <2> QED  BY <1>3, <2>1 DEF GoodAt
<1>4. GoodAt(a, n, P)
  <2>1. \A d \in Knots : Present(d, h) <=> Anchors(d, h, n - 1)
    BY <1>0, PresentMeans DEF Anchors
  <2>2. \A d \in Deps[k] : d \in Knots  BY <1>0, KnotsAssumption
  <2>3. \A d : Anchors(d, a, n - 1) <=> Anchors(d, h, n - 1)
    BY <1>0, <1>2
  <2>4. /\ k \in Scripted => \A d \in Deps[k] : Anchors(d, a, n - 1)
        /\ p = k => ~Anchors(k, a, n - 1)
    BY <1>0, <2>1, <2>2, <2>3 DEF Addable
  <2>5. p \in OwnPatches(k)  BY DEF Addable
  <2> QED  BY <1>0, <2>4, <2>5 DEF GoodAt
<1>5. \A i \in 1 .. Len(a) : Agrees(a, t, i) \/ GoodAt(a, i, P)
  BY <1>0, <1>1, <1>3, <1>4 DEF Fit
<1>6. Reworks(o) \subseteq Reworks(a)
  BY <1>0 DEF Fit, Reworks
<1>7. ASSUME NEW j \in Reworks(o) \cap Builds(a) PROVE j \in Builds(o)
  <2>1. CASE j \in Range(h)
    BY <1>7, <2>1 DEF Fit, Builds
  <2>2. CASE j \notin Range(h)
    <3>1. j = p /\ j \in Knots  BY <1>0, <1>7, <2>2 DEF Builds
    <3>2. j = k /\ p = k
      BY <1>0, <3>1, OwnPatchesTouch DEF Addable
    <3>3. Rework(k) \in Range(h)  BY <1>7, <3>2 DEF Fit, Reworks
    <3>4. Woven(k, h)  BY <3>3 DEF Woven, OwnPatches
    <3>5. Present(k, h)  BY <1>0, <3>4, LargerHistories
    <3> QED  BY <3>2, <3>5 DEF Addable
  <2> QED  BY <2>1, <2>2
<1> QED  BY <1>5, <1>6, <1>7 DEF Fit, a

(* Beyond the remote's commits the rebased HEAD has the replayed ones.     *)
LEMMA RebasedMeans ==
    ASSUME NEW t \in History, NEW r \in History
    PROVE  /\ t \o r \in History /\ Len(t \o r) = Len(t) + Len(r)
           /\ Len(t) \in Nat /\ Len(r) \in Nat
           /\ \A i \in 1 .. Len(t) : (t \o r)[i] = t[i]
           /\ \A n \in 1 .. Len(r) : (t \o r)[Len(t) + n] = r[n]
           /\ \A i \in 1 .. Len(t \o r) : i <= Len(t) \/ \E n \in 1 .. Len(r) : i = Len(t) + n
<1>1. /\ t \o r \in History /\ Len(t \o r) = Len(t) + Len(r)
      /\ Len(t) \in Nat /\ Len(r) \in Nat
      /\ \A i \in 1 .. Len(t) : (t \o r)[i] = t[i]
      /\ \A n \in 1 .. Len(r) : (t \o r)[Len(t) + n] = r[n]
  BY DEF History
<1>2. ASSUME NEW i \in 1 .. Len(t \o r), ~(i <= Len(t))
      PROVE  \E n \in 1 .. Len(r) : i = Len(t) + n
  <2>1. i - Len(t) \in 1 .. Len(r) /\ i = Len(t) + (i - Len(t))  BY <1>1, <1>2
  <2> QED  BY <2>1
<1> QED  BY <1>1, <1>2

LEMMA FitRebased ==
    ASSUME Typed, Lineage, git = "fetched", ~MustConflict
    PROVE  Fit(tracking \o Replayed, origin, tracking, provenKnots)
<1> DEFINE g == tracking \o Replayed
           T == Len(tracking)
           C == Common
           R == Len(Replayed)
<1>0. /\ head \in History /\ tracking \in History /\ origin \in History
      /\ Replayed \in History /\ provenKnots \in SUBSET Knots
      /\ Fit(head, origin, tracking, provenKnots)
  BY ReplayedMeans DEF Typed, Lineage
<1>1. /\ g \in History /\ Len(g) = T + R /\ T \in Nat /\ R \in Nat
      /\ \A i \in 1 .. T : g[i] = tracking[i]
      /\ \A n \in 1 .. R : g[T + n] = Replayed[n]
      /\ \A i \in 1 .. Len(g) : i <= T \/ \E n \in 1 .. R : i = T + n
      /\ Range(g) = Range(tracking) \cup Range(Replayed)
  BY <1>0, RebasedMeans, ExtensionsAreLarger
<1>2. PICK place \in [1 .. R -> C + 1 .. Len(head)] :
        /\ \A n \in 1 .. R :
             /\ Replayed[n] = head[place[n]]
             /\ Replayed[n] \in Knots =>
                  \A j \in C + 1 .. T : tracking[j] # Replayed[n]
        /\ \A m, n \in 1 .. R : m < n => place[m] < place[n]
        /\ \A i \in C + 1 .. Len(head) :
             \/ \E n \in 1 .. R : place[n] = i
             \/ head[i] \in Knots /\ head[i] \in Range(tracking)
  BY <1>0, ReplayedMeans
<1>3. /\ C \in 0 .. Len(head) /\ C <= T /\ Len(head) \in Nat
      /\ \A j \in 1 .. C : head[j] = tracking[j]
      /\ \A i \in C + 1 .. Len(head) : ~Agrees(head, tracking, i)
  BY <1>0, CommonMeans DEF History
<1>4. Range(tracking) = {tracking[j] : j \in 1 .. T}
  BY <1>0 DEF Range, History
<1> HIDE DEF g, T, C, R
<1>5. \A i \in C + 1 .. Len(head) : GoodAt(head, i, provenKnots)
  BY <1>0, <1>3 DEF Fit
<1>6. \A i \in 1 .. T : Agrees(g, tracking, i)
  BY <1>1, <1>3 DEF Agrees, T
<1>7. Reworks(origin) \subseteq Reworks(tracking)
  <2> SUFFICES ASSUME NEW k \in Knots, Rework(k) \in Range(origin)
               PROVE  Rework(k) \in Range(tracking)
    BY DEF Reworks
  <2>1. Agrees(tracking, origin, T)
    BY <1>0, HistoryPrefixMeans DEF Lineage, T
  <2>2. Rework(k) \notin Foreign  BY ReworkAssumption
  <2>3. PICK j \in 1 .. Len(origin) : origin[j] = Rework(k)
    BY <1>0 DEF Range, History
  <2>4. ~(j \in T + 1 .. Len(origin))
    BY <2>2, <2>3 DEF Lineage, T
  <2>5. j \in 1 .. T  BY <1>0, <1>1, <2>1, <2>3, <2>4 DEF Agrees, History
  <2> QED  BY <1>4, <2>1, <2>3, <2>5 DEF Agrees
<1>8. ASSUME NEW n \in 1 .. R, NEW d, Anchors(d, head, place[n] - 1)
      PROVE  Anchors(d, g, T + n - 1)
  <2>1. place[n] \in C + 1 .. Len(head)  BY <1>2
  <2>2. PICK j \in 1 .. place[n] - 1 : d \in Touches(head[j])
    BY <1>8 DEF Anchors
  <2>3. CASE j <= C
    <3>1. j \in 1 .. C  BY <1>3, <2>1, <2>2, <2>3
    <3>2. j \in 1 .. T + n - 1 /\ g[j] = head[j]  BY <1>1, <1>3, <3>1
    <3> QED  BY <2>2, <3>2 DEF Anchors
  <2>4. CASE ~(j <= C)
    <3>1. j \in C + 1 .. Len(head)  BY <1>3, <2>1, <2>2, <2>4
    <3>2. CASE \E m \in 1 .. R : place[m] = j
      <4>1. PICK m \in 1 .. R : place[m] = j  BY <3>2
      <4>2. m < n
        <5>1. place[m] < place[n]  BY <1>3, <2>1, <2>2, <3>1, <4>1
        <5>2. ~(n < m)
          <6>1. n < m => place[n] < place[m]  BY <1>2
          <6> QED  BY <1>3, <2>1, <3>1, <4>1, <5>1, <6>1
        <5>3. n # m  BY <1>3, <2>1, <5>1
        <5> QED  BY <1>1, <5>2, <5>3
      <4>3. T + m \in 1 .. T + n - 1  BY <1>1, <4>2
      <4>4. g[T + m] = head[j]  BY <1>1, <1>2, <4>1
      <4> QED  BY <2>2, <4>3, <4>4 DEF Anchors
    <3>3. CASE head[j] \in Range(tracking)
      <4>1. PICK m \in 1 .. T : tracking[m] = head[j]  BY <1>4, <3>3
      <4>2. m \in 1 .. T + n - 1 /\ g[m] = head[j]  BY <1>1, <4>1
      <4> QED  BY <2>2, <4>2 DEF Anchors
    <3> QED  BY <1>2, <3>1, <3>2, <3>3
  <2> QED  BY <2>3, <2>4
<1>9. ASSUME NEW n \in 1 .. R, NEW k \in Knots, Replayed[n] = k,
             ~Anchors(k, head, place[n] - 1), NEW j \in C + 1 .. T, k \in Touches(tracking[j])
      PROVE  FALSE
  <2> DEFINE q == tracking[j]
             H == Since(head)
  <2>0. place[n] \in C + 1 .. Len(head) /\ head[place[n]] = k  BY <1>2, <1>9
  <2>1. /\ H \in History /\ Len(H) = Len(head) - C
        /\ \A i \in 1 .. Len(H) : H[i] = head[C + i] /\ C + i \in C + 1 .. Len(head)
    <3>1. /\ H \in History /\ Len(H) = Len(head) - C
          /\ \A i \in 1 .. Len(H) : H[i] = head[C + i]
      BY <1>0, <1>3 DEF Since, History, C
    <3> QED  BY <1>3, <3>1
  <2>2. q \in Range(Since(tracking))
    <3>1. /\ Since(tracking) \in History /\ Len(Since(tracking)) = T - C
          /\ \A i \in 1 .. Len(Since(tracking)) : Since(tracking)[i] = tracking[C + i]
      BY <1>0, <1>1, <1>3 DEF Since, History, C, T
    <3>2. j - C \in 1 .. Len(Since(tracking)) /\ C + (j - C) = j  BY <1>1, <1>3, <3>1
    <3>3. Since(tracking)[j - C] = q  BY <3>1, <3>2
    <3> QED  BY <3>1, <3>2, <3>3 DEF Range, History
  <2>3. k \in Range(Replayed) /\ k \in Touches(k)
    <3>1. k \in Touches(k)  BY OwnPatchesTouch DEF OwnPatches
    <3>2. k \in Range(Replayed)  BY <1>0, <1>9 DEF Range, History, R
    <3> QED  BY <3>1, <3>2
  <2>4. ~Present(k, SubSeq(head, 1, C))
    <3>1. /\ SubSeq(head, 1, C) \in History /\ Len(SubSeq(head, 1, C)) = C
          /\ \A i \in 1 .. C : SubSeq(head, 1, C)[i] = head[i] /\ i \in 1 .. place[n] - 1
      <4>1. /\ SubSeq(head, 1, C) \in History /\ Len(SubSeq(head, 1, C)) = C
            /\ \A i \in 1 .. C : SubSeq(head, 1, C)[i] = head[i]
        BY <1>0, <1>3 DEF History
      <4> QED  BY <1>3, <2>0, <4>1
    <3>2. \A i \in 1 .. C : k \notin Touches(head[i])  BY <1>9, <3>1 DEF Anchors
    <3> QED  BY <3>1, <3>2, PresentMeans
  <2>5. q \in Range(H)
    <3> SUFFICES ASSUME q \notin Range(H) PROVE MustConflict
      OBVIOUS
    <3> QED  BY <1>9, <2>2, <2>3, <2>4 DEF MustConflict, C
  <2>6. PICK i \in 1 .. Len(H) : H[i] = q  BY <2>1, <2>5 DEF Range, History
  <2>7. PICK l \in provenKnots : q \in OwnPatches(l)
    BY <1>5, <2>1, <2>6 DEF GoodAt
  <2>8. l = k  BY <1>0, <1>9, <2>7, OwnPatchesTouch
  <2>9. q # k  BY <1>2, <1>9
  <2>10. q = Rework(k)  BY <2>7, <2>8, <2>9 DEF OwnPatches
  <2>11. k \in Reworks(origin)
    <3>1. Rework(k) \in Range(origin)
      <4>1. j \in 1 .. T  BY <1>1, <1>3
      <4>2. q \in Range(tracking)  BY <1>4, <4>1
      <4> QED  BY <1>0, <2>10, <4>2, ExtensionsAreLarger DEF Lineage
    <3> QED  BY <3>1 DEF Reworks
  <2>12. k \in Builds(head)
    <3>1. k \in Range(head)  BY <1>0, <1>3, <2>0 DEF Range, History
    <3> QED  BY <3>1 DEF Builds
  <2>13. k \in Range(origin)  BY <1>0, <2>11, <2>12 DEF Fit, Builds
  <2>14. PICK m \in 1 .. T : tracking[m] = k
    <3>1. PICK m \in 1 .. Len(origin) : origin[m] = k
      BY <1>0, <2>13 DEF Range, History
    <3>2. k \notin Foreign  BY ForeignAssumption
    <3>3. ~(m \in T + 1 .. Len(origin))  BY <3>1, <3>2 DEF Lineage, T
    <3>4. Agrees(tracking, origin, T)
      BY <1>0, HistoryPrefixMeans DEF Lineage, T
    <3>5. m \in 1 .. T  BY <1>0, <1>1, <3>1, <3>3, <3>4 DEF Agrees, History
    <3> QED  BY <3>1, <3>4, <3>5 DEF Agrees
  <2>15. CASE m <= C
    <3>1. m \in 1 .. C /\ head[m] = k  BY <1>1, <1>3, <2>14, <2>15
    <3>2. m \in 1 .. place[n] - 1  BY <1>3, <2>0, <3>1
    <3> QED  BY <1>9, <2>3, <3>1, <3>2 DEF Anchors
  <2>16. CASE ~(m <= C)
    <3>1. m \in C + 1 .. T  BY <1>1, <1>3, <2>14, <2>16
    <3> QED  BY <1>2, <1>9, <2>14, <3>1
  <2> QED  BY <2>15, <2>16
<1>10. ASSUME NEW n \in 1 .. R, NEW k \in Knots, Replayed[n] = k,
              ~Anchors(k, head, place[n] - 1)
       PROVE  ~Anchors(k, g, T + n - 1)
  <2> SUFFICES ASSUME NEW j \in 1 .. T + n - 1, k \in Touches(g[j]) PROVE FALSE
    BY DEF Anchors
  <2>0. place[n] \in C + 1 .. Len(head)  BY <1>2
  <2>1. CASE j <= C
    <3>1. j \in 1 .. C  BY <1>1, <1>3, <2>1
    <3>2. j \in 1 .. place[n] - 1 /\ g[j] = head[j]  BY <1>1, <1>3, <2>0, <3>1
    <3> QED  BY <1>10, <3>2 DEF Anchors
  <2>2. CASE ~(j <= C) /\ j <= T
    <3>1. j \in C + 1 .. T /\ g[j] = tracking[j]  BY <1>1, <1>3, <2>2
    <3> QED  BY <1>9, <1>10, <3>1
  <2>3. CASE ~(j <= T)
    <3>1. j - T \in 1 .. R /\ j - T < n /\ j = T + (j - T)  BY <1>1, <2>3
    <3>2. g[j] = head[place[j - T]] /\ place[j - T] < place[n]  BY <1>1, <1>2, <3>1
    <3>3. place[j - T] \in C + 1 .. Len(head)  BY <1>2, <3>1
    <3>4. place[j - T] \in 1 .. place[n] - 1  BY <1>3, <2>0, <3>2, <3>3
    <3> QED  BY <1>10, <3>2, <3>4 DEF Anchors
  <2> QED  BY <2>1, <2>2, <2>3
<1>11. ASSUME NEW n \in 1 .. R PROVE GoodAt(g, T + n, provenKnots)
  <2>1. place[n] \in C + 1 .. Len(head) /\ g[T + n] = head[place[n]] /\ g[T + n] = Replayed[n]
    BY <1>1, <1>2
  <2>2. PICK k \in provenKnots :
          /\ head[place[n]] \in OwnPatches(k)
          /\ k \in Scripted => \A d \in Deps[k] : Anchors(d, head, place[n] - 1)
          /\ head[place[n]] = k => ~Anchors(k, head, place[n] - 1)
    BY <1>5, <2>1 DEF GoodAt
  <2>3. k \in Scripted => \A d \in Deps[k] : Anchors(d, g, T + n - 1)
    BY <1>8, <2>2
  <2>4. g[T + n] = k => ~Anchors(k, g, T + n - 1)
    BY <1>0, <1>10, <2>1, <2>2
  <2>5. T + n - 1 = (T + n) - 1  BY <1>1
  <2> QED  BY <2>1, <2>2, <2>3, <2>4, <2>5 DEF GoodAt
<1>12. \A i \in 1 .. Len(g) : Agrees(g, tracking, i) \/ GoodAt(g, i, provenKnots)
  <2> SUFFICES ASSUME NEW i \in 1 .. Len(g)
               PROVE  Agrees(g, tracking, i) \/ GoodAt(g, i, provenKnots)
    OBVIOUS
  <2>1. CASE i <= T
    <3>1. i \in 1 .. T  BY <1>1, <2>1
    <3> QED  BY <1>6, <3>1
  <2>2. CASE ~(i <= T)
    <3>1. PICK n \in 1 .. R : i = T + n  BY <1>1, <2>2
    <3> QED  BY <1>11, <3>1
  <2> QED  BY <2>1, <2>2
<1>13. Reworks(origin) \subseteq Reworks(g)
  BY <1>1, <1>7 DEF Reworks
<1>14. ASSUME NEW k \in Reworks(origin) \cap Builds(g) PROVE k \in Builds(origin)
  <2>1. CASE k \in Range(tracking)
    <3>1. k \in Range(origin)  BY <1>0, <2>1, ExtensionsAreLarger DEF Lineage
    <3> QED  BY <1>14, <3>1 DEF Builds
  <2>2. CASE k \in Range(Replayed)
    <3>1. PICK n \in 1 .. R : Replayed[n] = k  BY <1>0, <2>2 DEF Range, History, R
    <3>2. head[place[n]] = k /\ place[n] \in 1 .. Len(head)  BY <1>2, <1>3, <3>1
    <3>3. k \in Range(head)  BY <1>0, <3>2 DEF Range, History
    <3> QED  BY <1>0, <1>14, <3>3 DEF Fit, Builds
  <2> QED  BY <1>1, <1>14, <2>1, <2>2 DEF Builds
<1> QED  BY <1>12, <1>13, <1>14 DEF Fit, g

LEMMA FinalizeLineage ==
    ASSUME Working, Lineage, FinalizeKnot
    PROVE  Lineage'
<1> USE DEF Working
<1> DEFINE P == provenKnots
<1>0. /\ head \in History /\ tracking \in History /\ origin \in History
      /\ P \in SUBSET Knots
      /\ Recoverable => checkpoint \in History
  BY DEF Typed, Recoverable
<1>1. /\ UNCHANGED <<mode, mission, checkpoint, provenKnots>>
      /\ stage = "FINALIZE" /\ Weaving /\ mission \in Knots /\ head' \in History
      /\ (Recoverable' <=> Recoverable)
  BY FinalizeMeans DEF daemonVars, runVars, historyVars, Recoverable
<1>2. CASE Commit
  <2>1. /\ head' = Append(head, pending) /\ git' = "committed"
        /\ UNCHANGED <<attached, origin, tracking>>
    BY <1>2 DEF Commit
  <2>2. /\ Addable(pending, mission, head) /\ mission \in P /\ pending \in Patches
        /\ (mode = "weaving" => pending = mission)
    BY <1>1, <1>2, CommitMeans
  <2>3. attached => Fit(head', origin, tracking, P)
    BY <1>0, <2>1, <2>2, FitAppended DEF Lineage
  <2>4. Range(head') = Range(head) \cup {pending}
    BY <1>0, <2>1, <2>2, ExtensionsAreLarger
  <2>5. Recoverable => Reworks(head') \subseteq Reworks(head)
    <3>1. mode = "weaving" => \A k \in Knots : Rework(k) # pending
      BY <1>1, <2>2, ReworkAssumption
    <3> QED  BY <2>4, <3>1 DEF Reworks, Recoverable
  <2>6. Builds(head) \subseteq Builds(head')  BY <2>4 DEF Builds
  <2>7. attached /\ Recoverable =>
          /\ Fit(checkpoint, origin, tracking, P)
          /\ Reworks(head') \subseteq Reworks(checkpoint)
          /\ Builds(checkpoint) \subseteq Builds(head')
    BY <2>5, <2>6 DEF Lineage
  <2> QED  BY <1>1, <2>1, <2>3, <2>7 DEF Lineage
<1>3. CASE Fetch
  <2>1. tracking' = origin /\ git' = "fetched" /\ attached /\ UNCHANGED <<head, attached, origin>>
    BY <1>3 DEF Fetch
  <2>2. IsPrefix(origin, origin) /\ IsPrefix(tracking, origin)
    BY <1>0, PrefixesCompose DEF Lineage
  <2>3. Fit(head, origin, origin, P)
    BY <1>0, <2>1, <2>2, FitGrows DEF Lineage
  <2>4. Recoverable =>
          /\ Fit(checkpoint, origin, origin, P)
          /\ Reworks(head) \subseteq Reworks(checkpoint)
          /\ Builds(checkpoint) \subseteq Builds(head)
    BY <1>0, <2>1, <2>2, FitGrows DEF Lineage
  <2>5. \A i \in Len(origin) + 1 .. Len(origin) : FALSE
    BY <1>0 DEF History
  <2> QED  BY <1>1, <2>1, <2>2, <2>3, <2>4, <2>5 DEF Lineage
<1>4. CASE NoRebaseNeeded
  BY <1>1, <1>4 DEF NoRebaseNeeded, Lineage
<1>5. CASE Rebase
  <2>1. /\ head' = tracking \o Replayed /\ git = "fetched" /\ git' = "ready"
        /\ ~MustConflict /\ UNCHANGED <<attached, origin, tracking>>
    BY <1>5 DEF Rebase
  <2>2. Fit(head', origin, tracking, P)
    BY <1>0, <2>1, FitRebased DEF Typed
  <2>3. Replayed \in History /\ Range(head') = Range(tracking) \cup Range(Replayed)
    BY <1>0, <2>1, ReplayedMeans, ExtensionsAreLarger
  <2>4. Range(head) \subseteq Range(head')
    BY <2>1, RebaseKeeps
  <2>5. Range(Replayed) \subseteq Range(head) /\ Range(tracking) \subseteq Range(origin)
    <3>1. PICK place \in [1 .. Len(Replayed) -> Common + 1 .. Len(head)] :
            \A n \in 1 .. Len(Replayed) : Replayed[n] = head[place[n]]
      BY <1>0, ReplayedMeans
    <3>2. \A n \in 1 .. Len(Replayed) : place[n] \in 1 .. Len(head)
      <4>1. Common \in 0 .. Len(head) /\ Len(head) \in Nat
        BY <1>0, CommonMeans DEF History
      <4>2. \A n \in 1 .. Len(Replayed) : place[n] \in Common + 1 .. Len(head)
        BY <3>1
      <4> QED  BY <4>1, <4>2
    <3>3. /\ Range(Replayed) = {Replayed[n] : n \in 1 .. Len(Replayed)}
          /\ Range(head) = {head[n] : n \in 1 .. Len(head)}
      BY <1>0, <2>3 DEF Range, History
    <3>4. Range(Replayed) \subseteq Range(head)  BY <3>1, <3>2, <3>3
    <3> QED  BY <1>0, <3>4, ExtensionsAreLarger DEF Lineage
  <2>6. Reworks(head') \subseteq Reworks(origin) \cup Reworks(head)
    BY <2>3, <2>5 DEF Reworks
  <2>7. Builds(head) \subseteq Builds(head')  BY <2>4 DEF Builds
  <2>8. attached /\ Recoverable =>
          /\ Fit(checkpoint, origin, tracking, P)
          /\ Reworks(head') \subseteq Reworks(checkpoint)
          /\ Builds(checkpoint) \subseteq Builds(head')
    <3>1. Fit(checkpoint, origin, tracking, P) => Reworks(origin) \subseteq Reworks(checkpoint)
      BY DEF Fit
    <3> QED  BY <2>6, <2>7, <3>1 DEF Lineage
  <2> QED  BY <1>1, <2>1, <2>2, <2>8 DEF Lineage
<1>6. CASE Push \/ PushUnnoticed
  <2>1. /\ git = "ready" /\ git' = "idle" /\ attached /\ IsPrefix(origin, head)
        /\ origin' = head /\ tracking' \in {head, tracking} /\ UNCHANGED <<head, attached>>
    BY <1>6 DEF Push, PushUnnoticed, GitEnds, Lineage
  <2>2. /\ IsPrefix(tracking, head) /\ IsPrefix(head, head) /\ IsPrefix(tracking, tracking)
    BY <1>0, <2>1, PrefixesCompose DEF Lineage
  <2>3. Fit(head, origin, tracking', P)
    BY <1>0, <2>1, <2>2, FitGrows DEF Lineage
  <2>4. Fit(head, head, tracking', P)
    BY <2>3 DEF Fit
  <2>5. Recoverable =>
          /\ Fit(checkpoint, head, tracking', P)
          /\ Reworks(head) \subseteq Reworks(checkpoint)
          /\ Builds(checkpoint) \subseteq Builds(head)
    <3> SUFFICES ASSUME Recoverable
                 PROVE  /\ Fit(checkpoint, head, tracking', P)
                        /\ Reworks(head) \subseteq Reworks(checkpoint)
                        /\ Builds(checkpoint) \subseteq Builds(head)
      OBVIOUS
    <3>1. /\ Fit(checkpoint, origin, tracking, P)
          /\ Reworks(head) \subseteq Reworks(checkpoint)
          /\ Builds(checkpoint) \subseteq Builds(head)
      BY <2>1 DEF Lineage
    <3>2. Fit(checkpoint, origin, tracking', P)
      BY <1>0, <2>1, <2>2, <3>1, FitGrows
    <3> QED  BY <3>1, <3>2 DEF Fit
  <2>6. IsPrefix(tracking', head)  BY <2>1, <2>2
  <2> QED  BY <1>1, <2>1, <2>4, <2>5, <2>6 DEF Lineage
<1>7. CASE NothingToFinalize \/ CommitFails \/ FetchFails \/ PushRejected
  <2>1. git' = "idle" /\ UNCHANGED <<head, attached, origin, tracking>>
    BY <1>7 DEF NothingToFinalize, CommitFails, FetchFails, PushRejected, GitEnds,
       repositoryVars
  <2> QED  BY <1>1, <2>1 DEF Lineage
<1>8. CASE RebaseFails
  <2>1. /\ git' = "idle" /\ UNCHANGED <<origin, tracking>>
        /\ UNCHANGED <<head, attached>> \/ attached' = FALSE
    BY <1>8 DEF RebaseFails, GitEnds, StoppedRebase
  <2> QED  BY <1>1, <2>1 DEF Lineage
<1> QED
  BY <1>2, <1>3, <1>4, <1>5, <1>6, <1>7, <1>8 DEF FinalizeKnot

LEMMA LineageHolds ==
    ASSUME Working, Lineage, [Next]_vars
    PROVE  Lineage'
<1> USE DEF Working
<1>0. /\ head \in History /\ tracking \in History /\ origin \in History
      /\ provenKnots \in SUBSET Knots
      /\ Recoverable => checkpoint \in History
  BY DEF Typed, Recoverable
<1>1. CASE Deciding
  <2>1. UNCHANGED <<repositoryVars, provenKnots>>
        /\ (Recoverable' => checkpoint' = head)
    BY <1>1, DecidingMeans DEF Recoverable
  <2>2. UNCHANGED <<head, attached, origin, tracking, git>>
    BY <2>1 DEF repositoryVars
  <2> QED  BY <2>1, <2>2 DEF Lineage
<1>2. CASE Judging
  <2>1. /\ UNCHANGED <<head, attached, origin, tracking, git, checkpoint, mode>>
        /\ provenKnots \subseteq provenKnots'
    BY <1>2, JudgingMeans DEF repositoryVars, runVars
  <2>2. IsPrefix(tracking, tracking)  BY <1>0, PrefixesCompose
  <2>3. attached => Fit(head, origin, tracking, provenKnots')
    BY <1>0, <2>1, <2>2, FitGrows DEF Lineage
  <2>4. attached /\ Recoverable => Fit(checkpoint, origin, tracking, provenKnots')
    BY <1>0, <2>1, <2>2, FitGrows DEF Lineage
  <2> QED  BY <2>1, <2>3, <2>4 DEF Lineage, Recoverable
<1>3. CASE GenerateKnot
  <2>1. UNCHANGED <<head, attached, origin, tracking, git, checkpoint, mode, provenKnots>>
    BY <1>3, GenerateMeans DEF daemonVars, runVars, historyVars
  <2> QED  BY <2>1 DEF Lineage, Recoverable
<1>4. CASE FinalizeKnot
  BY <1>4, FinalizeLineage
<1>5. CASE Reweave \/ RecoveryBlocked
  <2>1. /\ UNCHANGED <<attached, origin, tracking, git, provenKnots>>
        /\ ~Recoverable' /\ (head' = head \/ (Recoverable /\ head' = checkpoint))
    BY <1>5, RecoveryMeans DEF Recoverable, historyVars
  <2> QED  BY <2>1 DEF Lineage
<1>6. CASE Crash
  <2>1. /\ UNCHANGED <<origin, tracking, provenKnots>> /\ git' = "idle"
        /\ ~Recoverable' /\ (UNCHANGED <<head, attached>> \/ attached' = FALSE)
    BY <1>6, CrashMeans DEF Recoverable, historyVars
  <2> QED  BY <2>1 DEF Lineage
<1>7. CASE SomebodyPushes
  <2>1. /\ UNCHANGED <<head, attached, tracking, git, checkpoint, mode, provenKnots>>
    BY <1>7, PushMeans DEF daemonVars, runVars, historyVars
  <2>2. PICK f \in Foreign : f \in Patches /\ origin' = Append(origin, f)
    BY <1>7, PushMeans
  <2>3. Range(origin') = Range(origin) \cup {f} /\ IsPrefix(tracking, origin')
    BY <1>0, <2>2, ExtensionsAreLarger, PrefixesCompose DEF Lineage
  <2>4. Reworks(origin') = Reworks(origin) /\ Builds(origin) \subseteq Builds(origin')
    BY <2>2, <2>3, ReworkAssumption DEF Reworks, Builds
  <2>5. ASSUME git = "fetched", NEW i \in Len(tracking) + 1 .. Len(origin')
        PROVE  origin'[i] \in Foreign
    <3>1. /\ Len(origin) \in Nat /\ Len(tracking) \in Nat /\ Len(origin') = Len(origin) + 1
          /\ \A j \in 1 .. Len(origin) : origin'[j] = origin[j]
          /\ origin'[Len(origin) + 1] = f
      BY <1>0, <2>2 DEF History
    <3>2. CASE i = Len(origin) + 1
      BY <3>1, <3>2
    <3>3. CASE i # Len(origin) + 1
      <4>1. i \in Len(tracking) + 1 .. Len(origin) /\ i \in 1 .. Len(origin)
        BY <2>5, <3>1, <3>3
      <4> QED  BY <2>5, <3>1, <4>1 DEF Lineage
    <3> QED  BY <3>2, <3>3
  <2>6. \A h : Fit(h, origin, tracking, provenKnots) => Fit(h, origin', tracking, provenKnots)
    BY <2>4 DEF Fit
  <2> QED  BY <2>1, <2>3, <2>5, <2>6 DEF Lineage, Recoverable
<1>8. CASE UNCHANGED vars
  BY <1>8 DEF vars, repositoryVars, runVars, historyVars, Lineage, Recoverable
<1> QED  BY <1>1, <1>2, <1>3, <1>4, <1>5, <1>6, <1>7, <1>8, StepsAreThese

LEMMA AlwaysLineage == Spec => []Lineage
<1>1. Init => Lineage
  <2> SUFFICES ASSUME Init PROVE Lineage
    OBVIOUS
  <2>1. head = <<>> /\ origin = <<>> /\ tracking = <<>> /\ git = "idle" /\ mode = "off"
    BY DEF Init, RepositoryInit
  <2>2. <<>> \in History /\ Len(<<>>) = 0 /\ Range(<<>>) = {}
    BY DEF History, Range
  <2>3. IsPrefix(<<>>, <<>>)  BY <2>2, PrefixesCompose
  <2>4. Fit(<<>>, <<>>, <<>>, provenKnots)
    BY <2>2 DEF Fit, Reworks, Builds
  <2> QED  BY <2>1, <2>3, <2>4 DEF Lineage, Recoverable
<1> QED  BY <1>1, LineageHolds, AlwaysWorking, PTL DEF Spec

(* A HEAD that is pushed adds what the abstract history allows.            *)
LEMMA PushPublishes ==
    ASSUME Typed, Lineage, git = "ready", IsPrefix(origin, head), origin' = head,
           provenKnots' = provenKnots
    PROVE  [Published!Next]_<<origin, provenKnots>>
<1> SUFFICES ASSUME origin # head PROVE Published!Publish
  BY DEF Published!Next
<1>0. /\ head \in History /\ origin \in History /\ tracking \in History
      /\ provenKnots \in SUBSET Knots /\ attached
      /\ Fit(head, origin, tracking, provenKnots)
  BY DEF Typed, Lineage
<1>1. Published!IsStrictPrefix(origin, origin')
  BY DEF IsPrefix, Published!IsPrefix, Published!IsStrictPrefix
<1>2. Len(tracking) <= Len(origin) /\ Len(tracking) \in Nat /\ Len(origin) \in Nat
      /\ Len(head) \in Nat
  BY <1>0, HistoryPrefixMeans DEF Lineage, Agrees
<1>3. ASSUME NEW i \in Len(origin) + 1 .. Len(origin')
      PROVE  /\ origin'[i] \notin Foreign
             /\ \A k \in Touches(origin'[i]) :
                   /\ k \in provenKnots
                   /\ k \in Scripted =>
                        \A d \in Deps[k] : Published!Anchored(d, Published!Before(i))
             /\ origin'[i] \in Knots => ~Published!Anchored(origin'[i], Published!Before(i))
  <2>1. i \in 1 .. Len(head) /\ ~Agrees(head, tracking, i)
    BY <1>2 DEF Agrees
  <2>2. PICK k \in provenKnots :
          /\ head[i] \in OwnPatches(k)
          /\ k \in Scripted => \A d \in Deps[k] : Anchors(d, head, i - 1)
          /\ head[i] = k => ~Anchors(k, head, i - 1)
    BY <1>0, <2>1 DEF Fit, GoodAt
  <2>3. /\ head[i] \notin Foreign /\ Touches(head[i]) = {k}
        /\ head[i] \in Knots => head[i] = k
    BY <1>0, <2>2, OwnPatchesTouch
  <2>4. \A d : Published!Anchored(d, Published!Before(i)) <=> Anchors(d, head, i - 1)
    <3> DEFINE b == SubSeq(head, 1, i - 1)
    <3>1. b \in History /\ Len(b) = i - 1 /\ \A j \in 1 .. i - 1 : b[j] = head[j]
      BY <1>0, <1>2, <2>1 DEF History
    <3>2. Published!Before(i) = b  BY DEF Published!Before
    <3> HIDE DEF b
    <3>3. Published!Range(b) = {b[j] : j \in 1 .. i - 1}
      BY <3>1 DEF Published!Range, History
    <3>4. \A d : Published!Anchored(d, b) <=> Anchors(d, head, i - 1)
      BY <3>1, <3>3 DEF Published!Anchored, Anchors
    <3> QED  BY <3>2, <3>4
  <2> QED  BY <2>2, <2>3, <2>4
<1> QED  BY <1>1, <1>3 DEF Published!Publish

(* The shared branch only grows, and the daemon adds to it only proven     *)
(* knots, each where nobody has, the ordered ones after what they rest on. *)
THEOREM PublishedHistoryIsProven == Spec => PublishesProvenHistory
<1>1. Init => Published!Init
  BY DEF Init, RepositoryInit, Published!Init
<1>2. Working /\ Lineage /\ [Next]_vars => [Published!Next]_<<origin, provenKnots>>
  <2> SUFFICES ASSUME Working, Lineage, [Next]_vars
               PROVE  [Published!Next]_<<origin, provenKnots>>
    OBVIOUS
  <2> USE DEF Working
  <2>1. CASE VerifyKnot
    <3>1. origin' = origin /\ mission \in Knots
          /\ (provenKnots' = provenKnots \/ provenKnots' = provenKnots \cup {mission})
      BY <2>1, JudgingMeans DEF Judging, repositoryVars
    <3> QED  BY <3>1 DEF Published!Next, Published!Prove
  <2>2. CASE SomebodyPushes
    <3>1. provenKnots' = provenKnots /\ \E f \in Foreign : origin' = Append(origin, f)
      BY <2>2, PushMeans DEF daemonVars, historyVars
    <3> QED  BY <3>1 DEF Published!Next, Published!PublishForeign
  <2>3. CASE FinalizeKnot /\ origin' # origin
    <3>1. Push \/ PushUnnoticed
      BY <2>3 DEF FinalizeKnot, Commit, Fetch, NoRebaseNeeded, Rebase, NothingToFinalize,
         CommitFails, FetchFails, RebaseFails, PushRejected, repositoryVars
    <3>2. git = "ready" /\ IsPrefix(origin, head) /\ origin' = head
      BY <3>1 DEF Push, PushUnnoticed
    <3>3. provenKnots' = provenKnots
      BY <2>3, FinalizeMeans DEF daemonVars, historyVars
    <3> QED  BY <3>2, <3>3, PushPublishes
  <2>4. CASE FinalizeKnot /\ origin' = origin
    BY <2>4, FinalizeMeans DEF daemonVars, historyVars
  <2>5. CASE Deciding \/ PrepareBuild \/ RepairKnot \/ GenerateKnot
    <3>1. CASE Deciding  BY <3>1, DecidingMeans DEF repositoryVars
    <3>2. CASE PrepareBuild \/ RepairKnot
      <4>1. origin' = origin  BY <3>2, JudgingMeans DEF Judging, repositoryVars
      <4>2. provenKnots' = provenKnots
        BY <3>2 DEF PrepareBuild, RepairKnot, daemonVars, historyVars
      <4> QED  BY <4>1, <4>2
    <3>3. CASE GenerateKnot  BY <3>3, GenerateMeans DEF daemonVars, historyVars
    <3> QED  BY <2>5, <3>1, <3>2, <3>3
  <2>6. CASE Reweave \/ RecoveryBlocked \/ Crash
    BY <2>6, RecoveryMeans, CrashMeans DEF historyVars
  <2>7. CASE UNCHANGED vars
    BY <2>7 DEF vars, repositoryVars, historyVars
  <2> QED  BY <2>1, <2>2, <2>3, <2>4, <2>5, <2>6, <2>7, StepsAreThese DEF Judging
<1> QED
  BY <1>1, <1>2, AlwaysWorking, AlwaysLineage, PTL
     DEF Spec, PublishesProvenHistory, Published!Spec

-----------------------------------------------------------------------------
(* What a run may still do: a number that every step of the daemon uses up *)
(* a part of.  A build has at most its stages, the steps of FINALIZE apart, *)
(* and two calls per repair; a cycle has at most two builds.               *)
FinalizeLeft ==
    CASE git = "idle" -> 4 [] git = "committed" -> 3 [] git = "fetched" -> 2
      [] git = "ready" -> 1

RepairsLeft == 2 * (MaxRepairAttempts - attempt)

BuildLeft ==
    CASE stage = "ARCHITECTURE" -> RepairsLeft + 8
      [] stage = "PLAN" -> RepairsLeft + 7
      [] stage \in {"GENERATE", "REPAIR"} -> RepairsLeft + 6
      [] stage = "VERIFY" -> RepairsLeft + 5
      [] stage = "FINALIZE" -> FinalizeLeft
      [] OTHER -> 0

WholeBuild == 2 * MaxRepairAttempts + 8
WholeCycle == 2 * WholeBuild + 3

CycleLeft ==
    CASE mode = "deciding" -> WholeCycle
      [] mode = "weaving" -> BuildLeft + WholeBuild + 2
      [] mode = "reweaving" -> BuildLeft + 1

StepsLeft ==
    IF mode = "off" THEN 0 ELSE (MaxCycles - cycle) * WholeCycle + CycleLeft

StepsFit == StepsLeft \in 0 .. MaxCycles * WholeCycle

(* Every step of the daemon brings the end of its run nearer, and nothing  *)
(* that others do takes it away again.                                     *)
RunsShrink ==
    [][(DaemonStep => StepsLeft' < StepsLeft)
       /\ (StepsLeft' > StepsLeft => StartRun)]_vars

Counted ==
    /\ attempt \in 0 .. MaxRepairAttempts
    /\ mode # "off" => cycle \in 1 .. MaxCycles

LEMMA BuildLeftMeans ==
    ASSUME Typed, Counted
    PROVE  BuildLeft \in 0 .. WholeBuild
<1>1. RepairsLeft \in 0 .. 2 * MaxRepairAttempts
    BY MaxRepairAssumption DEF RepairsLeft, Counted
<1>2. FinalizeLeft \in 1 .. 4
    BY DEF FinalizeLeft, Typed
<1> QED
    BY <1>1, <1>2, MaxRepairAssumption DEF BuildLeft, WholeBuild

LEMMA BuildLeftMeansNext == Typed' /\ Counted' => BuildLeft' \in 0 .. WholeBuild
<1>1. Typed /\ Counted => BuildLeft \in 0 .. WholeBuild
    BY BuildLeftMeans
<1>2. Typed' /\ Counted' => (BuildLeft \in 0 .. WholeBuild)'
    BY <1>1, PTL
<1> QED
    BY <1>2 DEF WholeBuild

(* A call of the engine uses up a part of the build.                       *)
LEMMA RepairOrBlockShrinks ==
    ASSUME Typed, Counted, stage \in {"VERIFY", "REPAIR"}, RepairOrBlock(attempt)
    PROVE  /\ BuildLeft' < BuildLeft
           /\ attempt' \in 0 .. MaxRepairAttempts
<1>1. attempt \in Nat /\ attempt <= MaxRepairAttempts /\ MaxRepairAttempts \in Nat
    BY MaxRepairAssumption DEF Counted
<1>2. CASE attempt < MaxRepairAttempts /\ attempt' = attempt + 1 /\ Call("REPAIR")
    BY <1>1, <1>2 DEF Call, BuildLeft, RepairsLeft
<1>3. CASE Finish(Blocked("VERIFY", attempt)) /\ UNCHANGED attempt
    BY <1>1, <1>3 DEF Finish, BuildLeft, RepairsLeft
<1> QED
    BY <1>2, <1>3 DEF RepairOrBlock

Calling == Judging \/ GenerateKnot \/ FinalizeKnot

LEMMA CallsShrink ==
    ASSUME Typed, Phases, Counted, Calling
    PROVE  /\ BuildLeft' < BuildLeft
           /\ attempt' \in 0 .. MaxRepairAttempts
           /\ Weaving /\ UNCHANGED <<mode, cycle>>
<1>0. /\ attempt \in Nat /\ attempt <= MaxRepairAttempts /\ MaxRepairAttempts \in Nat
      /\ RepairsLeft \in Nat
      /\ Weaving /\ UNCHANGED <<mode, cycle>>
  <2>1. attempt \in Nat /\ attempt <= MaxRepairAttempts /\ MaxRepairAttempts \in Nat
      BY MaxRepairAssumption DEF Counted
  <2>2. Weaving /\ UNCHANGED <<mode, cycle>>
      BY DEF Calling, Judging, PrepareBuild, VerifyKnot, RepairKnot, GenerateKnot, FinalizeKnot,
             daemonVars, runVars
  <2> QED
      BY <2>1, <2>2 DEF RepairsLeft
<1>1. CASE PrepareBuild
  <2>1. /\ UNCHANGED attempt
        /\ \/ stage = "ARCHITECTURE" /\ stage' \in {"PLAN", "done"}
           \/ stage = "PLAN" /\ stage' \in {"GENERATE", "done"}
      BY <1>1 DEF PrepareBuild, RunArchitecture, RunPlan, Prepare, Call, Finish
  <2> QED
      BY <1>0, <2>1 DEF BuildLeft, RepairsLeft
<1>2. CASE VerifyKnot
  <2>1. PICK answer : Verify(answer)
      BY <1>2 DEF VerifyKnot
  <2>2. CASE RepairOrBlock(attempt)
      BY <1>0, <2>1, <2>2, RepairOrBlockShrinks DEF Verify
  <2>3. CASE Call("FINALIZE") /\ UNCHANGED attempt
    <3>1. git' \in {"idle", "committed", "fetched", "ready"}
        BY <1>2 DEF VerifyKnot, repositoryVars, Typed
    <3>2. FinalizeLeft' \in 1 .. 4
        BY <3>1 DEF FinalizeLeft
    <3>3. BuildLeft' = FinalizeLeft' /\ BuildLeft = RepairsLeft + 5
        BY <2>1, <2>3 DEF Verify, Call, BuildLeft
    <3> QED
        BY <1>0, <2>3, <3>2, <3>3
  <2> QED
      BY <1>0, <2>1, <2>2, <2>3 DEF Verify
<1>3. CASE RepairKnot
  <2>1. PICK answer : Repair(answer)
      BY <1>3 DEF RepairKnot
  <2>2. CASE RepairOrBlock(attempt)
      BY <1>0, <2>1, <2>2, RepairOrBlockShrinks DEF Repair
  <2>3. CASE Call("VERIFY") /\ UNCHANGED attempt
      BY <1>0, <2>1, <2>3 DEF Repair, Call, BuildLeft, RepairsLeft
  <2> QED
      BY <1>0, <2>1, <2>2, <2>3 DEF Repair
<1>4. CASE GenerateKnot
  <2>1. stage = "GENERATE" /\ stage' \in {"VERIFY", "done"} /\ UNCHANGED attempt
      BY <1>4 DEF GenerateKnot, Generate, Call, Finish
  <2> QED
      BY <1>0, <2>1 DEF BuildLeft, RepairsLeft
<1>5. CASE FinalizeKnot
  <2>1. stage = "FINALIZE" /\ UNCHANGED attempt
      BY <1>5 DEF FinalizeKnot, Finalize, engineVars
  <2>2. BuildLeft = FinalizeLeft /\ FinalizeLeft \in 1 .. 4
      BY <2>1 DEF BuildLeft, FinalizeLeft, Typed
  <2>3. CASE stage' = "done"
      BY <1>0, <2>1, <2>2, <2>3 DEF BuildLeft
  <2>4. CASE UNCHANGED engineVars /\ (Commit \/ Fetch \/ NoRebaseNeeded \/ Rebase)
    <3>1. stage' = "FINALIZE"
        BY <2>1, <2>4 DEF engineVars
    <3>2. \/ git = "idle" /\ git' = "committed"
          \/ git = "committed" /\ git' = "fetched"
          \/ git = "fetched" /\ git' = "ready"
        BY <2>4 DEF Commit, Fetch, NoRebaseNeeded, Rebase
    <3>3. FinalizeLeft' < FinalizeLeft
        BY <3>2 DEF FinalizeLeft
    <3> QED
        BY <1>0, <2>1, <2>2, <3>1, <3>3 DEF BuildLeft
  <2> QED
      BY <1>5, <2>3, <2>4 DEF FinalizeKnot, Finalize, Finish
<1> QED
    BY <1>1, <1>2, <1>3, <1>4, <1>5 DEF Calling, Judging

(* The steps between two calls of the engine.                              *)
LEMMA StepsBetween ==
    ASSUME Typed, Counted, DaemonStep, ~Calling
    PROVE  /\ mode # "off"
           /\ \/ mode' = "off"
              \/ /\ mode = "deciding" /\ mode' = "weaving"
                 /\ BuildLeft' = WholeBuild /\ attempt' = 0 /\ UNCHANGED cycle
              \/ /\ mode = "weaving" /\ mode' = "reweaving"
                 /\ BuildLeft' = WholeBuild /\ attempt' = 0 /\ UNCHANGED cycle
              \/ /\ Weaving /\ mode' = "deciding"
                 /\ cycle < MaxCycles /\ cycle' = cycle + 1 /\ UNCHANGED attempt
           /\ attempt' \in {0, attempt}
<1>0. ASSUME Begin("complete")
      PROVE  BuildLeft' = WholeBuild /\ attempt' = 0
    BY <1>0, MaxRepairAssumption DEF Begin, BuildLeft, RepairsLeft, WholeBuild
<1>1. CASE DeadlinePassed \/ AuditCompletion
    BY <1>1 DEF DeadlinePassed, AuditCompletion, EndRun, engineVars
<1>2. CASE BeginCycle \/ BeginGateCycle
  <2>1. mode = "deciding"
      BY <1>2 DEF BeginCycle, BeginGateCycle
  <2>2. \/ EndRun("blocked") /\ UNCHANGED engineVars
        \/ mode' = "weaving" /\ Begin("complete") /\ UNCHANGED cycle
      BY <1>2 DEF BeginCycle, BeginGateCycle, Weave, RefuseToWeave
  <2> QED
      BY <1>0, <2>1, <2>2 DEF EndRun, engineVars
<1>3. CASE Reweave
    BY <1>0, <1>3 DEF Reweave
<1>4. CASE RecoveryBlocked \/ ReweaveBlocked \/ KnotBlocked
    BY <1>4 DEF RecoveryBlocked, ReweaveBlocked, KnotBlocked, KnotChecked, EndRun, engineVars
<1>5. CASE Advance
    BY <1>5 DEF Advance, KnotChecked, Weaving, engineVars
<1> QED
    BY <1>1, <1>2, <1>3, <1>4, <1>5 DEF DaemonStep, Calling, Judging

LEMMA StepsLeftMeans ==
    ASSUME Typed, Counted
    PROVE  /\ StepsLeft \in Nat
           /\ mode # "off" => CycleLeft \in 1 .. WholeCycle
           /\ StepsFit
<1>1. WholeBuild \in Nat /\ WholeCycle = 2 * WholeBuild + 3 /\ WholeCycle \in Nat
    BY MaxRepairAssumption DEF WholeBuild, WholeCycle
<1>2. mode # "off" => CycleLeft \in 1 .. WholeCycle
    BY <1>1, BuildLeftMeans DEF CycleLeft, Typed
<1>3. \A m, c, w, x \in Nat : c >= 1 /\ c <= m /\ x <= w =>
          (m - c) * w + x \in Nat /\ (m - c) * w + x <= m * w
  <2> SUFFICES ASSUME NEW m \in Nat, NEW c \in Nat, NEW w \in Nat, NEW x \in Nat,
                      c >= 1, c <= m, x <= w
               PROVE  (m - c) * w + x \in Nat /\ (m - c) * w + x <= m * w
      OBVIOUS
  <2>1. PICK d \in Nat : c = d + 1
      <3>1. c - 1 \in Nat /\ c = (c - 1) + 1
          OBVIOUS
      <3> QED  BY <3>1
  <2>2. PICK e \in Nat : m = e + c
      <3>1. m - c \in Nat /\ m = (m - c) + c
          OBVIOUS
      <3> QED  BY <3>1
  <2>3. e * w \in Nat /\ d * w \in Nat
      OBVIOUS
  <2>4. m * w = e * w + d * w + w
      BY <2>1, <2>2
  <2>5. m - c = e
      BY <2>2
  <2> QED
      BY <2>3, <2>4, <2>5
<1>4. MaxCycles * WholeCycle \in Nat
    BY <1>1, BoundsAssumption
<1> HIDE DEF WholeCycle, CycleLeft
<1>5. CASE mode = "off"
    BY <1>2, <1>4, <1>5 DEF StepsLeft, StepsFit
<1>6. CASE mode # "off"
  <2>1. cycle \in Nat /\ cycle >= 1 /\ cycle <= MaxCycles /\ MaxCycles \in Nat
      BY <1>6, BoundsAssumption DEF Counted
  <2>2. CycleLeft \in Nat /\ CycleLeft <= WholeCycle
      BY <1>1, <1>2, <1>6
  <2>3. StepsLeft \in Nat /\ StepsLeft <= MaxCycles * WholeCycle
      BY <1>1, <1>3, <1>6, <2>1, <2>2 DEF StepsLeft
  <2> QED
      BY <1>2, <1>4, <2>3 DEF StepsFit
<1> QED
    BY <1>5, <1>6

LEMMA DaemonStepsShrink ==
    ASSUME Typed, Phases, Counted, DaemonStep, Typed'
    PROVE  StepsLeft' < StepsLeft /\ StepsLeft \in Nat /\ StepsLeft' \in Nat /\ Counted'
<1>1. WholeBuild \in Nat /\ WholeCycle \in Nat /\ WholeCycle = 2 * WholeBuild + 3
    BY MaxRepairAssumption DEF WholeBuild, WholeCycle
<1>2. BuildLeft \in 0 .. WholeBuild
    BY BuildLeftMeans
<1>3. CASE Calling
  <2>1. /\ BuildLeft' < BuildLeft /\ Counted' /\ Weaving
        /\ UNCHANGED <<mode, cycle>>
      BY <1>3, CallsShrink DEF Counted
  <2>2. BuildLeft' \in 0 .. WholeBuild
      BY <2>1, BuildLeftMeansNext
  <2>3. CycleLeft' < CycleLeft /\ CycleLeft' \in Nat /\ CycleLeft \in Nat
      BY <1>1, <1>2, <2>1, <2>2 DEF CycleLeft, Weaving
  <2>4. (MaxCycles - cycle) * WholeCycle \in Nat
      <3>1. MaxCycles - cycle \in Nat
          BY <2>1, BoundsAssumption DEF Counted, Weaving
      <3> QED  BY <1>1, <3>1
  <2>5. /\ StepsLeft = (MaxCycles - cycle) * WholeCycle + CycleLeft
        /\ StepsLeft' = (MaxCycles - cycle) * WholeCycle + CycleLeft'
      <3> WholeCycle' = WholeCycle
          BY DEF WholeCycle, WholeBuild
      <3> QED
          BY <2>1 DEF StepsLeft, Weaving
  <2> HIDE DEF CycleLeft, WholeCycle, StepsLeft
  <2> QED
      BY <2>1, <2>3, <2>4, <2>5
<1>4. CASE ~Calling
  <2>1. mode # "off" /\ CycleLeft \in 1 .. WholeCycle /\ StepsLeft \in Nat
      BY <1>4, StepsBetween, StepsLeftMeans
  <2>2. cycle \in Nat /\ cycle >= 1 /\ cycle <= MaxCycles /\ MaxCycles \in Nat
      BY <2>1, BoundsAssumption DEF Counted
  <2>3. PICK r \in Nat : r = MaxCycles - cycle
      BY <2>2
  <2>4. r * WholeCycle \in Nat /\ StepsLeft = r * WholeCycle + CycleLeft
      BY <1>1, <2>1, <2>3 DEF StepsLeft
  <2>5. attempt' \in 0 .. MaxRepairAttempts
      BY <1>4, StepsBetween, MaxRepairAssumption DEF Counted
  <2>6. WholeCycle' = WholeCycle /\ WholeBuild' = WholeBuild
      BY DEF WholeCycle, WholeBuild
  <2>7. CASE mode' = "off"
      BY <2>1, <2>4, <2>5, <2>7 DEF StepsLeft, Counted
  <2>8. CASE /\ \/ mode = "deciding" /\ mode' = "weaving"
                \/ mode = "weaving" /\ mode' = "reweaving"
             /\ BuildLeft' = WholeBuild /\ UNCHANGED cycle
    <3>1. CycleLeft' < CycleLeft /\ CycleLeft' \in Nat
        BY <1>1, <1>2, <2>6, <2>8 DEF CycleLeft
    <3>2. StepsLeft' = r * WholeCycle + CycleLeft'
        BY <2>3, <2>6, <2>8 DEF StepsLeft
    <3>3. Counted'
        BY <2>2, <2>5, <2>8 DEF Counted
    <3> HIDE DEF CycleLeft, WholeCycle, StepsLeft
    <3> QED
        BY <2>1, <2>4, <3>1, <3>2, <3>3
  <2>9. CASE /\ Weaving /\ mode' = "deciding"
             /\ cycle < MaxCycles /\ cycle' = cycle + 1
    <3>1. PICK q \in Nat : r = q + 1 /\ MaxCycles - cycle' = q
      <4>1. r - 1 \in Nat /\ r = (r - 1) + 1 /\ MaxCycles - cycle' = r - 1
          BY <2>2, <2>3, <2>9
      <4> QED  BY <4>1
    <3>2. StepsLeft' = q * WholeCycle + WholeCycle
        BY <2>6, <2>9, <3>1 DEF StepsLeft, CycleLeft
    <3>3. r * WholeCycle = q * WholeCycle + WholeCycle /\ q * WholeCycle \in Nat
        BY <1>1, <3>1
    <3>4. Counted'
        BY <2>2, <2>5, <2>9 DEF Counted
    <3> HIDE DEF CycleLeft, WholeCycle, StepsLeft
    <3> QED
        BY <2>1, <2>4, <3>2, <3>3, <3>4
  <2> QED
      BY <1>4, <2>7, <2>8, <2>9, StepsBetween
<1> QED
    BY <1>3, <1>4

LEMMA OthersAddNothing ==
    ASSUME Typed, Counted, StartRun \/ Crash \/ SomebodyPushes \/ UNCHANGED vars
    PROVE  Counted' /\ (StepsLeft' > StepsLeft => StartRun)
<1>1. CASE StartRun
    BY <1>1, BoundsAssumption DEF StartRun, Counted, engineVars
<1>2. CASE Crash
  <2>1. mode' = "off" /\ attempt' = 0
      BY <1>2 DEF Crash, EndRun
  <2>2. StepsLeft' = 0 /\ Counted'
      BY <2>1, MaxRepairAssumption DEF StepsLeft, Counted
  <2>3. StepsLeft \in Nat
      BY StepsLeftMeans
  <2> QED
      BY <2>2, <2>3
<1>3. CASE SomebodyPushes \/ UNCHANGED vars
  <2>1. UNCHANGED <<stage, attempt, git, mode, cycle>>
      BY <1>3, PushMeans DEF vars, engineVars, repositoryVars, daemonVars, runVars
  <2>2. Counted' /\ BuildLeft' = BuildLeft
      BY <2>1 DEF Counted, BuildLeft, FinalizeLeft, RepairsLeft
  <2>3. StepsLeft' = StepsLeft
      BY <2>1, <2>2 DEF StepsLeft, CycleLeft, WholeCycle, WholeBuild
  <2>4. StepsLeft \in Nat
      BY StepsLeftMeans
  <2> QED
      BY <2>2, <2>3, <2>4
<1> QED
    BY <1>1, <1>2, <1>3

(* A run is never longer than its cycles allow, whatever the tools answer, *)
(* git does and others push: it has a number of steps left that none of    *)
(* them can raise, and each step of the daemon uses some of it up.         *)
THEOREM RunsAreBounded == Spec => []StepsFit /\ RunsShrink
<1>1. Init => Counted
    BY MaxRepairAssumption DEF Init, EngineInit, Counted
<1>2. Working /\ Working' /\ Counted /\ [Next]_vars =>
          /\ Counted'
          /\ [(DaemonStep => StepsLeft' < StepsLeft)
              /\ (StepsLeft' > StepsLeft => StartRun)]_vars
  <2> SUFFICES ASSUME Working, Working', Counted, [Next]_vars
               PROVE  /\ Counted'
                      /\ vars' # vars =>
                           /\ DaemonStep => StepsLeft' < StepsLeft
                           /\ StepsLeft' > StepsLeft => StartRun
      OBVIOUS
  <2>1. CASE DaemonStep
    <3>1. StepsLeft' < StepsLeft /\ Counted'
        BY <2>1, DaemonStepsShrink DEF Working
    <3>2. StepsLeft \in Nat /\ StepsLeft' \in Nat
        BY <2>1, DaemonStepsShrink DEF Working
    <3> QED
        BY <3>1, <3>2
  <2>2. CASE ~DaemonStep
      BY <2>2, OthersAddNothing DEF Working, Next
  <2> QED
      BY <2>1, <2>2
<1>3. Working /\ Counted => StepsFit
    BY StepsLeftMeans DEF Working
<1> QED
    BY <1>1, <1>2, <1>3, AlwaysWorking, PTL DEF Spec, RunsShrink
=============================================================================
