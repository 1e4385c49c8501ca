-------------------------- MODULE TeamWorkerProofs --------------------------
(***************************************************************************)
(* Proofs about TeamWorker: dispatchers, workers, the operator and the     *)
(* people who push, in any number and with any number of faults.           *)
(***************************************************************************)
EXTENDS TeamWorker, FiniteSetTheorems, SequenceTheorems, TLAPS

-----------------------------------------------------------------------------
(* The dispatch alone, for any number of dispatchers, works,               *)
(* authorizations, commits, runs and faults.                               *)

(* The types the proofs need, free of the bounds.                          *)
Snapshot == [auth : Auths \cup {NoAuth}, sha : Nat,
             plan : Works \cup {NoWork}, ready : SUBSET Works, held : BOOLEAN]
Run == [rid : Snapshot, branch : {"main", "target"},
        by : {"authority", "operator"}, over : BOOLEAN]

Typed ==
    /\ commits \in Seq(Content) /\ Len(commits) # 0
    /\ active \in [Works -> Nat]
    /\ records \subseteq Snapshot
    /\ runs \in Seq(Run)
    /\ at \in [Dispatchers -> Busy \cup Ended]
    /\ snap \in [Dispatchers -> Snapshot]

(* Whoever holds a work has its ref, alone: a dispatcher on its way from   *)
(* the ref to the dispatch, or a worker that is not over.                  *)
Holds(d, w) == at[d] \in Holding /\ snap[d].plan = w
Unfinished == {i \in ByAuthority : ~runs[i].over}

Admitted == Busy \ {"plan", "gate", "registry", "admit"}

Exclusion ==
    /\ \A d \in Dispatchers : at[d] \in Admitted => snap[d].plan \in Works
    /\ \A d \in Dispatchers : at[d] \in Busy => snap[d].sha # 0
    /\ \A d \in Dispatchers : at[d] \in Holding => active[snap[d].plan] # 0
    /\ \A d, e \in Dispatchers :
        at[d] \in Holding /\ at[e] \in Holding /\ snap[d].plan = snap[e].plan => d = e
    /\ \A i \in Unfinished : runs[i].rid.plan \in Works
    /\ \A i \in Unfinished : active[runs[i].rid.plan] # 0
    /\ \A i \in Unfinished, d \in Dispatchers : ~Holds(d, runs[i].rid.plan)
    /\ \A i, j \in Unfinished : runs[i].rid.plan = runs[j].rid.plan => i = j

(* What a dispatcher has read is what stands at its SHA, unless the branch *)
(* has moved; where it has looked again, without that proviso.             *)
SameFiles(s) ==
    /\ s.sha \in 1 .. Len(commits)
    /\ s.plan = commits[s.sha].plan
    /\ s.ready = commits[s.sha].ready
    /\ s.held = commits[s.sha].held

HasPlan == Busy \ {"plan"}
HasGate == HasPlan \ {"gate"}
HasRegistry == HasGate \ {"registry"}

Snapshots ==
    /\ \A d \in Dispatchers : at[d] \in Busy => snap[d].sha \in 1 .. Tip
    /\ \A d \in Dispatchers : snap[d].sha = Tip =>
        /\ at[d] \in HasPlan => snap[d].plan = Latest.plan
        /\ at[d] \in HasGate => snap[d].held = Latest.held
        /\ at[d] \in HasRegistry => snap[d].ready = Latest.ready
    /\ \A d \in Dispatchers : at[d] = "dispatch" => SameFiles(snap[d])
    /\ \A i \in ByAuthority : SameFiles(runs[i].rid)

-----------------------------------------------------------------------------
LEMMA RunAdded ==
    ASSUME runs \in Seq(Run), NEW rid \in Snapshot,
           NEW branch \in {"main", "target"}, NEW by \in {"authority", "operator"}
    PROVE  /\ NewRun(rid, branch, by) \in Seq(Run)
           /\ Len(NewRun(rid, branch, by)) = Len(runs) + 1
           /\ \A i \in DOMAIN runs : NewRun(rid, branch, by)[i] = runs[i]
           /\ NewRun(rid, branch, by)[Len(runs) + 1] =
                 [rid |-> rid, branch |-> branch, by |-> by, over |-> FALSE]
<1> DEFINE r == [rid |-> rid, branch |-> branch, by |-> by, over |-> FALSE]
<1>1. r \in Run  BY DEF Run
<1> QED  BY <1>1 DEF NewRun

LEMMA ReadIsTyped ==
    ASSUME NEW s \in Snapshot, NEW c \in Content
    PROVE  /\ [s EXCEPT !.plan = c.plan] \in Snapshot
           /\ [s EXCEPT !.ready = c.ready] \in Snapshot
           /\ [s EXCEPT !.held = c.held] \in Snapshot
<1>1. c.plan \in Works \cup {NoWork} /\ c.ready \in SUBSET Works /\ c.held \in BOOLEAN
  BY DEF Content
<1>2. [s EXCEPT !.plan = c.plan] \in Snapshot  BY <1>1 DEF Snapshot
<1>3. [s EXCEPT !.ready = c.ready] \in Snapshot  BY <1>1 DEF Snapshot
<1>4. [s EXCEPT !.held = c.held] \in Snapshot  BY <1>1, Zenon DEF Snapshot
<1> QED  BY <1>2, <1>3, <1>4

LEMMA TypedInitially == DispatchInit => Typed
BY ContentsAssumption
   DEF DispatchInit, Typed, Snapshot, Unread, Ended

LEMMA TypedPreserved == Typed /\ [DispatchNext]_dispatchVars => Typed'
<1> SUFFICES ASSUME Typed, [DispatchNext]_dispatchVars PROVE Typed'
    OBVIOUS
<1> USE DEF Typed, Goto, Busy, Ended, Reading, Holding
<1>1. ASSUME NEW d \in Dispatchers, NEW a \in Auths \cup {NoAuth}, Start(d, a)
      PROVE  Typed'
  <2>1. Unread(a, Tip) \in Snapshot
    BY DEF Unread, Snapshot, Tip
  <2> QED  BY <1>1, <2>1 DEF Start, refVars
<1>2. ASSUME NEW d \in Dispatchers, DispatcherStep(d) PROVE Typed'
  <2>0. Latest \in Content  BY DEF Latest, Tip
  <2>1. CASE ReadPlan(d)
    BY <2>0, <2>1, ReadIsTyped DEF ReadPlan, refVars
  <2>2. CASE ReadGate(d)
    BY <2>0, <2>2, ReadIsTyped DEF ReadGate, refVars
  <2>3. CASE ReadRegistry(d)
    BY <2>0, <2>3, ReadIsTyped DEF ReadRegistry, refVars
  <2>4. CASE Admit(d)  BY <2>4 DEF Admit, refVars
  <2>5. CASE ListActive(d)  BY <2>5 DEF ListActive, refVars
  <2>6. CASE CheckConsumed(d)  BY <2>6 DEF CheckConsumed, refVars
  <2>7. CASE Reserve(d)
    <3>1. snap[d].sha \in Nat  BY DEF Snapshot
    <3> QED  BY <2>7, <3>1 DEF Reserve
  <2>8. CASE Record(d)  BY <2>8 DEF Record
  <2>9. CASE Consume(d)  BY <2>9 DEF Consume
  <2>10. CASE CheckDrift(d)  BY <2>10 DEF CheckDrift, refVars
  <2>11. CASE DeleteActive(d)
    <3>1. active' \in {active, [active EXCEPT ![snap[d].plan] = 0]}
      BY <2>11 DEF DeleteActive
    <3>2. active' \in [Works -> Nat]  BY <3>1
    <3> QED  BY <2>11, <3>2 DEF DeleteActive
  <2>12. CASE DeleteRecord(d)  BY <2>12 DEF DeleteRecord
  <2>13. CASE Dispatch(d)
    <3>1. runs' \in {runs, NewRun(snap[d], "main", "authority")}
      BY <2>13 DEF Dispatch
    <3>2. runs' \in Seq(Run)  BY <3>1, RunAdded
    <3> QED  BY <2>13, <3>2 DEF Dispatch, refVars
  <2> QED
    BY <1>2, <2>1, <2>2, <2>3, <2>4, <2>5, <2>6, <2>7, <2>8, <2>9, <2>10,
       <2>11, <2>12, <2>13 DEF DispatcherStep
<1>3. ASSUME NEW d \in Dispatchers, Crash(d) PROVE Typed'
  BY <1>3 DEF Crash, refVars
<1>4. ASSUME Surroundings PROVE Typed'
  <2>1. ASSUME NEW c \in Contents, PushTarget(c) PROVE Typed'
    BY <2>1, ContentsAssumption DEF PushTarget, refVars
  <2>2. ASSUME BeginMint \/ AbandonMint \/
               \E a \in Auths : PublishAuthorization(a) \/ Expire(a)
        PROVE  Typed'
    BY <2>2 DEF BeginMint, AbandonMint, PublishAuthorization, Expire, refVars
  <2>3. ASSUME NEW rid \in records, OperatorDispatch(rid) PROVE Typed'
    BY <2>3, RunAdded DEF OperatorDispatch, refVars
  <2>4. ASSUME NEW w \in Works, Adjudicate(w) PROVE Typed'
    BY <2>4 DEF Adjudicate
  <2> QED  BY <1>4, <2>1, <2>2, <2>3, <2>4 DEF Surroundings
<1>5. CASE UNCHANGED dispatchVars
  BY <1>5 DEF dispatchVars, refVars
<1> QED  BY <1>1, <1>2, <1>3, <1>4, <1>5 DEF DispatchNext

LEMMA TypedInvariant == DispatchSpec => []Typed
BY TypedInitially, TypedPreserved, PTL DEF DispatchSpec

-----------------------------------------------------------------------------
(* The steps that may change who holds what are those of the dispatchers   *)
(* from Reserve on, a crash, the operator's and the adjudicator's; every   *)
(* other step leaves refs, runs and the holders as they are.               *)
LEMMA NoNewHolder ==
    ASSUME Typed, Exclusion, NEW d \in Dispatchers,
           UNCHANGED <<active, runs>>,
           \A e \in Dispatchers : e # d => at'[e] = at[e] /\ snap'[e] = snap[e],
           at'[d] \notin Holding,
           at'[d] \in Busy => snap'[d].sha # 0,
           at'[d] \in Admitted => snap'[d].plan \in Works
    PROVE  Exclusion'
<1>1. Unfinished' = Unfinished  BY DEF Unfinished, ByAuthority
<1>2. \A e \in Dispatchers : at'[e] \in Holding =>
        at[e] \in Holding /\ snap'[e] = snap[e]
  OBVIOUS
<1>3. \A e \in Dispatchers : at'[e] \in Busy => snap'[e].sha # 0
  BY DEF Exclusion
<1>4. \A e \in Dispatchers : at'[e] \in Admitted => snap'[e].plan \in Works
  BY DEF Exclusion
<1> QED  BY <1>1, <1>2, <1>3, <1>4 DEF Exclusion, Holds

LEMMA ExclusionInitially == DispatchInit => Exclusion
BY DEF DispatchInit, Exclusion, Admitted, Busy, Holding, Reading, Unfinished, ByAuthority

(* A dispatcher that holds a work and takes a step keeps it, or lets go.   *)
LEMMA HolderStays ==
    ASSUME Typed, Exclusion, NEW d \in Dispatchers,
           UNCHANGED <<active, runs, snap>>,
           \A e \in Dispatchers : e # d => at'[e] = at[e],
           at[d] \in Holding, at'[d] \in Holding \cup {"revokeRecord"} \cup Ended
    PROVE  Exclusion'
<1>1. Unfinished' = Unfinished  BY DEF Unfinished, ByAuthority
<1>2. \A e \in Dispatchers : at'[e] \in Holding => at[e] \in Holding
  OBVIOUS
<1>3. \A e \in Dispatchers : at'[e] \in Busy => at[e] \in Busy
  BY DEF Busy
<1>4. \A e \in Dispatchers : at'[e] \in Admitted => at[e] \in Admitted
  BY DEF Admitted, Busy, Holding, Reading
<1> QED  BY <1>1, <1>2, <1>3, <1>4 DEF Exclusion, Holds

LEMMA ReserveExcludes ==
    ASSUME Typed, Exclusion, NEW d \in Dispatchers, Reserve(d)
    PROVE  Exclusion'
<1> DEFINE w == snap[d].plan
<1>0. w \in Works /\ snap[d].sha \in Nat \ {0} /\ at[d] = "reserve"
  BY DEF Reserve, Typed, Exclusion, Snapshot, Admitted, Busy, Holding, Reading
<1>1. PICK answer \in CreateAnswers(active[w] # 0) :
        /\ active' = IF Made(answer) THEN [active EXCEPT ![w] = snap[d].sha] ELSE active
        /\ Goto(d, IF answer = "created" THEN "record" ELSE "refused")
  BY DEF Reserve
<1>2. UNCHANGED <<runs, snap>> /\ Unfinished' = Unfinished
  BY DEF Reserve, Unfinished, ByAuthority
<1>3. \A e \in Dispatchers : e # d => at'[e] = at[e]
  BY <1>1 DEF Goto, Typed
<1>4. CASE ~Made(answer)
  <2>1. at'[d] = "refused" /\ active' = active
    BY <1>1, <1>4 DEF Goto, Typed, Made
  <2> QED
    BY <1>2, <1>3, <2>1, NoNewHolder DEF Holding, Busy, Admitted, Reading
<1>5. CASE Made(answer)
  <2>1. active[w] = 0
    BY <1>1, <1>5 DEF Made, CreateAnswers
  <2>2. /\ active'[w] # 0
        /\ \A v \in Works : v # w => active'[v] = active[v]
    BY <1>0, <1>1, <1>5 DEF Typed
  <2>3. at'[d] \in {"record", "refused"}
    BY <1>1 DEF Goto, Typed
  <2>4. \A e \in Dispatchers : at[e] \in Holding => snap[e].plan # w
    BY <2>1 DEF Exclusion
  <2>5. \A i \in Unfinished : runs[i].rid.plan # w
    BY <2>1 DEF Exclusion
  <2>6. \A e \in Dispatchers : at'[e] \in Admitted => at[e] \in Admitted
    BY <1>0, <1>3 DEF Admitted, Busy, Holding, Reading
  <2>7. \A e \in Dispatchers : at'[e] \in Holding => e = d \/ at[e] \in Holding
    BY <1>3
  <2>8. \A e \in Dispatchers : at'[e] \in Busy => at[e] \in Busy
    BY <1>0, <1>3 DEF Busy
  <2>9. \A e \in Dispatchers : at'[e] \in Holding => active'[snap[e].plan] # 0
    BY <2>2, <2>6, <2>7 DEF Exclusion, Admitted, Busy, Holding, Reading
  <2>10. \A e, f \in Dispatchers :
          at'[e] \in Holding /\ at'[f] \in Holding /\ snap[e].plan = snap[f].plan => e = f
    BY <2>4, <2>7 DEF Exclusion
  <2>11. \A i \in Unfinished, e \in Dispatchers :
          ~(at'[e] \in Holding /\ snap[e].plan = runs[i].rid.plan)
    BY <2>5, <2>7 DEF Exclusion, Holds
  <2> QED
    BY <1>2, <2>2, <2>5, <2>6, <2>8, <2>9, <2>10, <2>11 DEF Exclusion, Holds
<1> QED  BY <1>4, <1>5

LEMMA DeleteExcludes ==
    ASSUME Typed, Exclusion, NEW d \in Dispatchers, DeleteActive(d)
    PROVE  Exclusion'
<1> DEFINE w == snap[d].plan
<1>0. w \in Works /\ at[d] \in Holding
  BY DEF DeleteActive, Typed, Exclusion, Admitted, Busy, Holding, Reading
<1>1. /\ UNCHANGED <<runs, snap>> /\ Unfinished' = Unfinished
      /\ at'[d] \in {"refused", "revokeRecord"}
      /\ \A e \in Dispatchers : e # d => at'[e] = at[e]
  BY DEF DeleteActive, Goto, Typed, Unfinished, ByAuthority
<1>2. \A v \in Works : v # w => active'[v] = active[v]
  BY DEF DeleteActive, Typed
<1>3. \A e \in Dispatchers : at'[e] \in Holding => at[e] \in Holding /\ snap[e].plan # w
  BY <1>0, <1>1 DEF Exclusion, Holding
<1>4. \A i \in Unfinished : runs[i].rid.plan # w
  BY <1>0 DEF Exclusion, Holds
<1>5. \A e \in Dispatchers : at'[e] \in Busy => at[e] \in Busy
  BY <1>0, <1>1 DEF Busy
<1>6. \A e \in Dispatchers : at'[e] \in Admitted => at[e] \in Admitted
  BY <1>0, <1>1 DEF Admitted, Busy, Holding, Reading
<1>7. \A e \in Dispatchers : at'[e] \in Holding => active'[snap[e].plan] # 0
  BY <1>2, <1>3 DEF Exclusion, Admitted, Busy, Holding, Reading
<1>8. \A i \in Unfinished : active'[runs[i].rid.plan] # 0
  BY <1>2, <1>4 DEF Exclusion
<1> QED
  BY <1>1, <1>3, <1>5, <1>6, <1>7, <1>8 DEF Exclusion, Holds

LEMMA DispatchAdds ==
    ASSUME Typed, NEW d \in Dispatchers, Dispatch(d), runs' # runs
    PROVE  LET n == Len(runs) + 1 IN
           /\ Len(runs') = n /\ runs' \in Seq(Run)
           /\ \A i \in DOMAIN runs : i # n /\ runs'[i] = runs[i]
           /\ runs'[n].rid = snap[d] /\ runs'[n].by = "authority" /\ ~runs'[n].over
           /\ \A i \in DOMAIN runs' : i = n \/ i \in DOMAIN runs
<1> DEFINE n == Len(runs) + 1
<1>1. runs \in Seq(Run) /\ snap[d] \in Snapshot
  BY DEF Typed
<1>2. runs' = NewRun(snap[d], "main", "authority")
  BY DEF Dispatch
<1>3. /\ Len(runs') = n /\ runs' \in Seq(Run)
      /\ \A i \in DOMAIN runs : runs'[i] = runs[i]
      /\ runs'[n] = [rid |-> snap[d], branch |-> "main", by |-> "authority", over |-> FALSE]
  BY <1>1, <1>2, RunAdded, Zenon
<1>4. \A i \in DOMAIN runs' : i = n \/ i \in DOMAIN runs
  BY <1>1, <1>3
<1>5. \A i \in DOMAIN runs : i # n
  BY <1>1
<1>6. runs'[n].rid = snap[d] /\ runs'[n].by = "authority" /\ ~runs'[n].over
  BY <1>3
<1> QED  BY <1>3, <1>4, <1>5, <1>6

LEMMA DispatchExcludes ==
    ASSUME Typed, Exclusion, NEW d \in Dispatchers, Dispatch(d)
    PROVE  Exclusion'
<1> DEFINE w == snap[d].plan
           n == Len(runs) + 1
<1>0. w \in Works /\ at[d] \in Holding /\ active[w] # 0 /\ snap[d] \in Snapshot
  BY DEF Dispatch, Typed, Exclusion, Admitted, Busy, Holding, Reading
<1>1. /\ UNCHANGED <<active, snap>>
      /\ at'[d] \in {"dispatched", "preserved"}
      /\ \A e \in Dispatchers : e # d => at'[e] = at[e]
      /\ runs' \in {runs, NewRun(snap[d], "main", "authority")}
  BY DEF Dispatch, Goto, Typed, refVars
<1>2. CASE runs' = runs
  BY <1>0, <1>1, <1>2, HolderStays DEF Ended
<1>3. CASE runs' # runs
  <2>1. /\ \A i \in DOMAIN runs : runs'[i] = runs[i]
        /\ \A i \in DOMAIN runs' : i = n \/ i \in DOMAIN runs
        /\ runs'[n].rid = snap[d]
    BY <1>3, DispatchAdds
  <2>2. \A i \in Unfinished' : i = n \/ i \in Unfinished
    BY <2>1 DEF Unfinished, ByAuthority
  <2>3. \A i \in Unfinished : runs'[i] = runs[i] /\ runs[i].rid.plan # w
    BY <1>0, <2>1 DEF Unfinished, ByAuthority, Exclusion, Holds
  <2>4. \A e \in Dispatchers : at'[e] \in Holding => at[e] \in Holding /\ snap[e].plan # w
    BY <1>0, <1>1 DEF Exclusion, Holding
  <2>5. \A e \in Dispatchers :
          /\ at'[e] \in Busy => at[e] \in Busy
          /\ at'[e] \in Admitted => at[e] \in Admitted
    BY <1>0, <1>1 DEF Admitted, Busy, Holding, Reading
  <2>6. \A i \in Unfinished' : runs'[i].rid.plan \in Works /\ active[runs'[i].rid.plan] # 0
    BY <1>0, <2>1, <2>2, <2>3 DEF Exclusion
  <2>7. \A i \in Unfinished', e \in Dispatchers :
          ~(at'[e] \in Holding /\ snap[e].plan = runs'[i].rid.plan)
    BY <2>1, <2>2, <2>3, <2>4 DEF Exclusion, Holds
  <2>8. \A i, j \in Unfinished' : runs'[i].rid.plan = runs'[j].rid.plan => i = j
    BY <2>1, <2>2, <2>3 DEF Exclusion
  <2> QED
    BY <1>1, <2>4, <2>5, <2>6, <2>7, <2>8 DEF Exclusion, Holds
<1> QED  BY <1>1, <1>2, <1>3

LEMMA AdjudicateExcludes ==
    ASSUME Typed, Exclusion, NEW w \in Works, Adjudicate(w)
    PROVE  Exclusion'
<1>1. /\ UNCHANGED <<runs, at, snap>> /\ Unfinished' = Unfinished
      /\ \A v \in Works : v # w => active'[v] = active[v]
  BY DEF Adjudicate, Typed, Unfinished, ByAuthority
<1>2. \A d \in Dispatchers : at[d] \in Holding => snap[d].plan # w
  BY DEF Adjudicate
<1>3. \A i \in Unfinished : runs[i].rid.plan # w
  BY DEF Adjudicate, Unfinished, ByAuthority
<1>4. \A d \in Dispatchers : at[d] \in Holding => active'[snap[d].plan] # 0
  BY <1>1, <1>2 DEF Exclusion, Admitted, Busy, Holding, Reading
<1> QED  BY <1>1, <1>3, <1>4 DEF Exclusion, Holds

LEMMA OperatorAdds ==
    ASSUME Typed, NEW rid \in records, OperatorDispatch(rid)
    PROVE  LET n == Len(runs) + 1 IN
           /\ Len(runs') = n /\ runs' \in Seq(Run)
           /\ \A i \in DOMAIN runs : i # n /\ runs'[i] = runs[i]
           /\ runs'[n].rid = rid /\ runs'[n].by = "operator" /\ ~runs'[n].over
           /\ \A i \in DOMAIN runs' : i = n \/ i \in DOMAIN runs
<1> DEFINE n == Len(runs) + 1
<1>1. runs \in Seq(Run) /\ rid \in Snapshot
  BY DEF Typed
<1>2. runs' = NewRun(rid, "target", "operator")
  BY DEF OperatorDispatch
<1>3. /\ Len(runs') = n /\ runs' \in Seq(Run)
      /\ \A i \in DOMAIN runs : runs'[i] = runs[i]
      /\ runs'[n] = [rid |-> rid, branch |-> "target", by |-> "operator", over |-> FALSE]
  BY <1>1, <1>2, RunAdded, Zenon
<1>4. \A i \in DOMAIN runs' : i = n \/ i \in DOMAIN runs
  BY <1>1, <1>3
<1>5. \A i \in DOMAIN runs : i # n
  BY <1>1
<1>6. runs'[n].rid = rid /\ runs'[n].by = "operator" /\ ~runs'[n].over
  BY <1>3
<1> QED  BY <1>3, <1>4, <1>5, <1>6

LEMMA OperatorAddsNone ==
    ASSUME Typed, NEW rid \in records, OperatorDispatch(rid)
    PROVE  \A i \in ByAuthority' : i \in ByAuthority /\ runs'[i] = runs[i]
<1>1. /\ runs'[Len(runs) + 1].by = "operator"
      /\ \A i \in DOMAIN runs' : i = Len(runs) + 1 \/ i \in DOMAIN runs
      /\ \A i \in DOMAIN runs : runs'[i] = runs[i]
  BY OperatorAdds
<1> QED  BY <1>1 DEF ByAuthority

LEMMA OperatorExcludes ==
    ASSUME Typed, Exclusion, NEW rid \in records, OperatorDispatch(rid)
    PROVE  Exclusion'
<1>1. UNCHANGED <<active, at, snap>>  BY DEF OperatorDispatch, refVars
<1>2. \A i \in Unfinished' : i \in Unfinished /\ runs'[i] = runs[i]
  BY OperatorAddsNone DEF Unfinished
<1> QED  BY <1>1, <1>2 DEF Exclusion, Holds

LEMMA ExclusionPreserved ==
    Typed /\ Exclusion /\ [DispatchNext]_dispatchVars => Exclusion'
<1> SUFFICES ASSUME Typed, Exclusion, [DispatchNext]_dispatchVars PROVE Exclusion'
    OBVIOUS
<1>1. ASSUME NEW d \in Dispatchers, NEW a \in Auths \cup {NoAuth}, Start(d, a)
      PROVE  Exclusion'
  <2>1. UNCHANGED <<active, runs>>  BY <1>1 DEF Start, refVars
  <2>2. at'[d] = "plan" /\ snap'[d].sha # 0
    BY <1>1 DEF Start, Goto, Unread, Tip, Typed
  <2>3. \A e \in Dispatchers : e # d => at'[e] = at[e] /\ snap'[e] = snap[e]
    BY <1>1 DEF Start, Goto, Typed
  <2> QED  BY <2>1, <2>2, <2>3, NoNewHolder DEF Admitted, Holding
<1>2. ASSUME NEW d \in Dispatchers, DispatcherStep(d) PROVE Exclusion'
  <2>1. CASE ReadPlan(d) \/ ReadGate(d) \/ ReadRegistry(d)
    <3>1. UNCHANGED <<active, runs>>
      BY <2>1 DEF ReadPlan, ReadGate, ReadRegistry, refVars
    <3>2. at'[d] \in {"gate", "registry", "admit"} /\ at[d] \in Busy
      BY <2>1 DEF ReadPlan, ReadGate, ReadRegistry, Goto, Typed, Busy, Reading
    <3>3. snap'[d].sha = snap[d].sha
      BY <2>1 DEF ReadPlan, ReadGate, ReadRegistry, Typed, Snapshot
    <3>4. \A e \in Dispatchers : e # d => at'[e] = at[e] /\ snap'[e] = snap[e]
      BY <2>1 DEF ReadPlan, ReadGate, ReadRegistry, Goto, Typed
    <3>5. snap[d].sha # 0  BY <3>2 DEF Exclusion
    <3> QED
      BY <3>1, <3>2, <3>3, <3>4, <3>5, NoNewHolder DEF Admitted, Holding
  <2>2. CASE Admit(d)
    <3>1. at'[d] \in {"listing", "refused"}
      BY <2>2 DEF Admit, Goto, Typed
    <3>2. at'[d] = "listing" => snap[d].plan \in Works
      BY <2>2 DEF Admit, Admissible, Goto, Typed, Snapshot
    <3>3. snap[d].sha # 0
      BY <2>2 DEF Admit, Exclusion, Busy, Reading
    <3>4. \A e \in Dispatchers : e # d => at'[e] = at[e]
      BY <2>2 DEF Admit, Goto, Typed
    <3>5. UNCHANGED <<active, runs, snap>>  BY <2>2 DEF Admit, refVars
    <3> QED
      BY <3>1, <3>2, <3>3, <3>4, <3>5, NoNewHolder DEF Admitted, Busy, Reading, Holding
  <2>3. CASE ListActive(d) \/ CheckConsumed(d) \/ DeleteRecord(d)
    <3>1. at'[d] \in {"spent", "refused", "reserve", "revoked"}
      BY <2>3 DEF ListActive, CheckConsumed, DeleteRecord, Goto, Typed
    <3>2. at[d] \in Admitted /\ at[d] \in Busy
      BY <2>3 DEF ListActive, CheckConsumed, DeleteRecord, Admitted, Busy, Reading
    <3>3. snap[d].sha # 0 /\ snap[d].plan \in Works
      BY <3>2 DEF Exclusion
    <3>4. \A e \in Dispatchers : e # d => at'[e] = at[e]
      BY <2>3 DEF ListActive, CheckConsumed, DeleteRecord, Goto, Typed
    <3>5. UNCHANGED <<active, runs, snap>>
      BY <2>3 DEF ListActive, CheckConsumed, DeleteRecord, refVars
    <3> QED
      BY <3>1, <3>3, <3>4, <3>5, NoNewHolder DEF Holding
  <2>4. CASE Record(d) \/ Consume(d) \/ CheckDrift(d)
    <3>1. /\ at[d] \in Holding
          /\ at'[d] \in {"consume", "retreat", "drift", "revoke", "dispatch"}
      BY <2>4 DEF Record, Consume, CheckDrift, Goto, Typed, Holding
    <3>2. /\ UNCHANGED <<active, runs, snap>>
          /\ \A e \in Dispatchers : e # d => at'[e] = at[e]
      BY <2>4 DEF Record, Consume, CheckDrift, Goto, Typed, refVars
    <3> QED  BY <3>1, <3>2, HolderStays DEF Holding
  <2> QED
    BY <1>2, <2>1, <2>2, <2>3, <2>4, ReserveExcludes, DeleteExcludes,
       DispatchExcludes DEF DispatcherStep
<1>3. ASSUME NEW d \in Dispatchers, Crash(d) PROVE Exclusion'
  <2>1. /\ UNCHANGED <<active, runs, snap>>
        /\ at'[d] = "crashed"
        /\ \A e \in Dispatchers : e # d => at'[e] = at[e]
    BY <1>3 DEF Crash, Goto, Typed, refVars
  <2> QED
    BY <2>1, NoNewHolder DEF Admitted, Busy, Reading, Holding
<1>4. ASSUME Surroundings PROVE Exclusion'
  <2>1. CASE \/ \E c \in Contents : PushTarget(c)
             \/ BeginMint \/ AbandonMint
             \/ \E a \in Auths : PublishAuthorization(a) \/ Expire(a)
    <3>1. UNCHANGED <<active, runs, at, snap>>
      BY <2>1 DEF PushTarget, BeginMint, AbandonMint, PublishAuthorization, Expire, refVars
    <3> QED  BY <3>1 DEF Exclusion, Holds, Unfinished, ByAuthority
  <2> QED
    BY <1>4, <2>1, OperatorExcludes, AdjudicateExcludes DEF Surroundings
<1>5. CASE UNCHANGED dispatchVars
  BY <1>5 DEF dispatchVars, refVars, Exclusion, Holds, Unfinished, ByAuthority
<1> QED  BY <1>1, <1>2, <1>3, <1>4, <1>5 DEF DispatchNext

LEMMA ExclusionInvariant == DispatchSpec => []Exclusion
BY ExclusionInitially, ExclusionPreserved, TypedInvariant, PTL DEF DispatchSpec

(* However many dispatchers race, whatever calls fail and whoever dies: no *)
(* two workers that the authority dispatched have one work in hand.        *)
THEOREM WorkIsExclusive == DispatchSpec => []OneWorkerPerWork
<1>1. Exclusion => OneWorkerPerWork
  BY DEF Exclusion, OneWorkerPerWork, Unfinished
<1> QED  BY <1>1, ExclusionInvariant, PTL

-----------------------------------------------------------------------------
(* The reads.  A dispatcher that has read goes on without reading again.   *)
LEMMA ReaderMovesOn ==
    ASSUME Typed, Snapshots, NEW d \in Dispatchers,
           UNCHANGED <<commits, runs, snap>>,
           \A e \in Dispatchers : e # d => at'[e] = at[e],
           \/ at'[d] \in Ended
           \/ at[d] \in HasRegistry /\ at'[d] \in HasRegistry \ {"dispatch"}
    PROVE  Snapshots'
<1>1. \A e \in Dispatchers :
        /\ at'[e] \in Busy => at[e] \in Busy
        /\ at'[e] \in HasPlan => at[e] \in HasPlan
        /\ at'[e] \in HasGate => at[e] \in HasGate
        /\ at'[e] \in HasRegistry => at[e] \in HasRegistry
        /\ at'[e] = "dispatch" => at[e] = "dispatch"
  BY DEF HasRegistry, HasGate, HasPlan, Busy, Reading, Holding, Ended
<1> QED
  BY <1>1 DEF Snapshots, SameFiles, Tip, Latest, ByAuthority

LEMMA ReadsPreserved ==
    ASSUME Typed, Snapshots, NEW d \in Dispatchers,
           ReadPlan(d) \/ ReadGate(d) \/ ReadRegistry(d)
    PROVE  Snapshots'
<1>1. /\ UNCHANGED <<commits, runs>>
      /\ at[d] \in Busy /\ at'[d] # "dispatch"
      /\ \A e \in Dispatchers : e # d => at'[e] = at[e] /\ snap'[e] = snap[e]
  BY DEF ReadPlan, ReadGate, ReadRegistry, Goto, Typed, Busy, Reading
<1>2. snap[d] \in Snapshot  BY DEF Typed
<1>3. snap'[d].sha = snap[d].sha
  BY <1>2 DEF ReadPlan, ReadGate, ReadRegistry, Typed, Snapshot
<1>4. snap[d].sha = Tip =>
        /\ at'[d] \in HasPlan => snap'[d].plan = Latest.plan
        /\ at'[d] \in HasGate => snap'[d].held = Latest.held
        /\ at'[d] \in HasRegistry => snap'[d].ready = Latest.ready
  <2> USE DEF HasRegistry, HasGate, HasPlan, Busy, Reading, Goto
  <2>1. CASE ReadPlan(d)
    <3>1. at'[d] = "gate" /\ snap'[d].plan = Latest.plan
      BY <1>2, <2>1 DEF ReadPlan, Typed, Snapshot
    <3> QED  BY <3>1
  <2>2. CASE ReadGate(d)
    <3>1. at[d] = "gate" /\ at'[d] = "registry"
      BY <2>2 DEF ReadGate, Typed
    <3>2. snap'[d] = [snap[d] EXCEPT !.held = Latest.held]
      BY <2>2 DEF ReadGate, Typed
    <3>3. snap'[d].plan = snap[d].plan
      BY <1>2, <3>2 DEF Snapshot
    <3>4. snap'[d].held = Latest.held
      BY <1>2, <3>2, Zenon DEF Snapshot
    <3>5. snap[d].sha = Tip => snap[d].plan = Latest.plan
      BY <3>1 DEF Snapshots
    <3> QED  BY <3>1, <3>3, <3>4, <3>5
  <2>3. CASE ReadRegistry(d)
    <3>1. at[d] = "registry" /\ at'[d] = "admit"
      BY <2>3 DEF ReadRegistry, Typed
    <3>2. snap'[d] = [snap[d] EXCEPT !.ready = Latest.ready]
      BY <2>3 DEF ReadRegistry, Typed
    <3>3. /\ snap'[d].plan = snap[d].plan /\ snap'[d].held = snap[d].held
          /\ snap'[d].ready = Latest.ready
      BY <1>2, <3>2 DEF Snapshot
    <3>4. snap[d].sha = Tip => snap[d].plan = Latest.plan /\ snap[d].held = Latest.held
      BY <3>1 DEF Snapshots
    <3> QED  BY <3>1, <3>3, <3>4
  <2> QED  BY <2>1, <2>2, <2>3
<1> QED
  BY <1>1, <1>3, <1>4 DEF Snapshots, SameFiles, Tip, Latest, ByAuthority

LEMMA DispatchKeepsSnapshots ==
    ASSUME Typed, Snapshots, NEW d \in Dispatchers, Dispatch(d)
    PROVE  Snapshots'
<1> DEFINE n == Len(runs) + 1
<1>1. /\ UNCHANGED <<commits, snap>>
      /\ at[d] = "dispatch" /\ at'[d] \in Ended
      /\ \A e \in Dispatchers : e # d => at'[e] = at[e]
      /\ runs' \in {runs, NewRun(snap[d], "main", "authority")}
  BY DEF Dispatch, Goto, Typed, Ended
<1>2. CASE runs' = runs
  BY <1>1, <1>2, ReaderMovesOn
<1>3. CASE runs' # runs
  <2>1. snap[d] \in Snapshot  BY DEF Typed
  <2>2. /\ \A i \in DOMAIN runs : runs'[i] = runs[i]
        /\ runs'[n].rid = snap[d]
    BY <1>3, DispatchAdds
  <2>3. \A i \in DOMAIN runs' : i = n \/ i \in DOMAIN runs
    BY <1>3, DispatchAdds
  <2>4. \A i \in ByAuthority' : SameFiles(runs'[i].rid)
    BY <1>1, <2>2, <2>3 DEF ByAuthority, Snapshots
  <2>5. \A e \in Dispatchers : at'[e] \in Busy => at'[e] = at[e]
    BY <1>1 DEF Busy, Reading, Holding, Ended
  <2> QED
    BY <1>1, <2>4, <2>5
       DEF Snapshots, SameFiles, Tip, Latest, HasPlan, HasGate, HasRegistry, Busy
<1> QED  BY <1>1, <1>2, <1>3

LEMMA PushKeepsSnapshots ==
    ASSUME Typed, Snapshots, NEW c \in Contents, PushTarget(c)
    PROVE  Snapshots'
<1>1. UNCHANGED <<runs, at, snap>> /\ ByAuthority' = ByAuthority
  BY DEF PushTarget, ByAuthority
<1>2. /\ Tip \in Nat /\ Tip' = Tip + 1
      /\ \A k \in 1 .. Tip : commits'[k] = commits[k]
  BY ContentsAssumption DEF PushTarget, Typed, Tip
<1>3. \A s \in Snapshot : SameFiles(s) => SameFiles(s)'
  BY <1>2 DEF SameFiles, Tip
<1>4. \A d \in Dispatchers : at[d] \in Busy => snap[d].sha \in 1 .. Tip' /\ snap[d].sha # Tip'
  BY <1>2 DEF Snapshots
<1>5. \A i \in ByAuthority : runs[i].rid \in Snapshot
  <2>1. \A i \in DOMAIN runs : runs[i] \in Run  BY DEF Typed
  <2>2. \A r \in Run : r.rid \in Snapshot  BY DEF Run
  <2> QED  BY <2>1, <2>2 DEF ByAuthority
<1>6. \A i \in ByAuthority : SameFiles(runs[i].rid)'
  BY <1>1, <1>3, <1>5 DEF Snapshots, SameFiles
<1>7. \A d \in Dispatchers : at[d] = "dispatch" => SameFiles(snap[d])'
  BY <1>1, <1>3 DEF Snapshots, SameFiles, Typed
<1> QED
  BY <1>1, <1>4, <1>6, <1>7 DEF Snapshots, HasPlan, HasGate, HasRegistry

LEMMA SnapshotsPreserved ==
    Typed /\ Snapshots /\ [DispatchNext]_dispatchVars => Snapshots'
<1> SUFFICES ASSUME Typed, Snapshots, [DispatchNext]_dispatchVars PROVE Snapshots'
    OBVIOUS
<1>1. ASSUME NEW d \in Dispatchers, NEW a \in Auths \cup {NoAuth}, Start(d, a)
      PROVE  Snapshots'
  <2>1. /\ UNCHANGED <<commits, runs>>
        /\ at'[d] = "plan" /\ snap'[d].sha = Tip /\ Tip \in 1 .. Tip
        /\ \A e \in Dispatchers : e # d => at'[e] = at[e] /\ snap'[e] = snap[e]
    BY <1>1 DEF Start, Goto, Unread, Tip, Typed
  <2> QED
    BY <2>1 DEF Snapshots, SameFiles, Tip, Latest, ByAuthority, HasPlan, HasGate,
                HasRegistry
<1>2. ASSUME NEW d \in Dispatchers, DispatcherStep(d) PROVE Snapshots'
  <2>1. CASE Admit(d) \/ ListActive(d) \/ CheckConsumed(d) \/ Reserve(d)
             \/ Record(d) \/ Consume(d) \/ DeleteActive(d) \/ DeleteRecord(d)
    <3>1. /\ UNCHANGED <<commits, runs, snap>>
          /\ \A e \in Dispatchers : e # d => at'[e] = at[e]
      BY <2>1 DEF Admit, ListActive, CheckConsumed, Reserve, Record, Consume,
                  DeleteActive, DeleteRecord, Goto, Typed
    <3>2. /\ at[d] \in HasRegistry
          /\ at'[d] \in Ended \cup (HasRegistry \ {"dispatch"})
      BY <2>1 DEF Admit, ListActive, CheckConsumed, Reserve, Record, Consume,
                  DeleteActive, DeleteRecord, Goto, Typed, Ended,
                  HasRegistry, HasGate, HasPlan, Busy, Reading, Holding
    <3> QED  BY <3>1, <3>2, ReaderMovesOn
  <2>2. CASE CheckDrift(d)
    <3>1. /\ UNCHANGED <<commits, runs, snap>>
          /\ at[d] = "drift" /\ at'[d] \in {"dispatch", "revoke"}
          /\ at'[d] = "dispatch" => snap[d].sha = Tip
          /\ \A e \in Dispatchers : e # d => at'[e] = at[e]
      BY <2>2 DEF CheckDrift, Goto, Typed
    <3>2. CASE at'[d] = "revoke"
      BY <3>1, <3>2, ReaderMovesOn DEF HasRegistry, HasGate, HasPlan, Busy, Reading, Holding
    <3>3. CASE at'[d] = "dispatch"
      <4>1. at[d] \in HasRegistry /\ at[d] \in HasGate /\ at[d] \in HasPlan /\ at[d] \in Busy
        BY <3>1 DEF HasRegistry, HasGate, HasPlan, Busy, Reading, Holding
      <4>2. SameFiles(snap[d])
        BY <3>1, <3>3, <4>1 DEF Snapshots, SameFiles, Tip, Latest
      <4>3. \A e \in Dispatchers :
              /\ at'[e] \in Busy => at[e] \in Busy
              /\ at'[e] \in HasPlan => at[e] \in HasPlan
              /\ at'[e] \in HasGate => at[e] \in HasGate
              /\ at'[e] \in HasRegistry => at[e] \in HasRegistry
              /\ at'[e] = "dispatch" => e = d \/ at[e] = "dispatch"
        BY <3>1, <4>1
      <4> QED
        BY <3>1, <4>2, <4>3 DEF Snapshots, SameFiles, Tip, Latest, ByAuthority
    <3> QED  BY <3>1, <3>2, <3>3
  <2> QED
    BY <1>2, <2>1, <2>2, ReadsPreserved, DispatchKeepsSnapshots DEF DispatcherStep
<1>3. ASSUME NEW d \in Dispatchers, Crash(d) PROVE Snapshots'
  <2>1. /\ UNCHANGED <<commits, runs, snap>> /\ at'[d] \in Ended
        /\ \A e \in Dispatchers : e # d => at'[e] = at[e]
    BY <1>3 DEF Crash, Goto, Typed, Ended
  <2> QED  BY <2>1, ReaderMovesOn
<1>4. ASSUME Surroundings PROVE Snapshots'
  <2>1. CASE \/ BeginMint \/ AbandonMint
             \/ \E a \in Auths : PublishAuthorization(a) \/ Expire(a)
             \/ \E w \in Works : Adjudicate(w)
    <3>1. UNCHANGED <<commits, runs, at, snap>>
      BY <2>1 DEF BeginMint, AbandonMint, PublishAuthorization, Expire, Adjudicate
    <3> QED  BY <3>1 DEF Snapshots, SameFiles, Tip, Latest, ByAuthority
  <2>2. ASSUME NEW rid \in records, OperatorDispatch(rid) PROVE Snapshots'
    <3>1. UNCHANGED <<commits, at, snap>>  BY <2>2 DEF OperatorDispatch
    <3>2. \A i \in ByAuthority' : i \in ByAuthority /\ runs'[i] = runs[i]
      BY <2>2, OperatorAddsNone
    <3> QED  BY <3>1, <3>2 DEF Snapshots, SameFiles, Tip, Latest
  <2> QED
    BY <1>4, <2>1, <2>2, PushKeepsSnapshots DEF Surroundings
<1>5. CASE UNCHANGED dispatchVars
  BY <1>5 DEF dispatchVars, Snapshots, SameFiles, Tip, Latest, ByAuthority
<1> QED  BY <1>1, <1>2, <1>3, <1>4, <1>5 DEF DispatchNext

LEMMA SnapshotsInvariant == DispatchSpec => []Snapshots
<1>1. DispatchInit => Snapshots
  BY DEF DispatchInit, Snapshots, ByAuthority, HasPlan, HasGate, HasRegistry,
         Busy, Reading, Holding
<1> QED
  BY <1>1, SnapshotsPreserved, TypedInvariant, PTL DEF DispatchSpec

(* However the branch moves under the reads: what a dispatched worker was  *)
(* admitted on are the files of the one commit it is reserved for.         *)
THEOREM OneCommitIsDispatched == DispatchSpec => []DispatchedFromOneCommit
<1>1. ASSUME Typed, Snapshots, NEW i \in ByAuthority
      PROVE  commits[runs[i].rid.sha] =
               [plan |-> runs[i].rid.plan, ready |-> runs[i].rid.ready,
                held |-> runs[i].rid.held]
  <2> DEFINE rid == runs[i].rid
  <2>1. SameFiles(rid)  BY <1>1 DEF Snapshots
  <2>2. commits[rid.sha] \in Content
    BY <1>1, <2>1 DEF SameFiles, Typed
  <2>3. \A c \in Content : c = [plan |-> c.plan, ready |-> c.ready, held |-> c.held]
    BY DEF Content
  <2> QED  BY <2>1, <2>2, <2>3, Zenon DEF SameFiles
<1>2. Typed /\ Snapshots => DispatchedFromOneCommit
  BY <1>1 DEF DispatchedFromOneCommit
<1> QED  BY <1>2, TypedInvariant, SnapshotsInvariant, PTL

-----------------------------------------------------------------------------
(* The records.  A dispatcher that made one keeps it, alone, until it has  *)
(* dispatched or deleted it; the record of a worker, be it the operator's, *)
(* stays for good.                                                         *)
Recorded == {"consume", "drift", "dispatch", "revoke", "revokeRecord"}

RecordsKept ==
    /\ \A d \in Dispatchers : at[d] \in Recorded => snap[d] \in records
    /\ \A d, e \in Dispatchers :
        at[d] \in Recorded /\ at[e] \in Recorded /\ snap[d] = snap[e] => d = e
    /\ \A i \in DOMAIN runs : runs[i].rid \in records
    /\ \A i \in DOMAIN runs, d \in Dispatchers :
        at[d] \in Recorded => snap[d] # runs[i].rid
    /\ \A i, j \in ByAuthority : runs[i].rid = runs[j].rid => i = j

LEMMA NoNewRecord ==
    ASSUME Typed, RecordsKept, NEW d \in Dispatchers,
           UNCHANGED <<records, runs>>,
           \A e \in Dispatchers : e # d => at'[e] = at[e] /\ snap'[e] = snap[e],
           at'[d] \in Recorded => at[d] \in Recorded /\ snap'[d] = snap[d]
    PROVE  RecordsKept'
<1>1. \A e \in Dispatchers : at'[e] \in Recorded => at[e] \in Recorded /\ snap'[e] = snap[e]
  OBVIOUS
<1> QED  BY <1>1 DEF RecordsKept, ByAuthority

LEMMA RecordKeepsRecords ==
    ASSUME Typed, RecordsKept, NEW d \in Dispatchers, Record(d)
    PROVE  RecordsKept'
<1>1. PICK answer \in CreateAnswers(snap[d] \in records) :
        /\ records' = IF Made(answer) THEN records \cup {snap[d]} ELSE records
        /\ Goto(d, IF answer = "created" THEN "consume" ELSE "retreat")
  BY DEF Record
<1>2. /\ UNCHANGED <<runs, snap>> /\ ByAuthority' = ByAuthority
      /\ records \subseteq records'
      /\ \A e \in Dispatchers : e # d => at'[e] = at[e]
  BY <1>1 DEF Record, Goto, Typed, ByAuthority
<1>3. CASE answer = "created"
  <2>1. snap[d] \notin records /\ snap[d] \in records'
    BY <1>1, <1>3 DEF CreateAnswers, Made
  <2>2. \A e \in Dispatchers : at'[e] \in Recorded => e = d \/ at[e] \in Recorded
    BY <1>2
  <2> QED  BY <1>2, <2>1, <2>2 DEF RecordsKept
<1>4. CASE answer # "created"
  <2>1. at'[d] = "retreat"  BY <1>1, <1>4 DEF Goto, Typed
  <2>2. \A e \in Dispatchers : at'[e] \in Recorded => at[e] \in Recorded
    BY <1>2, <2>1 DEF Recorded
  <2> QED  BY <1>2, <2>2 DEF RecordsKept
<1> QED  BY <1>3, <1>4

LEMMA DeleteKeepsRecords ==
    ASSUME Typed, RecordsKept, NEW d \in Dispatchers, DeleteRecord(d)
    PROVE  RecordsKept'
<1>1. /\ UNCHANGED <<runs, snap>> /\ ByAuthority' = ByAuthority
      /\ at[d] \in Recorded /\ at'[d] \notin Recorded
      /\ \A e \in Dispatchers : e # d => at'[e] = at[e]
      /\ \A r \in records : r # snap[d] => r \in records'
  BY DEF DeleteRecord, Goto, Typed, ByAuthority, Recorded
<1>2. \A e \in Dispatchers : at'[e] \in Recorded => at[e] \in Recorded /\ snap[e] # snap[d]
  BY <1>1 DEF RecordsKept
<1> QED  BY <1>1, <1>2 DEF RecordsKept

LEMMA DispatchKeepsRecords ==
    ASSUME Typed, RecordsKept, NEW d \in Dispatchers, Dispatch(d)
    PROVE  RecordsKept'
<1> DEFINE n == Len(runs) + 1
<1>1. /\ UNCHANGED <<records, snap>>
      /\ at[d] \in Recorded /\ at'[d] \notin Recorded
      /\ \A e \in Dispatchers : e # d => at'[e] = at[e]
      /\ runs' \in {runs, NewRun(snap[d], "main", "authority")}
  BY DEF Dispatch, Goto, Typed, Recorded, refVars
<1>2. CASE runs' = runs
  BY <1>1, <1>2, NoNewRecord
<1>3. CASE runs' # runs
  <2>1. snap[d] \in Snapshot  BY DEF Typed
  <2>2. /\ \A i \in DOMAIN runs : runs'[i] = runs[i]
        /\ runs'[n].rid = snap[d]
    BY <1>3, DispatchAdds
  <2>3. \A i \in DOMAIN runs' : i = n \/ i \in DOMAIN runs
    BY <1>3, DispatchAdds
  <2>4. runs'[n].rid = snap[d]
    BY <2>2
  <2>5. \A i \in ByAuthority' : i = n \/ (i \in ByAuthority /\ runs'[i] = runs[i])
    BY <2>2, <2>3 DEF ByAuthority
  <2>6. /\ snap[d] \in records
        /\ \A i \in DOMAIN runs : runs[i].rid # snap[d]
        /\ ByAuthority \subseteq DOMAIN runs
    BY <1>1 DEF RecordsKept, ByAuthority
  <2>7. \A e \in Dispatchers : at'[e] \in Recorded => at[e] \in Recorded /\ snap[e] # snap[d]
    BY <1>1 DEF RecordsKept
  <2>8. \A i \in DOMAIN runs' :
          /\ runs'[i].rid \in records
          /\ \A e \in Dispatchers : at'[e] \in Recorded => snap[e] # runs'[i].rid
    BY <2>2, <2>3, <2>4, <2>6, <2>7 DEF RecordsKept
  <2>9. \A i, j \in ByAuthority' : runs'[i].rid = runs'[j].rid => i = j
    BY <2>4, <2>5, <2>6 DEF RecordsKept
  <2> QED  BY <1>1, <2>7, <2>8, <2>9 DEF RecordsKept
<1> QED  BY <1>1, <1>2, <1>3

LEMMA RecordsPreserved ==
    Typed /\ RecordsKept /\ [DispatchNext]_dispatchVars => RecordsKept'
<1> SUFFICES ASSUME Typed, RecordsKept, [DispatchNext]_dispatchVars PROVE RecordsKept'
    OBVIOUS
<1>1. ASSUME NEW d \in Dispatchers, NEW a \in Auths \cup {NoAuth}, Start(d, a)
      PROVE  RecordsKept'
  <2>1. /\ UNCHANGED <<records, runs>> /\ at'[d] = "plan"
        /\ \A e \in Dispatchers : e # d => at'[e] = at[e] /\ snap'[e] = snap[e]
    BY <1>1 DEF Start, Goto, Typed, refVars
  <2> QED  BY <2>1, NoNewRecord DEF Recorded
<1>2. ASSUME NEW d \in Dispatchers, DispatcherStep(d) PROVE RecordsKept'
  <2>1. CASE ReadPlan(d) \/ ReadGate(d) \/ ReadRegistry(d) \/ Admit(d)
             \/ ListActive(d) \/ CheckConsumed(d) \/ Reserve(d)
    <3>1. /\ UNCHANGED <<records, runs>> /\ at'[d] \notin Recorded
          /\ \A e \in Dispatchers : e # d => at'[e] = at[e] /\ snap'[e] = snap[e]
      BY <2>1 DEF ReadPlan, ReadGate, ReadRegistry, Admit, ListActive,
                  CheckConsumed, Reserve, Goto, Typed, refVars, Recorded
    <3> QED  BY <3>1, NoNewRecord
  <2>2. CASE Consume(d) \/ CheckDrift(d) \/ DeleteActive(d)
    <3>1. /\ UNCHANGED <<records, runs, snap>>
          /\ at'[d] \in Recorded => at[d] \in Recorded
          /\ \A e \in Dispatchers : e # d => at'[e] = at[e]
      BY <2>2 DEF Consume, CheckDrift, DeleteActive, Goto, Typed, refVars, Recorded
    <3> QED  BY <3>1, NoNewRecord
  <2> QED
    BY <1>2, <2>1, <2>2, RecordKeepsRecords, DeleteKeepsRecords, DispatchKeepsRecords
       DEF DispatcherStep
<1>3. ASSUME NEW d \in Dispatchers, Crash(d) PROVE RecordsKept'
  <2>1. /\ UNCHANGED <<records, runs, snap>> /\ at'[d] = "crashed"
        /\ \A e \in Dispatchers : e # d => at'[e] = at[e]
    BY <1>3 DEF Crash, Goto, Typed, refVars
  <2> QED  BY <2>1, NoNewRecord DEF Recorded
<1>4. ASSUME Surroundings PROVE RecordsKept'
  <2>1. CASE \/ \E c \in Contents : PushTarget(c)
             \/ BeginMint \/ AbandonMint
             \/ \E a \in Auths : PublishAuthorization(a) \/ Expire(a)
             \/ \E w \in Works : Adjudicate(w)
    <3>1. UNCHANGED <<records, runs, at, snap>>
      BY <2>1 DEF PushTarget, BeginMint, AbandonMint, PublishAuthorization, Expire,
                  Adjudicate, refVars
    <3> QED  BY <3>1 DEF RecordsKept, ByAuthority
  <2>2. ASSUME NEW rid \in records, OperatorDispatch(rid) PROVE RecordsKept'
    <3>1. UNCHANGED <<records, at, snap>>  BY <2>2 DEF OperatorDispatch, refVars
    <3>2. \A d \in Dispatchers : at[d] \in Recorded => snap[d] # rid
      BY <2>2 DEF OperatorDispatch, Recorded, Holding
    <3>3. \A i \in DOMAIN runs' : runs'[i].rid = rid \/ (i \in DOMAIN runs /\ runs'[i] = runs[i])
      BY <2>2, OperatorAdds
    <3> QED  BY <2>2, <3>1, <3>2, <3>3, OperatorAddsNone DEF RecordsKept
  <2> QED  BY <1>4, <2>1, <2>2 DEF Surroundings
<1>5. CASE UNCHANGED dispatchVars
  BY <1>5 DEF dispatchVars, refVars, RecordsKept, ByAuthority
<1> QED  BY <1>1, <1>2, <1>3, <1>4, <1>5 DEF DispatchNext

(* Neither lost answers nor a cleared active ref make the authority start  *)
(* a second worker on the reservation of a first.                          *)
THEOREM ReservationsDispatchOnce == DispatchSpec => []OneDispatchPerReservation
<1>1. DispatchInit => RecordsKept
  BY DEF DispatchInit, RecordsKept, ByAuthority, Recorded
<1>2. RecordsKept => OneDispatchPerReservation
  BY DEF RecordsKept, OneDispatchPerReservation
<1> QED
  BY <1>1, <1>2, RecordsPreserved, TypedInvariant, PTL DEF DispatchSpec

-----------------------------------------------------------------------------
(* The authorizations.  One that admitted a dispatcher was minted for the  *)
(* commit and the plan it read, and is never minted again; who consumed it *)
(* has it alone, and so has the worker.                                    *)
Spending == {"drift", "dispatch"}
Minted(s) == auths[s.auth] = [sha |-> s.sha, plan |-> s.plan]

Authorized ==
    /\ auths \in [Auths -> [sha : Nat, plan : Works \cup {NoWork}]] /\ minting \in Nat
    /\ \A d \in Dispatchers : at[d] \in Admitted =>
        /\ snap[d].held => snap[d].auth # NoAuth
        /\ snap[d].auth # NoAuth => Minted(snap[d])
    /\ \A i \in ByAuthority :
        /\ runs[i].rid.held => runs[i].rid.auth # NoAuth
        /\ runs[i].rid.auth # NoAuth => Minted(runs[i].rid)

SpentAlone ==
    /\ \A d \in Dispatchers :
        at[d] \in Spending /\ snap[d].auth # NoAuth => snap[d].auth \in consumed
    /\ \A d, e \in Dispatchers :
        /\ at[d] \in Spending /\ at[e] \in Spending
        /\ snap[d].auth # NoAuth /\ snap[d].auth = snap[e].auth
        => d = e
    /\ \A i \in ByAuthority :
        runs[i].rid.auth # NoAuth => runs[i].rid.auth \in consumed
    /\ \A i \in ByAuthority, d \in Dispatchers :
        at[d] \in Spending /\ snap[d].auth # NoAuth => snap[d].auth # runs[i].rid.auth
    /\ \A i, j \in ByAuthority :
        runs[i].rid.auth # NoAuth /\ runs[i].rid.auth = runs[j].rid.auth => i = j

LEMMA AuthorizedPreserved ==
    Typed /\ Snapshots /\ Authorized /\ [DispatchNext]_dispatchVars => Authorized'
<1> SUFFICES ASSUME Typed, Snapshots, Authorized, [DispatchNext]_dispatchVars
             PROVE  Authorized'
    OBVIOUS
(* Most steps neither mint nor admit.                                      *)
<1>0. ASSUME UNCHANGED <<auths, minting, runs>>,
             \A d \in Dispatchers : at'[d] \in Admitted => at[d] \in Admitted /\ snap'[d] = snap[d]
      PROVE  Authorized'
  BY <1>0 DEF Authorized, Minted, ByAuthority
<1>1. ASSUME NEW d \in Dispatchers, NEW a \in Auths \cup {NoAuth}, Start(d, a)
      PROVE  Authorized'
  <2>1. /\ UNCHANGED <<auths, minting, runs>> /\ at'[d] = "plan"
        /\ \A e \in Dispatchers : e # d => at'[e] = at[e] /\ snap'[e] = snap[e]
    BY <1>1 DEF Start, Goto, Typed, mintVars
  <2> QED  BY <1>0, <2>1 DEF Admitted
<1>2. ASSUME NEW d \in Dispatchers, DispatcherStep(d) PROVE Authorized'
  <2>1. CASE ReadPlan(d) \/ ReadGate(d) \/ ReadRegistry(d)
    <3>1. /\ UNCHANGED <<auths, minting, runs>> /\ at'[d] \in {"gate", "registry", "admit"}
          /\ \A e \in Dispatchers : e # d => at'[e] = at[e] /\ snap'[e] = snap[e]
      BY <2>1 DEF ReadPlan, ReadGate, ReadRegistry, Goto, Typed, mintVars
    <3> QED  BY <1>0, <3>1 DEF Admitted
  <2>2. CASE Admit(d)
    <3>1. /\ UNCHANGED <<auths, minting, runs, snap>> /\ at'[d] \in {"listing", "refused"}
          /\ at'[d] = "listing" => Admissible(snap[d])
          /\ \A e \in Dispatchers : e # d => at'[e] = at[e]
      BY <2>2 DEF Admit, Goto, Typed, mintVars
    <3>2. CASE at'[d] = "listing"
      <4>1. /\ snap[d].held => snap[d].auth # NoAuth
            /\ snap[d].auth # NoAuth =>
                snap[d].auth \in Auths /\ auths[snap[d].auth].sha = snap[d].sha
                /\ auths[snap[d].auth].plan = snap[d].plan
        BY <3>1, <3>2 DEF Admissible, AuthorizationValid, Typed, Snapshot
      <4>2. snap[d].auth # NoAuth => Minted(snap[d])
        BY <4>1 DEF Minted, Authorized
      <4> QED  BY <3>1, <3>2, <4>1, <4>2 DEF Authorized, Minted, ByAuthority
    <3>3. CASE at'[d] = "refused"
      BY <1>0, <3>1, <3>3 DEF Admitted, Busy, Reading, Holding
    <3> QED  BY <3>1, <3>2, <3>3
  <2>3. CASE \/ ListActive(d) \/ CheckConsumed(d) \/ Reserve(d) \/ Record(d)
             \/ Consume(d) \/ CheckDrift(d) \/ DeleteActive(d) \/ DeleteRecord(d)
    <3>1. /\ UNCHANGED <<auths, minting, runs, snap>> /\ at[d] \in Admitted
          /\ \A e \in Dispatchers : e # d => at'[e] = at[e]
      BY <2>3 DEF ListActive, CheckConsumed, Reserve, Record, Consume, CheckDrift,
                  DeleteActive, DeleteRecord, Goto, Typed, mintVars, Admitted, Busy,
                  Reading, Holding
    <3> QED  BY <1>0, <3>1
  <2>4. CASE Dispatch(d)
    <3>1. /\ UNCHANGED <<auths, minting, snap>> /\ at[d] \in Admitted
          /\ \A e \in Dispatchers : e # d => at'[e] = at[e]
      BY <2>4 DEF Dispatch, Goto, Typed, mintVars, Admitted, Busy, Holding
    <3>2. CASE runs' = runs
      BY <1>0, <3>1, <3>2
    <3>3. CASE runs' # runs
      <4>1. \A i \in ByAuthority' :
              runs'[i].rid = snap[d] \/ (i \in ByAuthority /\ runs'[i] = runs[i])
        BY <2>4, <3>3, DispatchAdds DEF ByAuthority
      <4> QED  BY <3>1, <4>1 DEF Authorized, Minted
    <3> QED  BY <3>2, <3>3
  <2> QED  BY <1>2, <2>1, <2>2, <2>3, <2>4 DEF DispatcherStep
<1>3. ASSUME NEW d \in Dispatchers, Crash(d) PROVE Authorized'
  <2>1. /\ UNCHANGED <<auths, minting, runs, snap>> /\ at'[d] = "crashed"
        /\ \A e \in Dispatchers : e # d => at'[e] = at[e]
    BY <1>3 DEF Crash, Goto, Typed, mintVars
  <2> QED  BY <1>0, <2>1 DEF Admitted, Busy, Reading, Holding
<1>4. ASSUME NEW a \in Auths, PublishAuthorization(a) PROVE Authorized'
  <2>1. /\ UNCHANGED <<commits, runs, at, snap>>
        /\ auths[a].sha = 0 /\ auths' = [auths EXCEPT ![a] = [sha |-> minting, plan |-> Latest.plan]]
    BY <1>4 DEF PublishAuthorization
  <2>2. \A s \in Snapshot : s.sha # 0 /\ s.auth # NoAuth /\ Minted(s) => Minted(s)'
    BY <2>1 DEF Minted, Authorized, Snapshot
  <2>3. \A d \in Dispatchers : at[d] \in Admitted => snap[d] \in Snapshot /\ snap[d].sha # 0
    BY DEF Snapshots, Typed, Admitted
  <2>4. \A i \in ByAuthority : runs[i].rid \in Snapshot /\ runs[i].rid.sha # 0
    <3>1. \A i \in DOMAIN runs : runs[i] \in Run  BY DEF Typed
    <3> QED  BY <3>1 DEF Snapshots, SameFiles, Run, ByAuthority
  <2>5. auths' \in [Auths -> [sha : Nat, plan : Works \cup {NoWork}]]
    <3>1. minting \in Nat /\ Latest \in Content
      BY DEF Authorized, Typed, Latest, Tip
    <3>2. Latest.plan \in Works \cup {NoWork}
      BY <3>1 DEF Content
    <3> QED  BY <2>1, <3>1, <3>2 DEF Authorized
  <2>6. minting' \in Nat
    BY <1>4 DEF PublishAuthorization
  <2> QED  BY <2>1, <2>2, <2>3, <2>4, <2>5, <2>6 DEF Authorized, Minted, ByAuthority
<1>5. ASSUME Surroundings, \A a \in Auths : ~PublishAuthorization(a) PROVE Authorized'
  <2>1. UNCHANGED <<auths, at, snap>> /\ minting' \in {minting, Tip, 0}
    BY <1>5 DEF Surroundings, PushTarget, BeginMint, AbandonMint, Expire,
                OperatorDispatch, Adjudicate, mintVars
  <2>2. \A i \in ByAuthority' : i \in ByAuthority /\ runs'[i] = runs[i]
    BY <1>5, OperatorAddsNone DEF Surroundings, PushTarget, BeginMint, AbandonMint, Expire,
                Adjudicate, ByAuthority
  <2>3. minting' \in Nat
    BY <2>1 DEF Authorized, Tip, Typed
  <2> QED  BY <2>1, <2>2, <2>3 DEF Authorized, Minted
<1>6. CASE UNCHANGED dispatchVars
  BY <1>0, <1>6 DEF dispatchVars, mintVars
<1> QED  BY <1>1, <1>2, <1>3, <1>4, <1>5, <1>6 DEF DispatchNext, Surroundings

LEMMA SpentPreserved ==
    Typed /\ SpentAlone /\ [DispatchNext]_dispatchVars => SpentAlone'
<1> SUFFICES ASSUME Typed, SpentAlone, [DispatchNext]_dispatchVars PROVE SpentAlone'
    OBVIOUS
<1>0. ASSUME consumed \subseteq consumed',
             \A i \in ByAuthority' : i \in ByAuthority /\ runs'[i] = runs[i],
             \A d \in Dispatchers : at'[d] \in Spending => at[d] \in Spending /\ snap'[d] = snap[d]
      PROVE  SpentAlone'
  BY <1>0 DEF SpentAlone
<1>1. ASSUME NEW d \in Dispatchers, NEW a \in Auths \cup {NoAuth}, Start(d, a)
      PROVE  SpentAlone'
  <2>1. /\ UNCHANGED <<consumed, runs>> /\ at'[d] = "plan" /\ ByAuthority' = ByAuthority
        /\ \A e \in Dispatchers : e # d => at'[e] = at[e] /\ snap'[e] = snap[e]
    BY <1>1 DEF Start, Goto, Typed, refVars, ByAuthority
  <2> QED  BY <1>0, <2>1 DEF Spending
<1>2. ASSUME NEW d \in Dispatchers, DispatcherStep(d) PROVE SpentAlone'
  <2>1. CASE \/ ReadPlan(d) \/ ReadGate(d) \/ ReadRegistry(d) \/ Admit(d) \/ ListActive(d)
             \/ CheckConsumed(d) \/ Reserve(d) \/ Record(d) \/ DeleteActive(d) \/ DeleteRecord(d)
    <3>1. /\ UNCHANGED <<consumed, runs>> /\ at'[d] \notin Spending /\ ByAuthority' = ByAuthority
          /\ \A e \in Dispatchers : e # d => at'[e] = at[e] /\ snap'[e] = snap[e]
      BY <2>1 DEF ReadPlan, ReadGate, ReadRegistry, Admit, ListActive, CheckConsumed, Reserve,
                  Record, DeleteActive, DeleteRecord, Goto, Typed, refVars, Spending, ByAuthority
    <3> QED  BY <1>0, <3>1
  <2>2. CASE Consume(d)
    <3>1. /\ UNCHANGED <<runs, snap>> /\ ByAuthority' = ByAuthority
          /\ consumed \subseteq consumed' /\ at'[d] \in {"drift", "revoke"}
          /\ at'[d] = "drift" /\ snap[d].auth # NoAuth =>
                snap[d].auth \notin consumed /\ snap[d].auth \in consumed'
          /\ \A e \in Dispatchers : e # d => at'[e] = at[e]
      BY <2>2 DEF Consume, CreateAnswers, Made, Goto, Typed, ByAuthority
    <3>2. \A e \in Dispatchers : at'[e] \in Spending =>
            at[e] \in Spending \/ (e = d /\ at'[d] = "drift")
      BY <3>1 DEF Spending
    <3> QED  BY <3>1, <3>2 DEF SpentAlone
  <2>3. CASE CheckDrift(d)
    <3>1. /\ UNCHANGED <<consumed, runs, snap>> /\ at[d] \in Spending /\ ByAuthority' = ByAuthority
          /\ \A e \in Dispatchers : e # d => at'[e] = at[e]
      BY <2>3 DEF CheckDrift, Goto, Typed, refVars, Spending, ByAuthority
    <3> QED  BY <1>0, <3>1
  <2>4. CASE Dispatch(d)
    <3>1. /\ UNCHANGED <<consumed, snap>> /\ at[d] \in Spending /\ at'[d] \notin Spending
          /\ \A e \in Dispatchers : e # d => at'[e] = at[e]
      BY <2>4 DEF Dispatch, Goto, Typed, refVars, Spending
    <3>2. \A e \in Dispatchers : at'[e] \in Spending => at[e] \in Spending /\ e # d
      BY <3>1
    <3>3. CASE runs' = runs
      BY <1>0, <3>1, <3>2, <3>3 DEF ByAuthority
    <3>4. CASE runs' # runs
      <4>1. \A i \in ByAuthority' :
              \/ i = Len(runs) + 1 /\ runs'[i].rid = snap[d]
              \/ i \in ByAuthority /\ runs'[i] = runs[i]
        BY <2>4, <3>4, DispatchAdds DEF ByAuthority
      <4> QED  BY <3>1, <3>2, <4>1 DEF SpentAlone
    <3> QED  BY <3>3, <3>4
  <2> QED  BY <1>2, <2>1, <2>2, <2>3, <2>4 DEF DispatcherStep
<1>3. ASSUME NEW d \in Dispatchers, Crash(d) PROVE SpentAlone'
  <2>1. /\ UNCHANGED <<consumed, runs, snap>> /\ at'[d] = "crashed" /\ ByAuthority' = ByAuthority
        /\ \A e \in Dispatchers : e # d => at'[e] = at[e]
    BY <1>3 DEF Crash, Goto, Typed, refVars, ByAuthority
  <2> QED  BY <1>0, <2>1 DEF Spending
<1>4. ASSUME Surroundings PROVE SpentAlone'
  <2>1. UNCHANGED <<consumed, at, snap>>
    BY <1>4 DEF Surroundings, PushTarget, BeginMint, AbandonMint, PublishAuthorization, Expire,
                OperatorDispatch, Adjudicate, refVars
  <2>2. \A i \in ByAuthority' : i \in ByAuthority /\ runs'[i] = runs[i]
    BY <1>4, OperatorAddsNone DEF Surroundings, PushTarget, BeginMint, AbandonMint,
                PublishAuthorization, Expire, Adjudicate, ByAuthority
  <2> QED  BY <1>0, <2>1, <2>2
<1>5. CASE UNCHANGED dispatchVars
  BY <1>0, <1>5 DEF dispatchVars, refVars, ByAuthority
<1> QED  BY <1>1, <1>2, <1>3, <1>4, <1>5 DEF DispatchNext

(* Behind a held gate every worker costs an authorization of its own,      *)
(* minted for its commit and plan, whoever races for it and whatever fails *)
(* between its consumption and the dispatch.                               *)
THEOREM AuthorizationsAreSpentOnce == DispatchSpec => []HeldGateSpendsAuthorization
<1>1. DispatchInit => Authorized /\ SpentAlone
  BY DEF DispatchInit, Authorized, SpentAlone, ByAuthority, Admitted, Busy, Reading, Holding,
         Spending
<1>2. Snapshots /\ Authorized /\ SpentAlone => HeldGateSpendsAuthorization
  BY DEF Snapshots, SameFiles, Authorized, SpentAlone, Minted, HeldGateSpendsAuthorization
<1> QED
  BY <1>1, <1>2, AuthorizedPreserved, SpentPreserved, SnapshotsInvariant, TypedInvariant, PTL
     DEF DispatchSpec

-----------------------------------------------------------------------------
(* The refs.  As long as nothing has failed, each has its dispatcher or    *)
(* its run.                                                                *)
RecordOwned(rid) ==
    \/ \E d \in Dispatchers : snap[d] = rid /\ at[d] \in Recorded
    \/ \E i \in DOMAIN runs : runs[i].rid = rid

Owned ==
    /\ \A w \in Works : active[w] # 0 => Held(w)
    /\ \A rid \in records : RecordOwned(rid)

LEMMA OrphansAreOwned == OrphansComeFromFaults <=> (faults = 0 => Owned)
BY DEF OrphansComeFromFaults, Owned, RecordOwned, Recorded

LEMMA FaultsAreCounted ==
    faults \in Nat /\ [DispatchNext]_dispatchVars
        => faults' \in Nat /\ (faults' = 0 => faults = 0)
<1> SUFFICES ASSUME faults \in Nat, [DispatchNext]_dispatchVars
             PROVE  faults' \in {faults, faults + 1}
    OBVIOUS
<1>1. ASSUME NEW d \in Dispatchers, NEW a \in Auths \cup {NoAuth}, Start(d, a)
      PROVE  faults' = faults
  BY <1>1 DEF Start
<1>2. ASSUME NEW d \in Dispatchers, DispatcherStep(d) PROVE faults' \in {faults, faults + 1}
  <2>1. CASE ReadPlan(d) \/ ReadGate(d) \/ ReadRegistry(d) \/ Admit(d) \/ ListActive(d)
             \/ CheckDrift(d)
    BY <2>1 DEF ReadPlan, ReadGate, ReadRegistry, Admit, ListActive, CheckDrift
  <2>2. CASE CheckConsumed(d) \/ Reserve(d) \/ Record(d) \/ Consume(d)
    BY <2>2 DEF CheckConsumed, Reserve, Record, Consume, Count
  <2>3. CASE DeleteActive(d) \/ DeleteRecord(d) \/ Dispatch(d)
    BY <2>3 DEF DeleteActive, DeleteRecord, Dispatch, Count
  <2> QED  BY <1>2, <2>1, <2>2, <2>3 DEF DispatcherStep
<1>3. ASSUME NEW d \in Dispatchers, Crash(d) PROVE faults' = faults + 1
  BY <1>3 DEF Crash
<1>4. CASE Surroundings
  BY <1>4 DEF Surroundings, PushTarget, BeginMint, AbandonMint, PublishAuthorization, Expire,
              OperatorDispatch, Adjudicate
<1>5. CASE UNCHANGED dispatchVars
  BY <1>5 DEF dispatchVars
<1> QED  BY <1>1, <1>2, <1>3, <1>4, <1>5 DEF DispatchNext

(* A step that makes no ref leaves every owner where it is.                *)
LEMMA OwnersStay ==
    ASSUME Owned,
           \A w \in Works : active'[w] # 0 => active'[w] = active[w],
           records' \subseteq records,
           \A i \in DOMAIN runs : i \in DOMAIN runs' /\ runs'[i].rid = runs[i].rid,
           \A e \in Dispatchers :
               /\ at[e] \in Holding => at'[e] \in Holding /\ snap'[e] = snap[e]
               /\ at[e] \in Recorded => at'[e] \in Recorded /\ snap'[e] = snap[e]
    PROVE  Owned'
<1>1. \A w \in Works : active'[w] # 0 => Held(w)'
  BY DEF Owned, Held
<1>2. \A rid \in records' : RecordOwned(rid)'
  BY DEF Owned, RecordOwned
<1> QED  BY <1>1, <1>2 DEF Owned

LEMMA ReserveOwns ==
    ASSUME Typed, Owned, NEW d \in Dispatchers, Reserve(d), faults \in Nat, faults' = 0
    PROVE  Owned'
<1>1. PICK answer \in CreateAnswers(active[snap[d].plan] # 0) :
        /\ active' = IF Made(answer) THEN [active EXCEPT ![snap[d].plan] = snap[d].sha] ELSE active
        /\ Goto(d, IF answer = "created" THEN "record" ELSE "refused")
        /\ Count(answer)
  BY DEF Reserve
<1>2. answer \in {"created", "conflict"}
  BY <1>1 DEF Count, CreateAnswers
<1>3. /\ UNCHANGED <<records, runs, snap>> /\ at[d] = "reserve"
      /\ \A e \in Dispatchers : e # d => at'[e] = at[e]
  BY <1>1 DEF Reserve, Goto, Typed
<1>4. \A e \in Dispatchers :
        /\ at[e] \in Holding => at'[e] \in Holding
        /\ at[e] \in Recorded => at'[e] \in Recorded
  BY <1>3 DEF Holding, Recorded
<1>5. CASE answer = "conflict"
  <2>1. active' = active  BY <1>1, <1>5 DEF Made
  <2> QED  BY <1>3, <1>4, <2>1, OwnersStay
<1>6. CASE answer = "created"
  <2>1. active' = [active EXCEPT ![snap[d].plan] = snap[d].sha] /\ at'[d] \in Holding
    BY <1>1, <1>6 DEF Made, Goto, Typed, Holding
  <2>2. ASSUME NEW w \in Works, active'[w] # 0 PROVE Held(w)'
    <3>1. CASE w = snap[d].plan
      <4>1. active'[w] = snap[d].sha  BY <2>1, <3>1 DEF Typed
      <4> QED  BY <1>3, <2>1, <3>1, <4>1 DEF Held
    <3>2. CASE w # snap[d].plan
      <4>1. active'[w] = active[w]  BY <2>1, <3>2 DEF Typed
      <4> QED  BY <1>3, <1>4, <2>2, <4>1 DEF Held, Owned
    <3> QED  BY <3>1, <3>2
  <2>3. \A rid \in records' : RecordOwned(rid)'
    BY <1>3, <1>4 DEF Owned, RecordOwned
  <2> QED  BY <2>2, <2>3 DEF Owned
<1> QED  BY <1>2, <1>5, <1>6

LEMMA RecordOwns ==
    ASSUME Typed, Owned, NEW d \in Dispatchers, Record(d), faults \in Nat, faults' = 0
    PROVE  Owned'
<1>1. PICK answer \in CreateAnswers(snap[d] \in records) :
        /\ records' = IF Made(answer) THEN records \cup {snap[d]} ELSE records
        /\ Goto(d, IF answer = "created" THEN "consume" ELSE "retreat")
        /\ Count(answer)
  BY DEF Record
<1>2. answer \in {"created", "conflict"}
  BY <1>1 DEF Count, CreateAnswers
<1>3. /\ UNCHANGED <<active, runs, snap>> /\ at[d] = "record"
      /\ \A e \in Dispatchers : e # d => at'[e] = at[e]
      /\ at'[d] = IF answer = "created" THEN "consume" ELSE "retreat"
  BY <1>1 DEF Record, Goto, Typed
<1>4. \A e \in Dispatchers :
        /\ at[e] \in Holding => at'[e] \in Holding
        /\ at[e] \in Recorded => at'[e] \in Recorded
  BY <1>3 DEF Holding, Recorded
<1>5. \A w \in Works : active'[w] # 0 => Held(w)'
  BY <1>3, <1>4 DEF Owned, Held
<1>6. ASSUME NEW rid \in records' PROVE RecordOwned(rid)'
  <2>1. CASE rid \in records
    BY <1>3, <1>4, <2>1 DEF Owned, RecordOwned
  <2>2. CASE rid \notin records
    <3>1. answer = "created" /\ rid = snap[d]
      BY <1>1, <1>2, <1>6, <2>2 DEF Made
    <3>2. at'[d] \in Recorded /\ snap'[d] = rid
      BY <1>3, <3>1 DEF Recorded
    <3> QED  BY <3>2 DEF RecordOwned
  <2> QED  BY <2>1, <2>2
<1> QED  BY <1>5, <1>6 DEF Owned

LEMMA DeleteActiveOwns ==
    ASSUME Typed, Owned, NEW d \in Dispatchers, DeleteActive(d), faults \in Nat, faults' = 0
    PROVE  Owned'
<1>1. PICK answer \in DeleteAnswers :
        /\ active' = IF answer = "deleted"
                     THEN [active EXCEPT ![snap[d].plan] = 0] ELSE active
        /\ Count(answer)
  BY DEF DeleteActive
<1>2. answer = "deleted"
  BY <1>1 DEF Count, DeleteAnswers
<1>3. /\ UNCHANGED <<records, runs, snap>> /\ at[d] \in {"retreat", "revoke"}
      /\ \A e \in Dispatchers : e # d => at'[e] = at[e]
      /\ at'[d] = IF at[d] = "retreat" THEN "refused" ELSE "revokeRecord"
      /\ active' = [active EXCEPT ![snap[d].plan] = 0]
  BY <1>1, <1>2 DEF DeleteActive, Goto, Typed
<1>4. ASSUME NEW w \in Works, active'[w] # 0 PROVE Held(w)'
  <2>1. w # snap[d].plan /\ active'[w] = active[w]
    BY <1>3, <1>4 DEF Typed
  <2> QED  BY <1>3, <1>4, <2>1 DEF Owned, Held
<1>5. \A e \in Dispatchers : at[e] \in Recorded => at'[e] \in Recorded
  BY <1>3 DEF Recorded
<1>6. \A rid \in records' : RecordOwned(rid)'
  BY <1>3, <1>5 DEF Owned, RecordOwned
<1> QED  BY <1>4, <1>6 DEF Owned

LEMMA DeleteRecordOwns ==
    ASSUME Typed, Owned, NEW d \in Dispatchers, DeleteRecord(d), faults \in Nat, faults' = 0
    PROVE  Owned'
<1>1. PICK answer \in DeleteAnswers :
        /\ records' = IF answer = "deleted" THEN records \ {snap[d]} ELSE records
        /\ Count(answer)
  BY DEF DeleteRecord
<1>2. answer = "deleted"
  BY <1>1 DEF Count, DeleteAnswers
<1>3. /\ UNCHANGED <<active, runs, snap>> /\ at[d] = "revokeRecord"
      /\ \A e \in Dispatchers : e # d => at'[e] = at[e]
      /\ records' = records \ {snap[d]}
  BY <1>1, <1>2 DEF DeleteRecord, Goto, Typed
<1>4. \A w \in Works : active'[w] # 0 => Held(w)'
  BY <1>3 DEF Owned, Held, Holding
<1>5. \A rid \in records' : RecordOwned(rid)'
  BY <1>3 DEF Owned, RecordOwned
<1> QED  BY <1>4, <1>5 DEF Owned

LEMMA DispatchOwns ==
    ASSUME Typed, Owned, NEW d \in Dispatchers, Dispatch(d), faults \in Nat, faults' = 0
    PROVE  Owned'
<1> DEFINE n == Len(runs) + 1
<1>1. PICK answer \in CreateAnswers(FALSE) :
        /\ runs' = IF Made(answer) THEN NewRun(snap[d], "main", "authority") ELSE runs
        /\ Count(answer)
  BY DEF Dispatch
<1>2. answer = "created"
  BY <1>1 DEF Count, CreateAnswers
<1>3. runs' = NewRun(snap[d], "main", "authority") /\ snap[d] \in Snapshot /\ runs \in Seq(Run)
  BY <1>1, <1>2 DEF Made, Typed
<1>4. /\ \A i \in DOMAIN runs : i \in DOMAIN runs' /\ runs'[i] = runs[i]
      /\ n \in DOMAIN runs' /\ runs'[n].rid = snap[d]
  <2>1. /\ runs' \in Seq(Run) /\ Len(runs') = n
        /\ \A i \in DOMAIN runs : runs'[i] = runs[i]
        /\ runs'[n] = [rid |-> snap[d], branch |-> "main", by |-> "authority", over |-> FALSE]
    BY <1>3, RunAdded, Zenon
  <2> QED  BY <1>3, <2>1
<1>5. /\ UNCHANGED <<active, records, snap>>
      /\ \A e \in Dispatchers : e # d => at'[e] = at[e]
  BY DEF Dispatch, Goto, Typed, refVars
<1>6. ASSUME NEW w \in Works, active'[w] # 0 PROVE Held(w)'
  <2>1. Held(w)  BY <1>5, <1>6 DEF Owned
  <2>2. CASE \E i \in DOMAIN runs : runs[i].rid.plan = w /\ runs[i].rid.sha = active[w]
    BY <1>4, <1>5, <2>2 DEF Held
  <2>3. CASE \E e \in Dispatchers :
               at[e] \in Holding /\ snap[e].plan = w /\ snap[e].sha = active[w]
    BY <1>4, <1>5, <2>3 DEF Held
  <2> QED  BY <2>1, <2>2, <2>3 DEF Held
<1>7. ASSUME NEW rid \in records' PROVE RecordOwned(rid)'
  <2>1. RecordOwned(rid)  BY <1>5, <1>7 DEF Owned
  <2> QED  BY <1>4, <1>5, <2>1 DEF RecordOwned
<1> QED  BY <1>6, <1>7 DEF Owned

LEMMA OwnedPreserved ==
    ASSUME Typed, Owned, faults \in Nat, [DispatchNext]_dispatchVars, faults' = 0
    PROVE  Owned'
<1>1. ASSUME NEW d \in Dispatchers, NEW a \in Auths \cup {NoAuth}, Start(d, a)
      PROVE  Owned'
  <2>1. /\ UNCHANGED <<active, records, runs>> /\ at[d] \in Ended
        /\ \A e \in Dispatchers : e # d => at'[e] = at[e] /\ snap'[e] = snap[e]
    BY <1>1 DEF Start, Goto, Typed, refVars
  <2> QED  BY <2>1, OwnersStay DEF Ended, Holding, Recorded
<1>2. ASSUME NEW d \in Dispatchers, DispatcherStep(d) PROVE Owned'
  <2>1. CASE ReadPlan(d) \/ ReadGate(d) \/ ReadRegistry(d)
    <3>1. /\ UNCHANGED <<active, records, runs>> /\ at[d] \in Reading
          /\ \A e \in Dispatchers : e # d => at'[e] = at[e] /\ snap'[e] = snap[e]
      BY <2>1 DEF ReadPlan, ReadGate, ReadRegistry, Goto, Typed, refVars, Reading
    <3> QED  BY <3>1, OwnersStay DEF Reading, Holding, Recorded
  <2>2. CASE Admit(d) \/ ListActive(d) \/ CheckConsumed(d)
    <3>1. /\ UNCHANGED <<active, records, runs, snap>> /\ at[d] \in Reading
          /\ \A e \in Dispatchers : e # d => at'[e] = at[e]
      BY <2>2 DEF Admit, ListActive, CheckConsumed, Goto, Typed, refVars, Reading
    <3> QED  BY <3>1, OwnersStay DEF Reading, Holding, Recorded
  <2>3. CASE Consume(d) \/ CheckDrift(d)
    <3>1. /\ UNCHANGED <<active, records, runs, snap>>
          /\ at'[d] \in {"drift", "dispatch", "revoke"}
          /\ \A e \in Dispatchers : e # d => at'[e] = at[e]
      BY <2>3 DEF Consume, CheckDrift, Goto, Typed, refVars
    <3>2. \A e \in Dispatchers :
            /\ at[e] \in Holding => at'[e] \in Holding
            /\ at[e] \in Recorded => at'[e] \in Recorded
      BY <3>1 DEF Holding, Recorded
    <3> QED  BY <3>1, <3>2, OwnersStay
  <2> QED
    BY <1>2, <2>1, <2>2, <2>3, ReserveOwns, RecordOwns, DeleteActiveOwns, DeleteRecordOwns,
       DispatchOwns DEF DispatcherStep
<1>3. ASSUME NEW d \in Dispatchers, Crash(d) PROVE FALSE
  BY <1>3 DEF Crash
<1>4. CASE Surroundings
  <2>1. ASSUME NEW rid \in records, OperatorDispatch(rid) PROVE Owned'
    <3>1. UNCHANGED <<active, records, at, snap>>
      BY <2>1 DEF OperatorDispatch, refVars
    <3>2. \A i \in DOMAIN runs : i \in DOMAIN runs' /\ runs'[i] = runs[i]
      <4>1. /\ runs' \in Seq(Run) /\ Len(runs') = Len(runs) + 1 /\ runs \in Seq(Run)
            /\ \A i \in DOMAIN runs : runs'[i] = runs[i]
        BY <2>1, OperatorAdds DEF Typed
      <4> QED  BY <4>1
    <3> QED  BY <3>1, <3>2, OwnersStay
  <2>2. ASSUME NEW w \in Works, Adjudicate(w) PROVE Owned'
    <3>1. /\ UNCHANGED <<records, runs, at, snap>>
          /\ \A v \in Works : active'[v] # 0 => active'[v] = active[v]
      BY <2>2 DEF Adjudicate, Typed
    <3> QED  BY <3>1, OwnersStay
  <2>3. ASSUME UNCHANGED <<active, records, runs, at, snap>> PROVE Owned'
    BY <2>3, OwnersStay
  <2> QED
    BY <1>4, <2>1, <2>2, <2>3 DEF Surroundings, PushTarget, BeginMint, AbandonMint,
       PublishAuthorization, Expire, refVars
<1>5. CASE UNCHANGED dispatchVars
  BY <1>5, OwnersStay DEF dispatchVars, refVars
<1> QED  BY <1>1, <1>2, <1>3, <1>4, <1>5 DEF DispatchNext

(* No path of the script that goes as it should leaves a reservation or a  *)
(* record behind that no dispatcher and no worker answers for.             *)
THEOREM OrphansAreFaults == DispatchSpec => []OrphansComeFromFaults
<1> DEFINE I == faults \in Nat /\ (faults = 0 => Owned)
<1>1. DispatchInit => I
  BY DEF DispatchInit, Owned
<1>2. Typed /\ I /\ [DispatchNext]_dispatchVars => I'
  BY FaultsAreCounted, OwnedPreserved
<1>3. I => OrphansComeFromFaults
  BY OrphansAreOwned
<1> QED  BY <1>1, <1>2, <1>3, TypedInvariant, PTL DEF DispatchSpec

-----------------------------------------------------------------------------
(* The workers behind the dispatch.                                        *)

Steps == InGroup \cup {"queued", "cancelled", "done", "failed"}
Executing == {"executing", "judged", "projected", "reconciled", "pushed"}

(* There is a slot for every run there is or may come of a busy dispatcher. *)
BusyOnes == {d \in Dispatchers : at[d] \in Busy}

Places ==
    /\ Len(runs) + Cardinality(BusyOnes) <= MaxRuns
    /\ step \in [Slots -> Steps]
    /\ start \in [Slots -> Nat]
    /\ tree \in [Slots -> Works \cup {NoWork}]
    /\ \A i \in Slots \ DOMAIN runs : step[i] = "queued"
    /\ ran \subseteq DOMAIN runs

(* The ref of a dispatcher that holds a work is its own.                   *)
Reserving ==
    /\ \A d \in Dispatchers : at[d] \in Admitted => snap[d].plan \in snap[d].ready
    /\ \A d \in Dispatchers : at[d] \in Holding => active[snap[d].plan] = snap[d].sha
    /\ \A d, e \in Dispatchers :
        at[d] \in Holding /\ at[e] \in Holding /\ snap[d].plan = snap[e].plan => d = e

(* A record says what stands at its SHA, as long as that is the last one.  *)
Filed ==
    \A rid \in records :
        /\ rid.sha \in 1 .. Tip /\ rid.plan \in rid.ready
        /\ rid.sha = Tip => rid.plan = Latest.plan /\ rid.ready = Latest.ready

(* The reservation of a run that is not over stands and is nobody else's,  *)
(* or the branch has gone on, and the run will not execute.                *)
Free(w) == \A d \in Dispatchers : ~Holds(d, w)

Standing ==
    \A i \in DOMAIN runs : ~runs[i].over =>
        Tip > Rid(i).sha \/ (active[Work(i)] = Rid(i).sha /\ Free(Work(i)))

(* One run is in the group, and its checkout is of the last commit if that *)
(* is the one it is reserved for.                                          *)
Grouped ==
    /\ \A i \in DOMAIN runs : step[i] \in InGroup \cup {"queued"} => ~runs[i].over
    /\ \A i, j \in DOMAIN runs : step[i] \in InGroup /\ step[j] \in InGroup => i = j
    /\ \A i \in DOMAIN runs :
        step[i] \in InGroup /\ Tip = Rid(i).sha => tree[i] = Latest.plan
    /\ \A i \in DOMAIN runs : step[i] = "pushed" => Tip > Rid(i).sha

(* A claim has one run; one that executes has its reservation to itself.   *)
Claimers == {i \in DOMAIN runs : step[i] = "claimed"} \cup ran

Claimed ==
    /\ \A i \in Claimers : Rid(i) \in claims
    /\ \A i, j \in Claimers : Rid(i) = Rid(j) => i = j
    /\ \A i \in ran :
        /\ step[i] \in Executing \cup {"done", "failed"}
        /\ start[i] = Rid(i).sha
        /\ tree[i] = commits[Rid(i).sha].plan
    /\ \A i \in DOMAIN runs : step[i] \in Executing =>
        i \in ran /\ active[Work(i)] = Rid(i).sha /\ Free(Work(i))

-----------------------------------------------------------------------------
(* What the steps of a run and of the surroundings leave as it is.         *)
WorkerStep(i) == RunStep(i) \/ CancelWaiting(i) \/ RunLost(i)

LEMMA MarkKeeps ==
    ASSUME NEW r \in Run, NEW b \in BOOLEAN
    PROVE  LET marked == [r EXCEPT !.over = b] IN
           /\ marked \in Run /\ marked.rid = r.rid /\ marked.by = r.by
           /\ marked.over = b
<1>1. [r EXCEPT !.over = b] \in Run /\ [r EXCEPT !.over = b].over = b
  BY Zenon DEF Run
<1>2. [r EXCEPT !.over = b].rid = r.rid /\ [r EXCEPT !.over = b].by = r.by
  BY SMT DEF Run
<1> QED  BY <1>1, <1>2

(* The end of a run changes nothing else in the list.                      *)
LEMMA OverMarks ==
    ASSUME NEW s \in Seq(Run), NEW i \in DOMAIN s
    PROVE  LET t == [s EXCEPT ![i].over = TRUE] IN
           /\ t \in Seq(Run) /\ Len(t) = Len(s)
           /\ \A j \in DOMAIN s :
                /\ t[j].rid = s[j].rid /\ t[j].by = s[j].by
                /\ j # i => t[j] = s[j]
           /\ t[i].over
<1>1. s[i] \in Run
  OBVIOUS
<1>2. PICK r \in Run :
        /\ r = [s[i] EXCEPT !.over = TRUE]
        /\ r.rid = s[i].rid /\ r.by = s[i].by /\ r.over = TRUE
  BY <1>1, MarkKeeps
<1>3. [s EXCEPT ![i].over = TRUE] = [s EXCEPT ![i] = r]
  BY <1>2
<1>4. /\ [s EXCEPT ![i] = r] \in Seq(Run) /\ Len([s EXCEPT ![i] = r]) = Len(s)
      /\ \A j \in DOMAIN s : [s EXCEPT ![i] = r][j] = IF j = i THEN r ELSE s[j]
  BY <1>2
<1> QED  BY <1>2, <1>3, <1>4

(* The list of runs through any step of run i.                             *)
SameRuns(i) ==
    /\ runs' \in Seq(Run) /\ Len(runs') = Len(runs) /\ DOMAIN runs' = DOMAIN runs
    /\ \A j \in DOMAIN runs :
        /\ runs'[j].rid = runs[j].rid /\ runs'[j].by = runs[j].by
        /\ ~runs'[j].over => ~runs[j].over
        /\ j # i => runs'[j] = runs[j]

LEMMA RunInSlot ==
    ASSUME Typed, Places, NEW i \in DOMAIN runs
    PROVE  i \in Slots
<1>1. BusyOnes \subseteq Dispatchers
  BY DEF BusyOnes
<1>2. Cardinality(BusyOnes) \in Nat
  BY <1>1, DispatchersAssumption, FS_Subset, FS_CardinalityType
<1>3. Len(runs) \in Nat /\ DOMAIN runs = 1 .. Len(runs)
  BY DEF Typed
<1> QED  BY <1>2, <1>3, BoundsAssumption DEF Places, Slots

LEMMA EndEffect ==
    ASSUME Typed, Places, NEW i \in DOMAIN runs, NEW s, End(i, s)
    PROVE  /\ SameRuns(i) /\ runs'[i].over
           /\ step' = [step EXCEPT ![i] = s] /\ step'[i] = s
<1>1. runs \in Seq(Run) /\ runs' = [runs EXCEPT ![i].over = TRUE]
  BY DEF Typed, End
<1>2. SameRuns(i) /\ runs'[i].over
  BY <1>1, OverMarks DEF SameRuns
<1> QED  BY <1>2, RunInSlot DEF End, Advance, Places

LEMMA OnIfEffect ==
    ASSUME Typed, Places, NEW i \in DOMAIN runs, NEW s, NEW test, OnIf(test, i, s)
    PROVE  /\ SameRuns(i)
           /\ step' = [step EXCEPT ![i] = step'[i]]
           /\ test => step'[i] = s /\ runs' = runs
           /\ ~test => step'[i] = "failed" /\ runs'[i].over
<1>1. CASE test
  <2>1. step' = [step EXCEPT ![i] = s] /\ runs' = runs
    BY <1>1 DEF OnIf, Advance
  <2>2. SameRuns(i)
    BY <2>1 DEF SameRuns, Typed
  <2> QED  BY <1>1, <2>1, <2>2, RunInSlot DEF Places
<1>2. CASE ~test
  <2>1. End(i, "failed")
    BY <1>2 DEF OnIf
  <2> QED  BY <1>2, <2>1, EndEffect
<1> QED  BY <1>1, <1>2

LEMMA TipIsCommit ==
    ASSUME Typed
    PROVE  Tip \in Nat \ {0} /\ Latest \in Content
BY DEF Typed, Tip, Latest

(* What any step of run i may do.                                          *)
Effect(i) ==
    /\ SameRuns(i)
    /\ UNCHANGED <<mintVars, records, consumed, at, snap>>
    /\ step'[i] \in Steps \ {"queued"} /\ step' = [step EXCEPT ![i] = step'[i]]
    /\ start'[i] \in Nat /\ start' = [start EXCEPT ![i] = start'[i]]
    /\ tree'[i] \in Works \cup {NoWork} /\ tree' = [tree EXCEPT ![i] = tree'[i]]
    /\ IF step'[i] \in InGroup THEN runs' = runs ELSE runs'[i].over
    /\ \/ commits' = commits
       \/ step[i] = "reconciled" /\ Tip = start[i] /\ commits' = Append(commits, Integrated(i))
    /\ \/ active' = active
       \/ step[i] = "pushed" /\ step'[i] = "done" /\ active' = [active EXCEPT ![Work(i)] = 0]
    /\ ran' \in {ran, ran \cup {i}} /\ claims \subseteq claims'

LEMMA StepEffect ==
    ASSUME Typed, Places, NEW i \in DOMAIN runs, WorkerStep(i)
    PROVE  Effect(i)
<1>0. i \in Slots /\ start[i] \in Nat /\ tree[i] \in Works \cup {NoWork}
  BY RunInSlot DEF Places
<1>1. /\ start = [start EXCEPT ![i] = start[i]]
      /\ tree = [tree EXCEPT ![i] = tree[i]]
  BY <1>0 DEF Places
<1>2. Tip \in Nat /\ Latest.plan \in Works \cup {NoWork}
  BY TipIsCommit DEF Content
<1> USE DEF Effect, Steps, InGroup
<1>3. CASE CancelWaiting(i)
  BY <1>0, <1>1, <1>3, EndEffect DEF CancelWaiting, refVars, mintVars
<1>4. CASE RunLost(i)
  BY <1>0, <1>1, <1>4, EndEffect DEF RunLost, refVars, mintVars
<1>5. CASE Verify(i)
  BY <1>0, <1>1, <1>2, <1>5, OnIfEffect DEF Verify, refVars, mintVars, Places
<1>6. CASE Capture(i)
  BY <1>0, <1>1, <1>2, <1>6, OnIfEffect DEF Capture, refVars, mintVars, Places
<1>7. CASE Claim(i)
  BY <1>0, <1>1, <1>7, OnIfEffect, EndEffect DEF Claim, refVars, mintVars
<1>8. CASE FinalState(i)
  BY <1>0, <1>1, <1>2, <1>8, OnIfEffect DEF FinalState, refVars, mintVars, Places
<1>9. CASE Execute(i)
  BY <1>0, <1>1, <1>9, OnIfEffect DEF Execute, refVars, mintVars
<1>10. CASE Project(i)
  BY <1>0, <1>1, <1>10, OnIfEffect DEF Project, refVars, mintVars
<1>11. CASE Reconcile(i)
  BY <1>0, <1>1, <1>11, OnIfEffect DEF Reconcile, refVars, mintVars
<1>12. CASE Push(i)
  BY <1>0, <1>1, <1>12, OnIfEffect DEF Push, PushAnswers, Made, refVars, mintVars
<1>13. CASE Release(i)
  BY <1>0, <1>1, <1>13, EndEffect DEF Release, DeleteAnswers, mintVars
<1> QED
  BY <1>3, <1>4, <1>5, <1>6, <1>7, <1>8, <1>9, <1>10, <1>11, <1>12, <1>13
     DEF WorkerStep, RunStep

(* How a run gets on: into the group when nobody is there, to its claim    *)
(* when there is none, to its execution on the last commit.                *)
Course(i) ==
    /\ IF step[i] = "queued"
       THEN /\ commits' = commits
            /\ step'[i] \in {"verified", "cancelled", "failed"}
            /\ step'[i] = "verified" =>
                tree'[i] = Latest.plan /\ \A j \in DOMAIN runs : step[j] \notin InGroup
       ELSE step[i] \in InGroup /\ tree' = tree
    /\ step'[i] = "claimed" => Rid(i) \notin claims /\ Rid(i) \in claims'
    /\ step'[i] = "pushed" => commits' = Append(commits, Integrated(i))
    /\ IF step'[i] = "executing"
       THEN step[i] = "claimed" /\ ran' = ran \cup {i} /\ start'[i] = Tip /\ Tip = Rid(i).sha
       ELSE ran' = ran
    /\ step[i] \in Executing =>
        start' = start /\ step'[i] \in (Executing \ {"executing"}) \cup {"done", "failed"}
    /\ step'[i] \in Executing \ {"executing"} => step[i] \in Executing

LEMMA StepCourse ==
    ASSUME Typed, Places, NEW i \in DOMAIN runs, WorkerStep(i)
    PROVE  Course(i)
<1>0. i \in Slots
  BY RunInSlot
<1> USE DEF Course, Executing, InGroup
<1>1. CASE CancelWaiting(i)
  BY <1>0, <1>1, EndEffect DEF CancelWaiting
<1>2. CASE RunLost(i)
  BY <1>0, <1>2, EndEffect DEF RunLost
<1>3. CASE Verify(i)
  BY <1>0, <1>3, OnIfEffect DEF Verify, Places
<1>4. CASE Capture(i)
  BY <1>0, <1>4, OnIfEffect DEF Capture
<1>5. CASE Claim(i)
  <2>1. step[i] = "captured" /\ UNCHANGED <<commits, ran, tree>>
    BY <1>5 DEF Claim
  <2>2. CASE End(i, "failed")
    BY <2>1, <2>2, EndEffect
  <2>3. CASE ~End(i, "failed")
    <3>1. PICK answer \in CreateAnswers(Rid(i) \in claims) :
            /\ claims' = IF Made(answer) THEN claims \cup {Rid(i)} ELSE claims
            /\ OnIf(answer = "created", i, "claimed")
      BY <1>5, <2>3 DEF Claim
    <3>2. step'[i] \in {"claimed", "failed"} /\ (step'[i] = "claimed" => answer = "created")
      BY <3>1, OnIfEffect
    <3>3. answer = "created" => Rid(i) \notin claims /\ Rid(i) \in claims'
      BY <3>1 DEF CreateAnswers, Made
    <3> QED  BY <2>1, <3>2, <3>3
  <2> QED  BY <2>2, <2>3
<1>6. CASE FinalState(i)
  <2>1. /\ step[i] = "claimed" /\ UNCHANGED <<commits, claims, tree>>
        /\ start' = [start EXCEPT ![i] = Tip]
        /\ ran' = IF Tip = Rid(i).sha THEN ran \cup {i} ELSE ran
    BY <1>6 DEF FinalState
  <2>2. IF Tip = Rid(i).sha THEN step'[i] = "executing" ELSE step'[i] = "failed"
    BY <1>6, OnIfEffect DEF FinalState
  <2>3. start'[i] = Tip
    BY <1>0, <2>1 DEF Places
  <2> QED  BY <2>1, <2>2, <2>3
<1>7. CASE Execute(i)
  BY <1>0, <1>7, OnIfEffect DEF Execute
<1>8. CASE Project(i)
  BY <1>0, <1>8, OnIfEffect DEF Project
<1>9. CASE Reconcile(i)
  BY <1>0, <1>9, OnIfEffect DEF Reconcile
<1>10. CASE Push(i)
  <2>1. step[i] = "reconciled" /\ UNCHANGED <<claims, start, tree, ran>>
    BY <1>10 DEF Push
  <2>2. PICK answer \in PushAnswers(Tip = start[i]) :
          /\ commits' = IF Made(answer) THEN Append(commits, Integrated(i)) ELSE commits
          /\ OnIf(answer = "created", i, "pushed")
    BY <1>10 DEF Push
  <2>3. step'[i] \in {"pushed", "failed"} /\ (step'[i] = "pushed" => answer = "created")
    BY <2>2, OnIfEffect
  <2> QED  BY <2>1, <2>2, <2>3 DEF Made
<1>11. CASE Release(i)
  BY <1>0, <1>11, EndEffect DEF Release, DeleteAnswers
<1> QED
  BY <1>1, <1>2, <1>3, <1>4, <1>5, <1>6, <1>7, <1>8, <1>9, <1>10, <1>11
     DEF WorkerStep, RunStep

(* The branch only grows.                                                  *)
Grown == Tip' \in Nat /\ Tip' >= Tip /\ \A k \in 1 .. Tip : commits'[k] = commits[k]

LEMMA PushGrows ==
    ASSUME Typed, NEW c \in Content, commits' = Append(commits, c)
    PROVE  Grown /\ Tip' = Tip + 1 /\ commits' \in Seq(Content)
BY DEF Typed, Grown, Tip

LEMMA IntegratedIsContent ==
    ASSUME Typed, NEW i, Tip = start[i]
    PROVE  Integrated(i) \in Content
<1>1. commits[start[i]] \in Content
  BY TipIsCommit DEF Latest
<1> QED  BY <1>1 DEF Integrated, Content

LEMMA WorkerKeepsTypes ==
    ASSUME Typed, Places, NEW i \in DOMAIN runs, Effect(i)
    PROVE  Typed' /\ Places' /\ Grown
<1>1. commits' = commits \/ (Grown /\ Tip' = Tip + 1 /\ commits' \in Seq(Content))
  BY IntegratedIsContent, PushGrows DEF Effect
<1>2. Grown /\ commits' \in Seq(Content) /\ Len(commits') # 0
  BY <1>1, TipIsCommit DEF Grown, Typed, Tip
<1>3. active' \in [Works -> Nat]
  BY DEF Effect, Typed
<1>4. Typed'
  BY <1>2, <1>3 DEF Effect, Typed, SameRuns
<1>5. BusyOnes' = BusyOnes /\ i \in Slots
  BY RunInSlot DEF Effect, BusyOnes
<1>6. Places'
  BY <1>5 DEF Places, Effect, SameRuns, Slots
<1> QED  BY <1>2, <1>4, <1>6

Everything ==
    /\ Typed /\ Places /\ Snapshots /\ RecordsKept
    /\ Reserving /\ Filed /\ Standing /\ Grouped /\ Claimed

-----------------------------------------------------------------------------
(* The steps of the runs, invariant by invariant.                          *)
LEMMA RidsAreSnapshots ==
    ASSUME Typed
    PROVE  \A i \in DOMAIN runs : Rid(i) \in Snapshot
<1>1. \A i \in DOMAIN runs : runs[i] \in Run  BY DEF Typed
<1> QED  BY <1>1 DEF Run, Rid

(* A run is of a work the registry admits.                                 *)
LEMMA RunsHaveWork ==
    ASSUME Typed, RecordsKept, Filed
    PROVE  \A i \in DOMAIN runs :
             Work(i) \in Works /\ Rid(i) \in records /\ Rid(i).sha \in 1 .. Tip
<1>1. \A rid \in Snapshot : rid.ready \subseteq Works
  BY DEF Snapshot
<1> QED  BY <1>1, RidsAreSnapshots DEF RecordsKept, Filed, Rid, Work

LEMMA HoldersHaveWork ==
    ASSUME Typed, Reserving
    PROVE  \A d \in Dispatchers : at[d] \in Admitted \cup Holding => snap[d].plan \in Works
BY DEF Typed, Reserving, Snapshot, Admitted, Busy, Holding, Reading

LEMMA SameFilesGrow ==
    ASSUME Typed, Grown, NEW s \in Snapshot, SameFiles(s)
    PROVE  SameFiles(s)'
BY DEF Typed, Grown, SameFiles, Tip

LEMMA WorkerKeepsSnapshots ==
    ASSUME Everything, NEW i \in DOMAIN runs, Effect(i), Grown
    PROVE  Snapshots'
<1> USE DEF Everything
<1>1. UNCHANGED <<at, snap>> /\ ByAuthority' = ByAuthority
  BY DEF Effect, SameRuns, ByAuthority
<1>2. \A j \in ByAuthority : runs'[j].rid = runs[j].rid /\ runs[j].rid \in Snapshot
  BY RidsAreSnapshots DEF Effect, SameRuns, ByAuthority, Rid
<1>3. \A j \in ByAuthority : SameFiles(runs[j].rid)'
  <2>1. \A s \in Snapshot : SameFiles(s) => SameFiles(s)'
    BY SameFilesGrow
  <2> QED  BY <1>2, <2>1 DEF Snapshots, SameFiles
<1>4. \A d \in Dispatchers : at[d] = "dispatch" => SameFiles(snap[d])'
  <2>1. \A d \in Dispatchers : snap[d] \in Snapshot  BY DEF Typed
  <2>2. \A s \in Snapshot : SameFiles(s) => SameFiles(s)'
    BY SameFilesGrow
  <2> QED  BY <1>1, <2>1, <2>2 DEF Snapshots, SameFiles
<1>5. \A d \in Dispatchers : at[d] \in Busy => snap[d].sha \in 1 .. Tip'
  BY TipIsCommit DEF Snapshots, Grown
<1>6. commits' = commits \/ Tip' = Tip + 1
  BY IntegratedIsContent, PushGrows DEF Effect
<1>7. CASE commits' = commits
  BY <1>1, <1>2, <1>3, <1>4, <1>5, <1>7 DEF Snapshots, Tip, Latest, SameFiles
<1>8. CASE Tip' = Tip + 1
  <2>1. \A d \in Dispatchers : at[d] \in Busy => snap[d].sha # Tip'
    BY <1>8, TipIsCommit DEF Snapshots
  <2> QED
    BY <1>1, <1>3, <1>4, <1>5, <2>1, <1>2 DEF Snapshots, HasPlan, HasGate, HasRegistry, SameFiles
<1> QED  BY <1>6, <1>7, <1>8

LEMMA WorkerKeepsRecords ==
    ASSUME Everything, NEW i \in DOMAIN runs, Effect(i)
    PROVE  RecordsKept'
<1>1. ByAuthority' = ByAuthority /\ ByAuthority \subseteq DOMAIN runs
  BY DEF Effect, SameRuns, ByAuthority
<1> QED  BY <1>1 DEF Everything, RecordsKept, Effect, SameRuns

LEMMA WorkerKeepsReserving ==
    ASSUME Everything, NEW i \in DOMAIN runs, Effect(i)
    PROVE  Reserving'
<1> USE DEF Everything
<1>1. UNCHANGED <<at, snap>>
  BY DEF Effect
<1>2. CASE active' = active
  BY <1>1, <1>2 DEF Reserving
<1>3. CASE step[i] = "pushed" /\ active' = [active EXCEPT ![Work(i)] = 0]
  <2>1. \A d \in Dispatchers : at[d] \in Holding => snap[d].plan # Work(i)
    BY <1>3 DEF Claimed, Executing, Free, Holds
  <2>2. \A w \in Works : w # Work(i) => active'[w] = active[w]
    BY <1>3 DEF Typed
  <2> QED  BY <1>1, <2>1, <2>2, HoldersHaveWork DEF Reserving
<1> QED  BY <1>2, <1>3 DEF Effect

LEMMA WorkerKeepsFiled ==
    ASSUME Everything, NEW i \in DOMAIN runs, Effect(i), Grown
    PROVE  Filed'
<1> USE DEF Everything
<1>1. records' = records  BY DEF Effect
<1>2. commits' = commits \/ Tip' = Tip + 1
  BY IntegratedIsContent, PushGrows DEF Effect
<1>3. CASE commits' = commits
  BY <1>1, <1>3 DEF Filed, Tip, Latest
<1>4. CASE Tip' = Tip + 1
  BY <1>1, <1>4, TipIsCommit DEF Filed
<1> QED  BY <1>2, <1>3, <1>4

LEMMA WorkerKeepsStanding ==
    ASSUME Everything, NEW i \in DOMAIN runs, Effect(i), Grown
    PROVE  Standing'
<1> USE DEF Everything
<1> SUFFICES ASSUME NEW j \in DOMAIN runs, ~runs'[j].over
             PROVE  \/ Tip' > Rid(j).sha
                    \/ active'[Work(j)] = Rid(j).sha /\ Free(Work(j))
  BY DEF Standing, Effect, SameRuns, Rid, Work, Free, Holds
<1>0. Tip \in Nat /\ Rid(j).sha \in Nat
  BY TipIsCommit, RidsAreSnapshots DEF Snapshot
<1>1. Tip > Rid(j).sha \/ (active[Work(j)] = Rid(j).sha /\ Free(Work(j)))
  BY DEF Standing, Effect, SameRuns
<1>2. CASE Tip > Rid(j).sha
  BY <1>0, <1>2 DEF Grown
<1>3. CASE active[Work(j)] = Rid(j).sha /\ Free(Work(j))
  <2>1. CASE active'[Work(j)] = active[Work(j)]
    BY <1>3, <2>1
  <2>2. CASE active'[Work(j)] # active[Work(j)]
    <3>0. Work(j) \in Works  BY RunsHaveWork
    <3>1. step[i] = "pushed" /\ Work(j) = Work(i)
      BY <2>2, <3>0 DEF Effect, Typed
    <3>2. Tip > Rid(i).sha /\ active[Work(i)] = Rid(i).sha
      BY <3>1 DEF Grouped, Claimed, Executing
    <3> QED  BY <1>0, <1>3, <3>1, <3>2 DEF Grown
  <2> QED  BY <2>1, <2>2
<1> QED  BY <1>1, <1>2, <1>3

LEMMA WorkerKeepsGrouped ==
    ASSUME Everything, NEW i \in DOMAIN runs, Effect(i), Course(i), Grown
    PROVE  Grouped'
<1> USE DEF Everything
<1>0. i \in Slots /\ DOMAIN runs \subseteq Slots
  BY RunInSlot
<1>1. /\ DOMAIN runs' = DOMAIN runs
      /\ \A j \in DOMAIN runs : runs'[j].rid = runs[j].rid
  BY DEF Effect, SameRuns
<1>2. \A j \in DOMAIN runs : j # i => step'[j] = step[j] /\ tree'[j] = tree[j]
  BY <1>0 DEF Effect, Places
<1>3. step[i] \in InGroup => \A j \in DOMAIN runs : step[j] \in InGroup => j = i
  BY DEF Grouped
<1>4. \A j \in DOMAIN runs : step'[j] \in InGroup \cup {"queued"} => ~runs'[j].over
  <2>1. CASE step'[i] \in InGroup
    <3>1. runs' = runs  BY <2>1 DEF Effect
    <3>2. ~runs[i].over
      BY <2>1 DEF Course, Grouped
    <3> QED  BY <1>2, <3>1, <3>2 DEF Grouped
  <2>2. CASE step'[i] \notin InGroup
    BY <2>2, <1>2 DEF Grouped, Effect, SameRuns
  <2> QED  BY <2>1, <2>2
<1>5. \A j, k \in DOMAIN runs : step'[j] \in InGroup /\ step'[k] \in InGroup => j = k
  <2>1. CASE step[i] = "queued"
    BY <2>1, <1>2 DEF Course, Grouped, InGroup
  <2>2. CASE step[i] # "queued"
    BY <2>2, <1>2, <1>3 DEF Course
  <2> QED  BY <2>1, <2>2
<1>6. commits' = commits \/ Tip' = Tip + 1
  BY IntegratedIsContent, PushGrows DEF Effect
<1>7. \A j \in DOMAIN runs : Rid(j).sha \in Nat /\ Rid(j).sha <= Tip /\ Tip \in Nat
  BY RunsHaveWork, TipIsCommit
<1>8. \A j \in DOMAIN runs :
        step'[j] \in InGroup /\ Tip' = runs[j].rid.sha => tree'[j] = Latest'.plan
  <2> SUFFICES ASSUME NEW j \in DOMAIN runs, step'[j] \in InGroup, Tip' = runs[j].rid.sha
               PROVE  tree'[j] = Latest'.plan
    OBVIOUS
  <2>1. commits' = commits /\ Tip' = Tip /\ Latest' = Latest
    BY <1>6, <1>7 DEF Rid, Tip, Latest
  <2>2. CASE j # i
    BY <1>2, <2>1, <2>2 DEF Grouped, Rid
  <2>3. CASE j = i /\ step[i] = "queued"
    BY <2>1, <2>3 DEF Course, InGroup
  <2>4. CASE j = i /\ step[i] # "queued"
    BY <2>1, <2>4 DEF Course, Grouped, Rid
  <2> QED  BY <2>2, <2>3, <2>4
<1>9. \A j \in DOMAIN runs : step'[j] = "pushed" => Tip' > runs[j].rid.sha
  <2> SUFFICES ASSUME NEW j \in DOMAIN runs, step'[j] = "pushed"
               PROVE  Tip' > runs[j].rid.sha
    OBVIOUS
  <2>1. CASE j # i
    BY <1>2, <1>7, <2>1 DEF Grouped, Rid, Grown
  <2>2. CASE j = i
    <3>1. commits' = Append(commits, Integrated(i))
      BY <2>2 DEF Course
    <3>2. Tip' = Tip + 1
      BY <3>1 DEF Tip, Typed
    <3> QED  BY <2>2, <3>2, <1>7 DEF Rid
  <2> QED  BY <2>1, <2>2
<1> QED  BY <1>1, <1>4, <1>5, <1>8, <1>9 DEF Grouped, Rid

LEMMA WorkerKeepsClaimed ==
    ASSUME Everything, NEW i \in DOMAIN runs, Effect(i), Course(i), Grown
    PROVE  Claimed'
<1> USE DEF Everything
<1>0. i \in Slots /\ DOMAIN runs \subseteq Slots /\ ran \subseteq DOMAIN runs
  BY RunInSlot DEF Places
<1>1. /\ DOMAIN runs' = DOMAIN runs /\ UNCHANGED <<at, snap>> /\ claims \subseteq claims'
      /\ \A j \in DOMAIN runs : runs'[j].rid = runs[j].rid
  BY DEF Effect, SameRuns
<1>2. \A j \in DOMAIN runs :
        j # i => step'[j] = step[j] /\ tree'[j] = tree[j] /\ start'[j] = start[j]
  BY <1>0 DEF Effect, Places
<1>3. \A j \in Claimers' : j \in Claimers \/ (j = i /\ step'[i] = "claimed")
  BY <1>1, <1>2 DEF Claimers, Course
<1>4. step'[i] = "claimed" => Rid(i) \notin claims /\ Rid(i) \in claims'
  BY DEF Course
<1>5. Claimers \subseteq DOMAIN runs
  BY <1>0 DEF Claimers
<1>6. \A j \in Claimers' : j \in DOMAIN runs /\ runs[j].rid \in claims'
  BY <1>1, <1>3, <1>4, <1>5 DEF Claimed, Rid
<1>7. \A j, k \in Claimers' : runs[j].rid = runs[k].rid => j = k
  BY <1>3, <1>4 DEF Claimed, Rid
<1>8. \A j \in DOMAIN runs : runs[j].rid.sha \in 1 .. Tip
  BY RunsHaveWork DEF Rid
<1>9. \A j \in ran' :
        /\ step'[j] \in Executing \cup {"done", "failed"}
        /\ start'[j] = runs[j].rid.sha
        /\ tree'[j] = commits'[runs[j].rid.sha].plan
  <2> SUFFICES ASSUME NEW j \in ran'
               PROVE  /\ step'[j] \in Executing \cup {"done", "failed"}
                      /\ start'[j] = runs[j].rid.sha
                      /\ tree'[j] = commits'[runs[j].rid.sha].plan
    OBVIOUS
  <2>0. j \in DOMAIN runs /\ commits'[runs[j].rid.sha] = commits[runs[j].rid.sha]
    BY <1>0, <1>8 DEF Effect, Grown
  <2>1. CASE j # i
    BY <2>0, <2>1, <1>2 DEF Course, Claimed, Rid
  <2>2. CASE j = i /\ step'[i] = "executing"
    <3>1. step[i] = "claimed" /\ start'[i] = Tip /\ Tip = Rid(i).sha
      BY <2>2 DEF Course
    <3>2. tree'[i] = Latest.plan
      BY <3>1 DEF Course, Grouped, InGroup
    <3> QED  BY <2>0, <2>2, <3>1, <3>2 DEF Latest, Rid, Executing
  <2>3. CASE j = i /\ step'[i] # "executing"
    <3>1. i \in ran
      BY <2>3 DEF Course
    <3>2. step[i] \in Executing /\ tree' = tree
      BY <3>1 DEF Claimed, Course, InGroup, Executing
    <3>3. start' = start /\ step'[i] \in Executing \cup {"done", "failed"}
      BY <3>2 DEF Course
    <3> QED  BY <2>0, <2>3, <3>1, <3>2, <3>3 DEF Claimed, Rid
  <2> QED  BY <2>1, <2>2, <2>3
<1>10. \A j \in DOMAIN runs : step'[j] \in Executing =>
        /\ j \in ran' /\ active'[runs[j].rid.plan] = runs[j].rid.sha
        /\ Free(runs[j].rid.plan)
  <2> SUFFICES ASSUME NEW j \in DOMAIN runs, step'[j] \in Executing
               PROVE  /\ j \in ran' /\ active'[runs[j].rid.plan] = runs[j].rid.sha
                      /\ Free(runs[j].rid.plan)
    OBVIOUS
  <2>1. active' = active
    <3>1. CASE step[i] = "pushed" /\ step'[i] = "done"
      <4>1. j # i  BY <3>1 DEF Executing
      <4>2. step[j] \in InGroup /\ step[i] \in InGroup
        BY <1>2, <3>1, <4>1 DEF Executing, InGroup
      <4> QED  BY <4>1, <4>2 DEF Grouped
    <3> QED  BY <3>1 DEF Effect
  <2>2. CASE step[j] \in Executing
    BY <2>1, <2>2 DEF Claimed, Rid, Work, Effect
  <2>3. CASE step[j] \notin Executing
    <3>1. j = i /\ step'[i] = "executing"
      BY <1>2, <2>3 DEF Course
    <3>2. step[i] = "claimed" /\ i \in ran' /\ Tip = Rid(i).sha
      BY <3>1 DEF Course
    <3>3. ~runs[i].over
      BY <3>2 DEF Grouped, InGroup
    <3>4. active[Work(i)] = Rid(i).sha /\ Free(Work(i))
      BY <3>2, <3>3, TipIsCommit DEF Standing
    <3> QED  BY <2>1, <3>1, <3>2, <3>4 DEF Rid, Work
  <2> QED  BY <2>2, <2>3
<1> QED
  BY <1>1, <1>6, <1>7, <1>9, <1>10 DEF Claimed, Rid, Work, Free, Holds, Claimers

-----------------------------------------------------------------------------
(* The steps of dispatchers and surroundings.  Most leave the active refs, *)
(* the runs and the branch, and nobody begins to hold a work.              *)
LEMMA NobodyBeginsToHold ==
    ASSUME Everything, UNCHANGED <<commits, active, runs, workerVars>>,
           \A rid \in records' :
               rid \in records \/ \E d \in Dispatchers : at[d] = "record" /\ rid = snap[d],
           \A d \in Dispatchers : at'[d] \in Holding => at[d] \in Holding /\ snap'[d] = snap[d],
           \A d \in Dispatchers : at'[d] \in Admitted =>
               \/ at[d] \in Admitted /\ snap'[d] = snap[d]
               \/ snap'[d].plan \in snap'[d].ready
    PROVE  Reserving' /\ Filed' /\ Standing' /\ Grouped' /\ Claimed'
<1> USE DEF Everything
<1>1. Reserving'
  BY DEF Reserving
<1>2. Filed'
  <2> SUFFICES ASSUME NEW rid \in records'
               PROVE  /\ rid.sha \in 1 .. Tip /\ rid.plan \in rid.ready
                      /\ rid.sha = Tip => rid.plan = Latest.plan /\ rid.ready = Latest.ready
    BY DEF Filed, Tip, Latest
  <2>1. CASE rid \in records
    BY <2>1 DEF Filed
  <2>2. ASSUME NEW d \in Dispatchers, at[d] = "record", rid = snap[d]
        PROVE  /\ rid.sha \in 1 .. Tip /\ rid.plan \in rid.ready
               /\ rid.sha = Tip => rid.plan = Latest.plan /\ rid.ready = Latest.ready
    BY <2>2 DEF Snapshots, Reserving, Admitted, Busy, Holding, HasPlan, HasGate, HasRegistry
  <2> QED  BY <2>1, <2>2
<1>3. \A w : Free(w) => Free(w)'
  BY DEF Free, Holds
<1>4. Standing'
  <2>1. \A i \in DOMAIN runs : Free(Work(i)) => Free(Work(i))'
    BY DEF Free, Holds, Work, Rid
  <2> QED  BY <2>1 DEF Standing, Tip, Rid, Work
<1>5. Grouped'
  BY DEF Grouped, workerVars, Tip, Latest, Rid
<1>6. Claimed'
  <2>1. \A i \in DOMAIN runs : Free(Work(i)) => Free(Work(i))'
    BY DEF Free, Holds, Work, Rid
  <2> QED  BY <2>1 DEF Claimed, Claimers, workerVars, Rid, Work
<1> QED  BY <1>1, <1>2, <1>4, <1>5, <1>6

LEMMA ReserveKeeps ==
    ASSUME Everything, NEW d \in Dispatchers, Reserve(d), UNCHANGED workerVars
    PROVE  Reserving' /\ Filed' /\ Standing' /\ Grouped' /\ Claimed'
<1> USE DEF Everything
<1> DEFINE w == snap[d].plan
<1>0. /\ UNCHANGED <<commits, records, runs, snap>> /\ at[d] = "reserve"
      /\ snap[d] \in Snapshot
  BY DEF Reserve, Typed
<1>1. PICK answer \in CreateAnswers(active[w] # 0) :
        /\ active' = IF Made(answer) THEN [active EXCEPT ![w] = snap[d].sha] ELSE active
        /\ Goto(d, IF answer = "created" THEN "record" ELSE "refused")
  BY DEF Reserve
<1>2. /\ at'[d] \in {"record", "refused"} /\ (at'[d] = "record" => answer = "created")
      /\ \A e \in Dispatchers : e # d => at'[e] = at[e]
  BY <1>1 DEF Goto, Typed
<1>3. w \in snap[d].ready /\ w \in Works
  BY <1>0 DEF Reserving, Admitted, Busy, Reading, Holding, Snapshot
<1>4. CASE ~Made(answer)
  <2>1. at'[d] = "refused" /\ active' = active
    BY <1>1, <1>2, <1>4 DEF Made
  <2>2. \A e \in Dispatchers : at'[e] \in Holding \cup Admitted => e # d /\ at'[e] = at[e]
    BY <1>2, <2>1 DEF Holding, Admitted, Busy, Reading
  <2> QED  BY <1>0, <2>1, <2>2, NobodyBeginsToHold
<1>5. CASE Made(answer)
  <2>1. active[w] = 0 /\ active' = [active EXCEPT ![w] = snap[d].sha]
    BY <1>1, <1>5 DEF Made, CreateAnswers
  <2>2. active'[w] = snap[d].sha /\ \A v \in Works : v # w => active'[v] = active[v]
    BY <1>3, <2>1 DEF Typed
  <2>3. \A e \in Dispatchers : at[e] \in Admitted => snap[e].plan \in Works /\ snap[e].sha # 0
    BY DEF Reserving, Snapshots, Typed, Snapshot, Admitted
  <2>4. \A e \in Dispatchers : at[e] \in Holding => e # d /\ snap[e].plan # w
    BY <1>0, <2>1, <2>3 DEF Reserving, Admitted, Busy, Holding, Reading
  <2>5. \A e \in Dispatchers : at'[e] \in Holding => e = d \/ at[e] \in Holding
    BY <1>2
  <2>6. \A e \in Dispatchers : at'[e] \in Admitted => at[e] \in Admitted
    BY <1>0, <1>2 DEF Admitted, Busy, Holding, Reading
  <2>7. Reserving'
    <3>1. \A e \in Dispatchers : at'[e] \in Holding => active'[snap[e].plan] = snap[e].sha
      BY <2>2, <2>3, <2>4, <2>5 DEF Reserving, Admitted, Busy, Holding, Reading
    <3>2. \A e, f \in Dispatchers :
            at'[e] \in Holding /\ at'[f] \in Holding /\ snap[e].plan = snap[f].plan => e = f
      BY <2>4, <2>5 DEF Reserving
    <3> QED  BY <1>0, <2>6, <3>1, <3>2 DEF Reserving
  <2>8. Filed'
    BY <1>0 DEF Filed, Tip, Latest
  <2>9. \A i \in DOMAIN runs : Work(i) \in Works /\ Rid(i).sha \in Nat \ {0}
    BY RunsHaveWork
  <2>10. \A i \in DOMAIN runs : active[Work(i)] = Rid(i).sha =>
            Work(i) # w /\ active'[Work(i)] = active[Work(i)]
    BY <2>1, <2>2, <2>9
  <2>11. \A i \in DOMAIN runs : Work(i) # w /\ Free(Work(i)) => Free(Work(i))'
    BY <1>0, <2>5 DEF Free, Holds, Work, Rid
  <2>12. Standing'
    BY <1>0, <2>10, <2>11 DEF Standing, Tip, Rid, Work
  <2>13. Grouped'
    BY <1>0 DEF Grouped, workerVars, Tip, Latest, Rid
  <2>14. Claimed'
    BY <1>0, <2>10, <2>11 DEF Claimed, Claimers, workerVars, Rid, Work
  <2> QED  BY <2>7, <2>8, <2>12, <2>13, <2>14
<1> QED  BY <1>4, <1>5

(* A dispatcher that deletes the ref of its work has no run to harm: the   *)
(* branch has left those behind that are still to come.                    *)
LEMMA DeleteKeeps ==
    ASSUME Everything, NEW d \in Dispatchers, DeleteActive(d), UNCHANGED workerVars
    PROVE  Reserving' /\ Filed' /\ Standing' /\ Grouped' /\ Claimed'
<1> USE DEF Everything
<1> DEFINE w == snap[d].plan
<1>0. /\ UNCHANGED <<commits, records, runs, snap>> /\ at[d] \in Holding
      /\ active' \in {active, [active EXCEPT ![w] = 0]}
      /\ at'[d] \in {"refused", "revokeRecord"}
      /\ \A e \in Dispatchers : e # d => at'[e] = at[e]
  BY DEF DeleteActive, Goto, Typed, Holding
<1>1. \A v \in Works : v # w => active'[v] = active[v]
  BY <1>0 DEF Typed
<1>2. \A e \in Dispatchers : at'[e] \in Holding => at[e] \in Holding /\ snap[e].plan # w
  BY <1>0 DEF Reserving, Holding
<1>3. \A e \in Dispatchers : at'[e] \in Admitted => at[e] \in Admitted
  BY <1>0 DEF Admitted, Busy, Holding, Reading
<1>4. Reserving'
  <2>1. \A e \in Dispatchers : at[e] \in Holding => snap[e].plan \in Works
    BY DEF Reserving, Typed, Snapshot, Admitted, Busy, Holding, Reading
  <2>2. \A e \in Dispatchers : at'[e] \in Holding => active'[snap[e].plan] = snap[e].sha
    BY <1>1, <1>2, <2>1 DEF Reserving
  <2> QED  BY <1>0, <1>2, <1>3, <2>2 DEF Reserving
<1>5. Filed'
  BY <1>0 DEF Filed, Tip, Latest
<1>6. \A i \in DOMAIN runs : Free(Work(i)) =>
        /\ Work(i) # w /\ active'[Work(i)] = active[Work(i)]
        /\ Free(Work(i))'
  <2>1. \A i \in DOMAIN runs : Work(i) \in Works
    BY RunsHaveWork
  <2>2. \A i \in DOMAIN runs : Free(Work(i)) => Work(i) # w
    BY <1>0 DEF Free, Holds
  <2>3. \A i \in DOMAIN runs : Free(Work(i)) => Free(Work(i))'
    BY <1>0, <1>2 DEF Free, Holds, Work, Rid
  <2> QED  BY <1>1, <2>1, <2>2, <2>3
<1>7. Standing'
  BY <1>0, <1>6 DEF Standing, Tip, Rid, Work
<1>8. Grouped'
  BY <1>0 DEF Grouped, workerVars, Tip, Latest, Rid
<1>9. Claimed'
  BY <1>0, <1>6 DEF Claimed, Claimers, workerVars, Rid, Work
<1> QED  BY <1>4, <1>5, <1>7, <1>8, <1>9

(* A new run is queued, and its reservation stands and is its own.         *)
LEMMA RunAddedKeeps ==
    ASSUME Everything, UNCHANGED <<commits, active, records, snap, workerVars>>,
           NEW n, n = Len(runs) + 1, n \in Slots,
           \A i \in DOMAIN runs : i # n /\ runs'[i] = runs[i],
           DOMAIN runs' = DOMAIN runs \cup {n}, ~runs'[n].over,
           active[runs'[n].rid.plan] = runs'[n].rid.sha,
           \A d \in Dispatchers : at'[d] \in Holding =>
               at[d] \in Holding /\ snap[d].plan # runs'[n].rid.plan,
           \A d \in Dispatchers : at'[d] \in Admitted => at[d] \in Admitted
    PROVE  Reserving' /\ Filed' /\ Standing' /\ Grouped' /\ Claimed'
<1> USE DEF Everything
<1>1. Reserving' /\ Filed'
  BY DEF Reserving, Filed, Tip, Latest
<1>2. step[n] = "queued"
  <2>1. n \notin DOMAIN runs
    OBVIOUS
  <2> QED  BY <2>1 DEF Places
<1>3. \A i \in DOMAIN runs : Free(Work(i)) => Free(Work(i))'
  BY DEF Free, Holds, Work, Rid
<1>4. Standing'
  <2>1. \A i \in DOMAIN runs' : i = n \/ i \in DOMAIN runs
    OBVIOUS
  <2>2. Free(runs[n].rid.plan)'
    BY DEF Free, Holds
  <2> QED  BY <1>3, <2>1, <2>2 DEF Standing, Tip, Rid, Work
<1>5. \A i \in DOMAIN runs' : i = n \/ i \in DOMAIN runs
  OBVIOUS
<1>6. Grouped'
  BY <1>2, <1>5 DEF Grouped, workerVars, Tip, Latest, Rid, InGroup
<1>7. Claimed'
  <2>1. step'[n] \notin Executing /\ step'[n] # "claimed"
    BY <1>2 DEF workerVars, Executing
  <2>2. Claimers' \subseteq Claimers /\ Claimers \subseteq DOMAIN runs
    BY <1>5, <2>1 DEF Claimers, workerVars, Places
  <2>3. ran \subseteq DOMAIN runs
    BY DEF Places
  <2> QED  BY <1>3, <1>5, <2>1, <2>2, <2>3 DEF Claimed, workerVars, Rid, Work
<1> QED  BY <1>1, <1>4, <1>6, <1>7

LEMMA BusyCount ==
    /\ IsFiniteSet(BusyOnes) /\ Cardinality(BusyOnes) \in Nat
    /\ \A d \in BusyOnes : Cardinality(BusyOnes \ {d}) = Cardinality(BusyOnes) - 1
<1>1. IsFiniteSet(BusyOnes)
  BY DispatchersAssumption, FS_Subset DEF BusyOnes
<1> QED  BY <1>1, FS_CardinalityType, FS_RemoveElement

LEMMA DispatchKeeps ==
    ASSUME Everything, NEW d \in Dispatchers, Dispatch(d), UNCHANGED workerVars
    PROVE  Reserving' /\ Filed' /\ Standing' /\ Grouped' /\ Claimed'
<1> USE DEF Everything
<1>1. /\ UNCHANGED <<commits, active, records, snap>> /\ at[d] = "dispatch"
      /\ at'[d] \in {"dispatched", "preserved"}
      /\ \A e \in Dispatchers : e # d => at'[e] = at[e]
  BY DEF Dispatch, Goto, Typed, refVars
<1>2. CASE runs' = runs
  BY <1>1, <1>2, NobodyBeginsToHold DEF Holding, Admitted, Busy, Reading
<1>3. CASE runs' # runs
  <2> DEFINE n == Len(runs) + 1
  <2>1. /\ \A i \in DOMAIN runs : i # n /\ runs'[i] = runs[i]
        /\ runs'[n].rid = snap[d] /\ ~runs'[n].over
        /\ Len(runs') = n /\ runs' \in Seq(Run) /\ runs \in Seq(Run)
    BY <1>3, DispatchAdds DEF Typed
  <2>2. DOMAIN runs' = DOMAIN runs \cup {n}
    BY <2>1
  <2>3. active[snap[d].plan] = snap[d].sha
    BY <1>1 DEF Reserving, Holding
  <2>4. \A e \in Dispatchers : at'[e] \in Holding => at[e] \in Holding /\ snap[e].plan # snap[d].plan
    BY <1>1 DEF Reserving, Holding
  <2>5. \A e \in Dispatchers : at'[e] \in Admitted => at[e] \in Admitted
    BY <1>1 DEF Admitted, Busy, Holding, Reading
  <2>6. n \in Slots
    <3>1. d \in BusyOnes
      BY <1>1 DEF BusyOnes, Busy, Holding
    <3>2. Cardinality(BusyOnes) # 0
      BY <3>1, BusyCount, FS_EmptySet
    <3>3. Len(runs) \in Nat
      BY <2>1
    <3> QED  BY <3>2, <3>3, BusyCount, BoundsAssumption DEF Places, Slots
  <2> HIDE DEF n
  <2>7. n = Len(runs) + 1
    BY DEF n
  <2> QED
    BY <1>1, <2>1, <2>2, <2>3, <2>4, <2>5, <2>6, <2>7, RunAddedKeeps
<1> QED  BY <1>2, <1>3

LEMMA OperatorKeeps ==
    ASSUME Everything, NEW rid \in records, OperatorDispatch(rid), UNCHANGED workerVars
    PROVE  Reserving' /\ Filed' /\ Standing' /\ Grouped' /\ Claimed'
<1> USE DEF Everything
<1> DEFINE n == Len(runs) + 1
<1>1. /\ UNCHANGED <<commits, active, records, snap, at>>
      /\ active[rid.plan] = rid.sha
      /\ \A d \in Dispatchers : at[d] \in Holding => snap[d].plan # rid.plan
  BY DEF OperatorDispatch, refVars
<1>2. /\ \A i \in DOMAIN runs : i # n /\ runs'[i] = runs[i]
      /\ runs'[n].rid = rid /\ ~runs'[n].over
      /\ Len(runs') = n /\ runs' \in Seq(Run) /\ runs \in Seq(Run)
  BY OperatorAdds DEF Typed
<1>3. DOMAIN runs' = DOMAIN runs \cup {n}
  BY <1>2
<1>4. n \in Slots
  <2>1. Len(runs) + Cardinality(BusyOnes) < MaxRuns
    BY DEF OperatorDispatch, RunsLeft, BusyOnes
  <2> QED  BY <1>2, <2>1, BusyCount, BoundsAssumption DEF Slots
<1> HIDE DEF n
<1>5. n = Len(runs) + 1
  BY DEF n
<1> QED
  BY <1>1, <1>2, <1>3, <1>4, <1>5, RunAddedKeeps

LEMMA AdjudicateKeeps ==
    ASSUME Everything, NEW w \in Works, Adjudicate(w), UNCHANGED workerVars
    PROVE  Reserving' /\ Filed' /\ Standing' /\ Grouped' /\ Claimed'
<1> USE DEF Everything
<1>1. /\ UNCHANGED <<commits, records, runs, at, snap>>
      /\ \A v \in Works : v # w => active'[v] = active[v]
      /\ \A d \in Dispatchers : at[d] \in Holding => snap[d].plan # w
      /\ \A i \in DOMAIN runs : ~runs[i].over => Work(i) # w
  BY DEF Adjudicate, Typed, Rid, Work
<1>2. Reserving' /\ Filed'
  BY <1>1, HoldersHaveWork DEF Reserving, Filed, Tip, Latest
<1>3. \A i \in DOMAIN runs : Work(i) \in Works /\ (Free(Work(i)) => Free(Work(i))')
  BY <1>1, RunsHaveWork DEF Free, Holds, Work, Rid
<1>4. Standing'
  BY <1>1, <1>3 DEF Standing, Tip, Rid, Work
<1>5. Grouped'
  BY <1>1 DEF Grouped, workerVars, Tip, Latest, Rid
<1>6. Claimed'
  <2>1. \A i \in DOMAIN runs : step[i] \in Executing => Work(i) # w
    BY <1>1 DEF Grouped, Executing, InGroup
  <2> QED  BY <1>1, <1>3, <2>1 DEF Claimed, Claimers, workerVars, Rid, Work
<1> QED  BY <1>2, <1>4, <1>5, <1>6

LEMMA PushKeeps ==
    ASSUME Everything, NEW c \in Contents, PushTarget(c), UNCHANGED workerVars
    PROVE  Reserving' /\ Filed' /\ Standing' /\ Grouped' /\ Claimed'
<1> USE DEF Everything
<1>1. UNCHANGED <<active, records, runs, at, snap>>
  BY DEF PushTarget, refVars
<1>2. Grown /\ Tip' = Tip + 1
  BY ContentsAssumption, PushGrows DEF PushTarget
<1>3. Tip \in Nat  BY TipIsCommit
<1>4. Reserving'
  BY <1>1 DEF Reserving
<1>5. Filed'
  BY <1>1, <1>2, <1>3 DEF Filed
<1>6. \A i \in DOMAIN runs :
        Rid(i).sha \in 1 .. Tip /\ commits'[Rid(i).sha] = commits[Rid(i).sha]
  BY RunsHaveWork, <1>2 DEF Grown
<1>7. \A i \in DOMAIN runs : Free(Work(i)) => Free(Work(i))'
  BY <1>1 DEF Free, Holds, Work, Rid
<1>8. Standing'
  BY <1>1, <1>2, <1>3, <1>6, <1>7 DEF Standing, Rid, Work
<1>9. Grouped'
  BY <1>1, <1>2, <1>3, <1>6 DEF Grouped, workerVars, Rid
<1>10. Claimed'
  <2>1. ran \subseteq DOMAIN runs  BY DEF Places
  <2> QED  BY <1>1, <1>6, <1>7, <2>1 DEF Claimed, Claimers, workerVars, Rid, Work
<1> QED  BY <1>4, <1>5, <1>8, <1>9, <1>10

(* There stays room for every run: a dispatcher has its slot from its      *)
(* start on, and gives it to the run or back.                              *)
LEMMA DispatchKeepsPlaces ==
    ASSUME Everything, DispatchNext, UNCHANGED workerVars
    PROVE  Places'
<1> USE DEF Everything
<1>0. Len(runs) \in Nat /\ runs \in Seq(Run)
  BY DEF Typed
<1>1. ASSUME Len(runs') + Cardinality(BusyOnes') <= MaxRuns, DOMAIN runs \subseteq DOMAIN runs'
      PROVE  Places'
  BY <1>1 DEF Places, workerVars, Slots
<1>2. ASSUME runs' = runs, BusyOnes' \subseteq BusyOnes
      PROVE  Places'
  <2>1. Cardinality(BusyOnes') <= Cardinality(BusyOnes) /\ Cardinality(BusyOnes') \in Nat
    BY <1>2, BusyCount, FS_Subset, FS_CardinalityType
  <2> QED  BY <1>0, <1>1, <1>2, <2>1, BusyCount, BoundsAssumption DEF Places
<1>3. ASSUME NEW d \in Dispatchers, NEW a \in Auths \cup {NoAuth}, Start(d, a)
      PROVE  Places'
  <2>1. runs' = runs /\ Len(runs) + Cardinality(BusyOnes) < MaxRuns
    BY <1>3 DEF Start, RunsLeft, BusyOnes
  <2>2. d \notin BusyOnes /\ BusyOnes' = BusyOnes \cup {d}
    BY <1>3 DEF Start, Goto, Typed, BusyOnes, Busy, Reading, Holding, Ended
  <2>3. Cardinality(BusyOnes') = Cardinality(BusyOnes) + 1
    BY <2>2, BusyCount, FS_AddElement
  <2> QED  BY <1>0, <1>1, <2>1, <2>3, BusyCount, BoundsAssumption
<1>4. ASSUME NEW d \in Dispatchers, DispatcherStep(d) PROVE Places'
  <2>1. CASE \/ ReadPlan(d) \/ ReadGate(d) \/ ReadRegistry(d) \/ Admit(d)
             \/ ListActive(d) \/ CheckConsumed(d) \/ Reserve(d) \/ Record(d)
             \/ Consume(d) \/ CheckDrift(d) \/ DeleteActive(d) \/ DeleteRecord(d)
    <3>1. runs' = runs /\ at[d] \in Busy /\ \A e \in Dispatchers : e # d => at'[e] = at[e]
      BY <2>1 DEF ReadPlan, ReadGate, ReadRegistry, Admit, ListActive, CheckConsumed,
                  Reserve, Record, Consume, CheckDrift, DeleteActive, DeleteRecord,
                  Goto, Typed, Busy, Reading, Holding
    <3> QED  BY <1>2, <3>1 DEF BusyOnes
  <2>2. CASE Dispatch(d)
    <3>1. /\ d \in BusyOnes /\ at'[d] \in {"dispatched", "preserved"}
          /\ \A e \in Dispatchers : e # d => at'[e] = at[e]
      BY <2>2 DEF Dispatch, Goto, Typed, BusyOnes, Busy, Holding
    <3>2. BusyOnes' = BusyOnes \ {d}
      BY <3>1 DEF BusyOnes, Busy, Reading, Holding
    <3>3. CASE runs' = runs
      BY <1>2, <3>2, <3>3
    <3>4. CASE runs' # runs
      <4>1. Len(runs') = Len(runs) + 1 /\ DOMAIN runs \subseteq DOMAIN runs'
        BY <2>2, <3>4, DispatchAdds, <1>0
      <4>2. Cardinality(BusyOnes') = Cardinality(BusyOnes) - 1
        BY <3>1, <3>2, BusyCount
      <4> QED  BY <1>0, <1>1, <4>1, <4>2, BusyCount, BoundsAssumption DEF Places
    <3> QED  BY <3>3, <3>4
  <2> QED  BY <1>4, <2>1, <2>2 DEF DispatcherStep
<1>5. ASSUME NEW d \in Dispatchers, Crash(d) PROVE Places'
  <2>1. runs' = runs /\ BusyOnes' \subseteq BusyOnes
    BY <1>5 DEF Crash, Goto, Typed, BusyOnes, Busy, Reading, Holding
  <2> QED  BY <1>2, <2>1
<1>6. ASSUME Surroundings PROVE Places'
  <2>1. at' = at /\ BusyOnes' = BusyOnes
    BY <1>6 DEF Surroundings, PushTarget, BeginMint, AbandonMint, PublishAuthorization,
                Expire, OperatorDispatch, Adjudicate, BusyOnes
  <2>2. CASE \E rid \in records : OperatorDispatch(rid)
    <3>1. PICK rid \in records : OperatorDispatch(rid)
      BY <2>2
    <3>2. Len(runs') = Len(runs) + 1 /\ DOMAIN runs \subseteq DOMAIN runs'
      BY <3>1, OperatorAdds, <1>0
    <3>3. Len(runs) + Cardinality(BusyOnes) < MaxRuns
      BY <3>1 DEF OperatorDispatch, RunsLeft, BusyOnes
    <3> QED  BY <1>0, <1>1, <2>1, <3>2, <3>3, BusyCount, BoundsAssumption
  <2>3. CASE ~(\E rid \in records : OperatorDispatch(rid))
    <3>1. runs' = runs
      BY <1>6, <2>3 DEF Surroundings, PushTarget, BeginMint, AbandonMint,
                        PublishAuthorization, Expire, Adjudicate
    <3> QED  BY <1>2, <2>1, <3>1
  <2> QED  BY <2>2, <2>3
<1> QED  BY <1>3, <1>4, <1>5, <1>6 DEF DispatchNext

LEMMA DispatchKeepsRest ==
    ASSUME Everything, DispatchNext, UNCHANGED workerVars
    PROVE  Reserving' /\ Filed' /\ Standing' /\ Grouped' /\ Claimed'
<1> USE DEF Everything
<1>1. ASSUME NEW d \in Dispatchers, NEW a \in Auths \cup {NoAuth}, Start(d, a)
      PROVE  Reserving' /\ Filed' /\ Standing' /\ Grouped' /\ Claimed'
  <2>1. /\ UNCHANGED <<commits, active, records, runs>> /\ at'[d] = "plan"
        /\ \A e \in Dispatchers : e # d => at'[e] = at[e] /\ snap'[e] = snap[e]
    BY <1>1 DEF Start, Goto, Typed, refVars
  <2> QED  BY <2>1, NobodyBeginsToHold DEF Holding, Admitted
<1>2. ASSUME NEW d \in Dispatchers, DispatcherStep(d)
      PROVE  Reserving' /\ Filed' /\ Standing' /\ Grouped' /\ Claimed'
  <2>1. CASE ReadPlan(d) \/ ReadGate(d) \/ ReadRegistry(d)
    <3>1. /\ UNCHANGED <<commits, active, records, runs>>
          /\ at'[d] \in {"gate", "registry", "admit"}
          /\ \A e \in Dispatchers : e # d => at'[e] = at[e] /\ snap'[e] = snap[e]
      BY <2>1 DEF ReadPlan, ReadGate, ReadRegistry, Goto, Typed, refVars
    <3> QED  BY <3>1, NobodyBeginsToHold DEF Holding, Admitted
  <2>2. CASE Admit(d)
    <3>1. /\ UNCHANGED <<commits, active, records, runs, snap>>
          /\ at'[d] \in {"listing", "refused"}
          /\ at'[d] = "listing" => snap[d].plan \in snap[d].ready
          /\ \A e \in Dispatchers : e # d => at'[e] = at[e]
      BY <2>2 DEF Admit, Admissible, Goto, Typed, refVars
    <3> QED  BY <3>1, NobodyBeginsToHold DEF Holding, Admitted, Busy, Reading
  <2>3. CASE ListActive(d) \/ CheckConsumed(d)
    <3>1. /\ UNCHANGED <<commits, active, records, runs, snap>>
          /\ at[d] \in Admitted /\ at'[d] \in {"spent", "reserve", "refused"}
          /\ \A e \in Dispatchers : e # d => at'[e] = at[e]
      BY <2>3 DEF ListActive, CheckConsumed, Goto, Typed, refVars, Admitted, Busy, Reading
    <3> QED  BY <3>1, NobodyBeginsToHold DEF Holding
  <2>4. CASE Record(d) \/ Consume(d) \/ CheckDrift(d)
    <3>1. /\ UNCHANGED <<commits, active, runs, snap>>
          /\ at[d] \in Holding /\ at[d] \in Admitted
          /\ \A e \in Dispatchers : e # d => at'[e] = at[e]
      BY <2>4 DEF Record, Consume, CheckDrift, Goto, Typed, refVars, Holding, Admitted,
                  Busy, Reading
    <3>2. \A rid \in records' : rid \in records \/ (at[d] = "record" /\ rid = snap[d])
      BY <2>4 DEF Record, Consume, CheckDrift, refVars
    <3> QED  BY <3>1, <3>2, NobodyBeginsToHold
  <2>5. CASE DeleteRecord(d)
    <3>1. /\ UNCHANGED <<commits, active, runs, snap>> /\ records' \subseteq records
          /\ at'[d] = "revoked"
          /\ \A e \in Dispatchers : e # d => at'[e] = at[e]
      BY <2>5 DEF DeleteRecord, Goto, Typed
    <3> QED  BY <3>1, NobodyBeginsToHold DEF Holding, Admitted, Busy, Reading
  <2> QED
    BY <1>2, <2>1, <2>2, <2>3, <2>4, <2>5, ReserveKeeps, DeleteKeeps, DispatchKeeps
       DEF DispatcherStep
<1>3. ASSUME NEW d \in Dispatchers, Crash(d)
      PROVE  Reserving' /\ Filed' /\ Standing' /\ Grouped' /\ Claimed'
  <2>1. /\ UNCHANGED <<commits, active, records, runs, snap>> /\ at'[d] = "crashed"
        /\ \A e \in Dispatchers : e # d => at'[e] = at[e]
    BY <1>3 DEF Crash, Goto, Typed, refVars
  <2> QED  BY <2>1, NobodyBeginsToHold DEF Holding, Admitted, Busy, Reading
<1>4. ASSUME BeginMint \/ AbandonMint \/ \E a \in Auths : PublishAuthorization(a) \/ Expire(a)
      PROVE  Reserving' /\ Filed' /\ Standing' /\ Grouped' /\ Claimed'
  <2>1. UNCHANGED <<commits, active, records, runs, at, snap>>
    BY <1>4 DEF BeginMint, AbandonMint, PublishAuthorization, Expire, refVars
  <2> QED  BY <2>1, NobodyBeginsToHold
<1> QED
  BY <1>1, <1>2, <1>3, <1>4, OperatorKeeps, AdjudicateKeeps, PushKeeps
     DEF DispatchNext, Surroundings

-----------------------------------------------------------------------------
(* All of it together is inductive.                                        *)
LEMMA EverythingInitially == Init => Everything
<1> SUFFICES ASSUME Init PROVE Everything
    OBVIOUS
<1>1. BusyOnes = {}
  BY DEF Init, DispatchInit, BusyOnes, Busy, Reading, Holding
<1>2. Cardinality(BusyOnes) = 0
  BY <1>1, FS_EmptySet
<1>3. Places
  BY <1>2, BoundsAssumption DEF Init, DispatchInit, Places, Steps, Slots
<1>4. Snapshots /\ RecordsKept /\ Reserving
  BY DEF Init, DispatchInit, Snapshots, RecordsKept, Recorded, Reserving, ByAuthority,
         HasPlan, HasGate, HasRegistry, Admitted, Busy, Reading, Holding
<1>5. Filed /\ Standing /\ Grouped /\ Claimed
  BY DEF Init, DispatchInit, Filed, Standing, Grouped, Claimed, Claimers
<1> QED  BY <1>3, <1>4, <1>5, TypedInitially DEF Init, Everything

LEMMA EverythingPreserved == Everything /\ [Next]_vars => Everything'
<1> SUFFICES ASSUME Everything, [Next]_vars PROVE Everything'
    OBVIOUS
<1>1. ASSUME DispatchNext, UNCHANGED workerVars PROVE Everything'
  BY <1>1, TypedPreserved, SnapshotsPreserved, RecordsPreserved, DispatchKeepsPlaces,
     DispatchKeepsRest DEF Everything
<1>2. ASSUME NEW i \in DOMAIN runs, WorkerStep(i) PROVE Everything'
  <2>1. Effect(i) /\ Course(i)
    BY <1>2, StepEffect, StepCourse DEF Everything
  <2>2. Typed' /\ Places' /\ Grown
    BY <2>1, WorkerKeepsTypes DEF Everything
  <2> QED
    BY <2>1, <2>2, WorkerKeepsSnapshots, WorkerKeepsRecords, WorkerKeepsReserving,
       WorkerKeepsFiled, WorkerKeepsStanding, WorkerKeepsGrouped, WorkerKeepsClaimed
       DEF Everything
<1>3. CASE UNCHANGED vars
  <2>1. UNCHANGED <<commits, active, records, runs, at, snap, step, start, tree, claims, ran>>
    BY <1>3 DEF vars, dispatchVars, refVars, workerVars
  <2>2. Typed' /\ Places' /\ Snapshots' /\ RecordsKept'
    BY <2>1 DEF Everything, Typed, Places, BusyOnes, Snapshots, SameFiles, Tip, Latest,
                ByAuthority, RecordsKept
  <2>3. Reserving' /\ Filed' /\ Standing' /\ Grouped' /\ Claimed'
    BY <2>1, NobodyBeginsToHold DEF workerVars, Everything
  <2> QED  BY <2>2, <2>3 DEF Everything
<1> QED  BY <1>1, <1>2, <1>3 DEF Next, WorkerStep

LEMMA EverythingHolds == Spec => []Everything
BY EverythingInitially, EverythingPreserved, PTL DEF Spec

(* single_claim of the workflow: of all the runs that carry a reservation, *)
(* in whatever order they are started, lost or cancelled, one at most      *)
(* executes it.                                                            *)
THEOREM ReservationsExecuteOnce == Spec => []ExecutedOnce
<1>1. Everything => ExecutedOnce
  BY DEF Everything, Claimed, Claimers, ExecutedOnce
<1> QED  BY <1>1, EverythingHolds, PTL

(* What is executed is the lease of the commit that was reserved, though   *)
(* checkout, start_sha and claim are looked at one after the other.        *)
THEOREM ReservedCommitIsExecuted == Spec => []ExecutesReservedCommit
<1>1. Everything => ExecutesReservedCommit
  BY DEF Everything, Claimed, ExecutesReservedCommit
<1> QED  BY <1>1, EverythingHolds, PTL

(* A run that executes keeps its reservation to the end: nobody who        *)
(* deletes refs by name deletes its.                                       *)
THEOREM ReservationIsKept == Spec => []HolderKeepsReservation
<1>1. ASSUME Everything PROVE HolderKeepsReservation
  <2> SUFFICES ASSUME NEW i \in ran, step[i] \in Executing
               PROVE  RefsAt(i, start[i]) /\ Rid(i) \in claims
    BY DEF HolderKeepsReservation, Executing
  <2>1. i \in DOMAIN runs
    BY <1>1 DEF Everything, Places
  <2>2. active[Work(i)] = Rid(i).sha /\ start[i] = Rid(i).sha
    BY <1>1, <2>1 DEF Everything, Claimed
  <2>3. Rid(i) \in claims /\ Rid(i) \in records
    BY <1>1, <2>1 DEF Everything, Claimed, Claimers, RecordsKept, Rid
  <2> QED  BY <2>2, <2>3 DEF RefsAt
<1> QED  BY <1>1, EverythingHolds, PTL

(* With the workers at work, too, a reservation gets one worker from the   *)
(* authority.                                                              *)
THEOREM WorkersDispatchedOnce == Spec => []OneDispatchPerReservation
<1>1. Everything => OneDispatchPerReservation
  BY DEF Everything, RecordsKept, OneDispatchPerReservation
<1> QED  BY <1>1, EverythingHolds, PTL

LEMMA AppendExtends ==
    ASSUME NEW S, NEW s \in Seq(S), NEW c \in S
    PROVE  SubSeq(Append(s, c), 1, Len(s)) = s
<1> DEFINE t == SubSeq(Append(s, c), 1, Len(s))
<1>1. t \in Seq(S) /\ Len(t) = Len(s) /\ \A k \in 1 .. Len(s) : t[k] = s[k]
  OBVIOUS
<1> HIDE DEF t
<1>2. t = s
  BY <1>1, SeqEqual
<1> QED  BY <1>2 DEF t

(* A promotion is made on the commit it was reserved for, of a work still  *)
(* ready there, and takes nothing from the branch.                         *)
THEOREM PromotionsExtend == Spec => PromotionExtendsReservation
<1> DEFINE Extends(i) ==
             step[i] = "reconciled" /\ commits' # commits /\ step' # step =>
                 /\ Tip = Rid(i).sha
                 /\ Work(i) \in Latest.ready
                 /\ SubSeq(commits', 1, Tip) = commits
<1>1. ASSUME Everything, [Next]_vars, NEW i \in DOMAIN runs PROVE Extends(i)
  <2> SUFFICES ASSUME step[i] = "reconciled", commits' # commits, step' # step
               PROVE  /\ Tip = Rid(i).sha
                      /\ Work(i) \in Latest.ready
                      /\ SubSeq(commits', 1, Tip) = commits
    OBVIOUS
  <2> USE <1>1 DEF Everything
  <2>1. PICK j \in DOMAIN runs : WorkerStep(j)
    BY DEF Next, vars, workerVars, WorkerStep
  <2>2. Effect(j)
    BY <2>1, StepEffect
  <2>3. step[j] = "reconciled" /\ Tip = start[j] /\ commits' = Append(commits, Integrated(j))
    BY <2>2 DEF Effect
  <2>4. j = i
    BY <2>3 DEF Grouped, InGroup
  <2>5. i \in ran /\ start[i] = Rid(i).sha
    BY DEF Claimed, Executing
  <2>6. Tip = Rid(i).sha
    BY <2>3, <2>4, <2>5
  <2>7. Work(i) \in Latest.ready
    BY <2>6 DEF RecordsKept, Filed, Rid, Work
  <2>8. SubSeq(commits', 1, Tip) = commits
    <3>1. Integrated(i) \in Content
      BY <2>3, <2>4, IntegratedIsContent
    <3> QED  BY <2>3, <2>4, <3>1, AppendExtends DEF Tip, Typed
  <2> QED  BY <2>6, <2>7, <2>8
<1>2. Everything /\ [Next]_vars => [\A i \in DOMAIN runs : Extends(i)]_vars
  BY <1>1
<1> QED
  BY <1>2, EverythingHolds, PTL DEF Spec, PromotionExtendsReservation
=============================================================================
