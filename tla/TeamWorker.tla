----------------------------- MODULE TeamWorker -----------------------------
(***************************************************************************)
(* The Team V2 worker (.github/workflows/hooshyaros-team-worker.yml) over  *)
(* the refs and the target branch of TeamDispatch, with its jobs enabled.  *)
(* A run waits in a concurrency group, verifies its reservation, claims it *)
(* by creating a ref, executes the lease on a branch of its own, checks    *)
(* the refs and the target again, pushes the target, and deletes the       *)
(* active ref.  Whatever it finds amiss ends it, the refs as they are.     *)
(***************************************************************************)
EXTENDS TeamDispatch

VARIABLES
    step,       \* where each run is
    start,      \* start_sha of a run; 0: not read yet
    tree,       \* the plan of its checkout
    claims,     \* refs/team-v2/claims/<reservation>
    ran         \* history: the runs whose lease was executed

workerVars == <<step, start, tree, claims, ran>>
vars == <<dispatchVars, workerVars>>

Slots == 1 .. MaxRuns
InGroup == {"verified", "captured", "claimed", "executing", "judged",
            "projected", "reconciled", "pushed"}

Init ==
    /\ DispatchInit
    /\ step = [i \in Slots |-> "queued"]
    /\ start = [i \in Slots |-> 0]
    /\ tree = [i \in Slots |-> NoWork]
    /\ claims = {} /\ ran = {}

Rid(i) == runs[i].rid
Work(i) == Rid(i).plan
Advance(i, s) == step' = [step EXCEPT ![i] = s]

End(i, s) ==
    /\ Advance(i, s)
    /\ runs' = [runs EXCEPT ![i].over = TRUE]

(* A step of a script: on, or out with the job.                            *)
OnIf(test, i, s) ==
    IF test THEN Advance(i, s) /\ UNCHANGED runs ELSE End(i, "failed")

(* Both refs of the reservation stand, and stand at sha.                   *)
RefsAt(i, sha) ==
    active[Work(i)] = sha /\ Rid(i) \in records /\ Rid(i).sha = sha

-----------------------------------------------------------------------------
(* The concurrency group: one run at a time, and one that waits; a newer   *)
(* one takes its place.                                                    *)
CancelWaiting(i) ==
    /\ step[i] = "queued"
    /\ \E j \in DOMAIN runs : j > i /\ step[j] = "queued"
    /\ \E j \in DOMAIN runs : step[j] \in InGroup
    /\ End(i, "cancelled")
    /\ UNCHANGED <<commits, mintVars, refVars, at, snap, faults, start, tree, claims, ran>>

(* Fault: a run without a reservation waits for one.                       *)
VerifyWaiting(i) ==
    /\ step[i] = "queued"
    /\ \A j \in DOMAIN runs : step[j] \notin InGroup
    /\ active[Work(i)] # 0 /\ RefsAt(i, active[Work(i)])
    /\ tree' = [tree EXCEPT ![i] = Latest.plan]
    /\ Advance(i, "verified")
    /\ UNCHANGED <<commits, mintVars, refVars, runs, at, snap, faults, start, claims, ran>>

(* Checkout of the target, then the verification of the reservation.       *)
Verify(i) ==
    /\ step[i] = "queued"
    /\ \A j \in DOMAIN runs : step[j] \notin InGroup
    /\ tree' = [tree EXCEPT ![i] = Latest.plan]
    /\ OnIf(active[Work(i)] # 0 /\ RefsAt(i, active[Work(i)]), i, "verified")
    /\ UNCHANGED <<commits, mintVars, refVars, at, snap, faults, start, claims, ran>>

(* Plan admission and the leases come from the checkout; start_sha from    *)
(* another look at the branch.                                             *)
Capture(i) ==
    /\ step[i] = "verified"
    /\ start' = [start EXCEPT ![i] = Tip]
    /\ OnIf(tree[i] # NoWork, i, "captured")
    /\ UNCHANGED <<commits, mintVars, refVars, at, snap, faults, tree, claims, ran>>

(* Fault: an existing claim is taken for this run's own.                   *)
ClaimReused(i) ==
    /\ step[i] = "captured"
    /\ \/ /\ tree[i] = Work(i) /\ RefsAt(i, start[i])
          /\ claims' = claims \cup {Rid(i)}
          /\ OnIf(TRUE, i, "claimed")
       \/ /\ ~(tree[i] = Work(i) /\ RefsAt(i, start[i]))
          /\ End(i, "failed")
          /\ UNCHANGED claims
    /\ UNCHANGED <<commits, mintVars, refVars, at, snap, faults, start, tree, ran>>

Claim(i) ==
    /\ step[i] = "captured"
    /\ \/ /\ tree[i] = Work(i) /\ RefsAt(i, start[i])
          /\ \E answer \in CreateAnswers(Rid(i) \in claims) :
              /\ claims' = IF Made(answer) THEN claims \cup {Rid(i)} ELSE claims
              /\ OnIf(answer = "created", i, "claimed")
              /\ Count(answer)
       \/ /\ ~(tree[i] = Work(i) /\ RefsAt(i, start[i]))
          /\ End(i, "failed")
          /\ UNCHANGED <<claims, faults>>
    /\ UNCHANGED <<commits, mintVars, refVars, at, snap, start, tree, ran>>

(* Fault: start_sha is not compared with the reservation's.                *)
FinalStateUncompared(i) ==
    /\ step[i] = "claimed"
    /\ start' = [start EXCEPT ![i] = Tip]
    /\ Advance(i, "executing")
    /\ ran' = ran \cup {i}
    /\ UNCHANGED <<commits, mintVars, refVars, runs, at, snap, faults, tree, claims>>

(* Capture final immutable execution state: start_sha is read anew, and    *)
(* must be the reservation's.                                              *)
FinalState(i) ==
    /\ step[i] = "claimed"
    /\ start' = [start EXCEPT ![i] = Tip]
    /\ OnIf(Tip = Rid(i).sha, i, "executing")
    /\ ran' = IF Tip = Rid(i).sha THEN ran \cup {i} ELSE ran
    /\ UNCHANGED <<commits, mintVars, refVars, at, snap, faults, tree, claims>>

(* The jobs of the models, from qualification to quality control; only a   *)
(* persisted PASS lets the integration begin.                              *)
Execute(i) ==
    /\ step[i] = "executing"
    /\ \E passed \in BOOLEAN : OnIf(passed, i, "judged")
    /\ UNCHANGED <<commits, mintVars, refVars, at, snap, faults, start, tree, claims, ran>>

(* Project authoritative claim into registry.                              *)
Project(i) ==
    /\ step[i] = "judged"
    /\ OnIf(Rid(i) \in claims /\ RefsAt(i, start[i]), i, "projected")
    /\ UNCHANGED <<commits, mintVars, refVars, at, snap, faults, start, tree, claims, ran>>

Reconcile(i) ==
    /\ step[i] = "projected"
    /\ OnIf(Tip = start[i], i, "reconciled")
    /\ UNCHANGED <<commits, mintVars, refVars, at, snap, faults, start, tree, claims, ran>>

(* The registry row becomes PROMOTED; the plan stays.                      *)
Integrated(i) == [commits[start[i]] EXCEPT !.ready = @ \ {Work(i)}]

(* git push refuses what is not a fast-forward; a push whose answer is     *)
(* lost has moved the branch and failed the job.                           *)
PushAnswers(fast) ==
    IF ~fast THEN {"conflict"}
    ELSE {"created"} \cup (IF CanFail THEN {"failed", "lost"} ELSE {})

(* Fault: git push --force.                                                *)
PushForced(i) ==
    /\ step[i] = "reconciled"
    /\ commits' = Append(SubSeq(commits, 1, start[i]), Integrated(i))
    /\ OnIf(TRUE, i, "pushed")
    /\ UNCHANGED <<mintVars, refVars, at, snap, faults, start, tree, claims, ran>>

Push(i) ==
    /\ step[i] = "reconciled"
    /\ \E answer \in PushAnswers(Tip = start[i]) :
        /\ commits' = IF Made(answer) THEN Append(commits, Integrated(i)) ELSE commits
        /\ OnIf(answer = "created", i, "pushed")
        /\ Count(answer)
    /\ UNCHANGED <<mintVars, refVars, at, snap, start, tree, claims, ran>>

(* The active ref is deleted by name.  Here a failure ends the run.        *)
Release(i) ==
    /\ step[i] = "pushed"
    /\ \E answer \in DeleteAnswers :
        /\ active' = IF answer = "deleted" THEN [active EXCEPT ![Work(i)] = 0] ELSE active
        /\ End(i, IF answer = "deleted" THEN "done" ELSE "failed")
        /\ Count(answer)
    /\ UNCHANGED <<commits, mintVars, records, consumed, at, snap, start, tree, claims, ran>>

(* A lost runner, the timeout of a job.                                    *)
RunLost(i) ==
    /\ step[i] \in InGroup
    /\ CanFail
    /\ End(i, "failed")
    /\ faults' = faults + 1
    /\ UNCHANGED <<commits, mintVars, refVars, at, snap, start, tree, claims, ran>>

RunStep(i) ==
    \/ Verify(i) \/ Capture(i) \/ Claim(i) \/ FinalState(i) \/ Execute(i)
    \/ Project(i) \/ Reconcile(i) \/ Push(i) \/ Release(i)

Next ==
    \/ DispatchNext /\ UNCHANGED workerVars
    \/ \E i \in DOMAIN runs : RunStep(i) \/ CancelWaiting(i) \/ RunLost(i)

(* GitHub starts the runs that wait and carries on those it has started.   *)
Spec ==
    /\ Init /\ [][Next]_vars
    /\ \A i \in Slots : WF_vars(i \in DOMAIN runs /\ RunStep(i))

-----------------------------------------------------------------------------
(* Properties.                                                             *)

(* single_claim: of the runs that carry one reservation, the operator's    *)
(* included, at most one ever executes its lease.                          *)
ExecutedOnce ==
    \A i, j \in ran : Rid(i) = Rid(j) => i = j

(* What is executed is what was admitted: the lease comes from the very    *)
(* commit the reservation is for, though checkout, verification, claim and *)
(* the two readings of start_sha are apart.                                *)
ExecutesReservedCommit ==
    \A i \in ran : start[i] = Rid(i).sha /\ tree[i] = commits[Rid(i).sha].plan

(* From its execution to its push a run holds the reservation: no other    *)
(* run or dispatcher, by deleting refs by name, takes it away.             *)
HolderKeepsReservation ==
    \A i \in ran :
        step[i] \in {"executing", "judged", "projected", "reconciled", "pushed"} =>
            RefsAt(i, start[i]) /\ Rid(i) \in claims

(* A promotion lands on the commit its reservation is for, with the work   *)
(* still ready there, and takes nothing away: neither a push while the     *)
(* wave ran, nor an earlier promotion, is overwritten or promoted over.    *)
PromotionExtendsReservation ==
    [][\A i \in DOMAIN runs :
        step[i] = "reconciled" /\ commits' # commits /\ step' # step =>
            /\ Tip = Rid(i).sha
            /\ Work(i) \in Latest.ready
            /\ SubSeq(commits', 1, Tip) = commits]_vars

(* Every run comes to an end, whoever is before it in the group.           *)
RunsEnd ==
    \A i \in Slots : i \in DOMAIN runs ~> (i \in DOMAIN runs /\ runs[i].over)
=============================================================================
