---------------------------- MODULE TeamDispatch ----------------------------
(***************************************************************************)
(* The Team V2 dispatch authority (scripts/team-v2-dispatch-authority.cjs  *)
(* and its libraries).  A dispatcher reads the target branch file by file, *)
(* admits the plan's lease, reserves its work by creating two git refs,    *)
(* spends a one-shot authorization by creating a third, looks at the       *)
(* target again, and dispatches a worker.  A ref is created by one call    *)
(* that fails when the ref exists; a call may also fail, or succeed and    *)
(* have its answer lost.  Around it people push, an owner mints            *)
(* authorizations, an operator starts workers and clears reservations by   *)
(* hand, and dispatchers die.                                              *)
(***************************************************************************)
EXTENDS Naturals, Sequences, FiniteSets

CONSTANTS
    Dispatchers,    \* processes that may run the script at the same time
    Works,          \* work ids
    NoWork,         \* the work of a plan without exactly one lawful lease
    Auths, NoAuth,  \* ids of acceptance authorizations; none given
    Contents,       \* what a commit of the target can hold
    FirstContent,
    OperatorStarts, \* does the operator start workers by hand
    MaxCommits,     \* bound: commits that people push
    MaxRuns,        \* bound: worker runs
    MaxFaults       \* bound: failed calls and dead dispatchers

(* plan: the work of NEXT-WAVE-PLAN's lease; ready: the works the registry *)
(* admits; held: the acceptance gate is ARMED with hold_after_pass.        *)
Content == [plan : Works \cup {NoWork}, ready : SUBSET Works, held : BOOLEAN]

ASSUME NamesAssumption == NoWork \notin Works /\ NoAuth \notin Auths
ASSUME ContentsAssumption ==
    Contents \subseteq Content /\ FirstContent \in Content
ASSUME DispatchersAssumption == IsFiniteSet(Dispatchers)
ASSUME SwitchAssumption == OperatorStarts \in BOOLEAN
ASSUME BoundsAssumption ==
    /\ MaxCommits \in Nat \ {0} /\ MaxRuns \in Nat /\ MaxFaults \in Nat

VARIABLES
    commits,        \* the target branch; a commit's SHA is its position
    auths,          \* authorizations on main; sha = 0: not minted
    expired,        \* authorizations whose not_after has passed
    minting,        \* the SHA the minting job has read; 0: no such job
    active,         \* refs/team-v2/active/<work>: a SHA, or 0
    records,        \* refs/team-v2/reservations/<id>
    consumed,       \* refs/team-v2/auth-consumed/<authorization>
    runs,           \* worker runs, oldest first
    at,             \* where each dispatcher is
    snap,           \* what it has read
    faults

refVars == <<active, records, consumed>>
mintVars == <<auths, expired, minting>>
dispatchVars == <<commits, mintVars, refVars, runs, at, snap, faults>>

Shas == 1 .. MaxCommits + MaxRuns
Reading == {"plan", "gate", "registry", "admit", "listing", "spent"}
Holding == {"record", "consume", "drift", "dispatch", "retreat", "revoke"}
Busy == Reading \cup Holding \cup {"reserve", "revokeRecord"}
Ended == {"idle", "refused", "revoked", "preserved", "dispatched", "crashed"}

(* A reservation id is a hash of all that was read.                        *)
Reservation == [auth : Auths \cup {NoAuth}, sha : Shas \cup {0},
                plan : Works \cup {NoWork}, ready : SUBSET Works, held : BOOLEAN]

Unread(a, sha) ==
    [auth |-> a, sha |-> sha, plan |-> NoWork, ready |-> {}, held |-> TRUE]

DispatchInit ==
    /\ commits = <<FirstContent>>
    /\ auths = [a \in Auths |-> [sha |-> 0, plan |-> NoWork]]
    /\ expired = {} /\ minting = 0
    /\ active = [w \in Works |-> 0] /\ records = {} /\ consumed = {}
    /\ runs = <<>>
    /\ at = [d \in Dispatchers |-> "idle"]
    /\ snap = [d \in Dispatchers |-> Unread(NoAuth, 0)]
    /\ faults = 0

Tip == Len(commits)
Latest == commits[Tip]

-----------------------------------------------------------------------------
(* The calls of the script to the repository's API.                        *)

CanFail == faults < MaxFaults

(* createRef: "lost" is a ref that was made by a call that failed.         *)
CreateAnswers(exists) ==
    (IF exists THEN {"conflict"} ELSE {"created"})
    \cup (IF ~CanFail THEN {} ELSE IF exists THEN {"failed"} ELSE {"failed", "lost"})

Made(answer) == answer \in {"created", "lost"}

Count(answer) ==
    faults' = IF answer \in {"failed", "lost"} THEN faults + 1 ELSE faults

(* deleteRef swallows its failure: afterwards the ref is there or not.     *)
DeleteAnswers == {"deleted"} \cup (IF CanFail THEN {"failed"} ELSE {})

Goto(d, place) == at' = [at EXCEPT ![d] = place]

-----------------------------------------------------------------------------
(* The reads, in their order; each sees the branch of that moment.         *)

(* Bound: what runs there are or may come of a busy dispatcher.            *)
RunsLeft == Len(runs) + Cardinality({d \in Dispatchers : at[d] \in Busy}) < MaxRuns

Start(d, a) ==
    /\ at[d] \in Ended
    /\ RunsLeft
    /\ snap' = [snap EXCEPT ![d] = Unread(a, Tip)]
    /\ Goto(d, "plan")
    /\ UNCHANGED <<commits, mintVars, refVars, runs, faults>>

ReadPlan(d) ==
    /\ at[d] = "plan"
    /\ snap' = [snap EXCEPT ![d].plan = Latest.plan]
    /\ Goto(d, "gate")
    /\ UNCHANGED <<commits, mintVars, refVars, runs, faults>>

ReadGate(d) ==
    /\ at[d] = "gate"
    /\ snap' = [snap EXCEPT ![d].held = Latest.held]
    /\ Goto(d, "registry")
    /\ UNCHANGED <<commits, mintVars, refVars, runs, faults>>

ReadRegistry(d) ==
    /\ at[d] = "registry"
    /\ snap' = [snap EXCEPT ![d].ready = Latest.ready]
    /\ Goto(d, "admit")
    /\ UNCHANGED <<commits, mintVars, refVars, runs, faults>>

(* validateAuthorization, and the bindings evaluateGate looks at.          *)
AuthorizationValid(s) ==
    /\ auths[s.auth].sha = s.sha
    /\ auths[s.auth].plan = s.plan
    /\ s.auth \notin expired

(* admissionViolations finds nothing.                                      *)
Admissible(s) ==
    /\ s.plan \in s.ready
    /\ s.held => s.auth # NoAuth
    /\ s.auth # NoAuth => AuthorizationValid(s)

Admit(d) ==
    /\ at[d] = "admit"
    /\ Goto(d, IF Admissible(snap[d]) THEN "listing" ELSE "refused")
    /\ UNCHANGED <<commits, mintVars, refVars, runs, snap, faults>>

(* The runs the API lists for ?branch=TARGET_BRANCH.                       *)
ListedActive == {i \in DOMAIN runs : ~runs[i].over /\ runs[i].branch = "target"}

ListActive(d) ==
    /\ at[d] = "listing"
    /\ Goto(d, IF ListedActive = {} THEN "spent" ELSE "refused")
    /\ UNCHANGED <<commits, mintVars, refVars, runs, snap, faults>>

(* A look at the consumed ref that fails counts as its absence.            *)
CheckConsumed(d) ==
    /\ at[d] = "spent"
    /\ \E failed \in {FALSE, CanFail /\ snap[d].auth # NoAuth} :
        /\ Goto(d, IF ~failed /\ snap[d].auth \in consumed THEN "refused" ELSE "reserve")
        /\ faults' = IF failed THEN faults + 1 ELSE faults
    /\ UNCHANGED <<commits, mintVars, refVars, runs, snap>>

-----------------------------------------------------------------------------
(* The reservation.                                                        *)

(* Fault: a dispatcher that loses the reservation cleans up after itself.  *)
ReserveRetreating(d) ==
    LET w == snap[d].plan IN
    /\ at[d] = "reserve"
    /\ \E answer \in CreateAnswers(active[w] # 0) :
        /\ active' = IF Made(answer) THEN [active EXCEPT ![w] = snap[d].sha] ELSE active
        /\ Goto(d, IF answer = "created" THEN "record" ELSE "retreat")
        /\ Count(answer)
    /\ UNCHANGED <<commits, mintVars, records, consumed, runs, snap>>

Reserve(d) ==
    LET w == snap[d].plan IN
    /\ at[d] = "reserve"
    /\ \E answer \in CreateAnswers(active[w] # 0) :
        /\ active' = IF Made(answer) THEN [active EXCEPT ![w] = snap[d].sha] ELSE active
        /\ Goto(d, IF answer = "created" THEN "record" ELSE "refused")
        /\ Count(answer)
    /\ UNCHANGED <<commits, mintVars, records, consumed, runs, snap>>

(* Fault: a record conflict ends the script at once.                       *)
RecordWithoutRetreat(d) ==
    /\ at[d] = "record"
    /\ \E answer \in CreateAnswers(snap[d] \in records) :
        /\ records' = IF Made(answer) THEN records \cup {snap[d]} ELSE records
        /\ Goto(d, IF answer = "created" THEN "consume" ELSE "refused")
        /\ Count(answer)
    /\ UNCHANGED <<commits, mintVars, active, consumed, runs, snap>>

(* Fault: a record that exists is taken for this dispatcher's own.         *)
RecordReused(d) ==
    /\ at[d] = "record"
    /\ \E answer \in CreateAnswers(snap[d] \in records) :
        /\ records' = IF Made(answer) THEN records \cup {snap[d]} ELSE records
        /\ Goto(d, IF answer \in {"created", "conflict"} THEN "consume" ELSE "retreat")
        /\ Count(answer)
    /\ UNCHANGED <<commits, mintVars, active, consumed, runs, snap>>

Record(d) ==
    /\ at[d] = "record"
    /\ \E answer \in CreateAnswers(snap[d] \in records) :
        /\ records' = IF Made(answer) THEN records \cup {snap[d]} ELSE records
        /\ Goto(d, IF answer = "created" THEN "consume" ELSE "retreat")
        /\ Count(answer)
    /\ UNCHANGED <<commits, mintVars, active, consumed, runs, snap>>

(* Fault: consumption is best effort.                                      *)
ConsumeBestEffort(d) ==
    LET a == snap[d].auth IN
    /\ at[d] = "consume"
    /\ \/ /\ a = NoAuth
          /\ Goto(d, "drift")
          /\ UNCHANGED <<consumed, faults>>
       \/ /\ a # NoAuth
          /\ \E answer \in CreateAnswers(a \in consumed) :
              /\ consumed' = IF Made(answer) THEN consumed \cup {a} ELSE consumed
              /\ Goto(d, "drift")
              /\ Count(answer)
    /\ UNCHANGED <<commits, mintVars, active, records, runs, snap>>

Consume(d) ==
    LET a == snap[d].auth IN
    /\ at[d] = "consume"
    /\ \/ /\ a = NoAuth
          /\ Goto(d, "drift")
          /\ UNCHANGED <<consumed, faults>>
       \/ /\ a # NoAuth
          /\ \E answer \in CreateAnswers(a \in consumed) :
              /\ consumed' = IF Made(answer) THEN consumed \cup {a} ELSE consumed
              /\ Goto(d, IF answer = "created" THEN "drift" ELSE "revoke")
              /\ Count(answer)
    /\ UNCHANGED <<commits, mintVars, active, records, runs, snap>>

(* Fault: the target is not looked at again.                               *)
CheckDriftSkipped(d) ==
    /\ at[d] = "drift"
    /\ Goto(d, "dispatch")
    /\ UNCHANGED <<commits, mintVars, refVars, runs, snap, faults>>

CheckDrift(d) ==
    /\ at[d] = "drift"
    /\ Goto(d, IF Tip = snap[d].sha THEN "dispatch" ELSE "revoke")
    /\ UNCHANGED <<commits, mintVars, refVars, runs, snap, faults>>

(* deleteRef(rref), by name, whoever made it: after a record conflict the  *)
(* script ends, else the record is next.                                   *)
DeleteActive(d) ==
    /\ at[d] \in {"retreat", "revoke"}
    /\ \E answer \in DeleteAnswers :
        /\ active' = IF answer = "deleted"
                     THEN [active EXCEPT ![snap[d].plan] = 0] ELSE active
        /\ Count(answer)
    /\ Goto(d, IF at[d] = "retreat" THEN "refused" ELSE "revokeRecord")
    /\ UNCHANGED <<commits, mintVars, records, consumed, runs, snap>>

DeleteRecord(d) ==
    /\ at[d] = "revokeRecord"
    /\ \E answer \in DeleteAnswers :
        /\ records' = IF answer = "deleted" THEN records \ {snap[d]} ELSE records
        /\ Count(answer)
    /\ Goto(d, "revoked")
    /\ UNCHANGED <<commits, mintVars, active, consumed, runs, snap>>

NewRun(rid, branch, by) ==
    Append(runs, [rid |-> rid, branch |-> branch, by |-> by, over |-> FALSE])

(* Fault: a dispatch that failed takes its reservation back.               *)
DispatchOrRevoke(d) ==
    /\ at[d] = "dispatch"
    /\ \E answer \in CreateAnswers(FALSE) :
        /\ runs' = IF Made(answer) THEN NewRun(snap[d], "main", "authority") ELSE runs
        /\ Goto(d, IF answer = "created" THEN "dispatched" ELSE "revoke")
        /\ Count(answer)
    /\ UNCHANGED <<commits, mintVars, refVars, snap>>

(* The workflow is dispatched on main.                                     *)
Dispatch(d) ==
    /\ at[d] = "dispatch"
    /\ \E answer \in CreateAnswers(FALSE) :
        /\ runs' = IF Made(answer) THEN NewRun(snap[d], "main", "authority") ELSE runs
        /\ Goto(d, IF answer = "created" THEN "dispatched" ELSE "preserved")
        /\ Count(answer)
    /\ UNCHANGED <<commits, mintVars, refVars, snap>>

(* A read that throws, the job's timeout, a lost runner.                   *)
Crash(d) ==
    /\ at[d] \in Busy
    /\ CanFail
    /\ Goto(d, "crashed")
    /\ faults' = faults + 1
    /\ UNCHANGED <<commits, mintVars, refVars, runs, snap>>

DispatcherStep(d) ==
    \/ ReadPlan(d) \/ ReadGate(d) \/ ReadRegistry(d)
    \/ Admit(d) \/ ListActive(d) \/ CheckConsumed(d)
    \/ Reserve(d) \/ Record(d) \/ Consume(d) \/ CheckDrift(d)
    \/ DeleteActive(d) \/ DeleteRecord(d)
    \/ Dispatch(d)

-----------------------------------------------------------------------------
(* The surroundings.                                                       *)

(* People, and the synthesis of a next wave, push a plan and a registry.   *)
PushTarget(c) ==
    /\ Tip < MaxCommits
    /\ commits' = Append(commits, c)
    /\ UNCHANGED <<mintVars, refVars, runs, at, snap, faults>>

(* team-acceptance-authorization.yml: one job at a time; it reads the SHA, *)
(* then the plan, the gate and the authorizations there are.               *)
BeginMint ==
    /\ minting = 0
    /\ \E a \in Auths : auths[a].sha = 0
    /\ minting' = Tip
    /\ UNCHANGED <<commits, auths, expired, refVars, runs, at, snap, faults>>

LiveAuthorizations == {a \in Auths \ (consumed \cup expired) : auths[a].sha # 0}

PublishAuthorization(a) ==
    /\ minting # 0 /\ auths[a].sha = 0
    /\ Latest.held /\ Latest.plan # NoWork
    /\ LiveAuthorizations = {}
    /\ auths' = [auths EXCEPT ![a] = [sha |-> minting, plan |-> Latest.plan]]
    /\ minting' = 0
    /\ UNCHANGED <<commits, expired, refVars, runs, at, snap, faults>>

(* The request is refused, or its job fails.                               *)
AbandonMint ==
    /\ minting # 0
    /\ minting' = 0
    /\ UNCHANGED <<commits, auths, expired, refVars, runs, at, snap, faults>>

Expire(a) ==
    /\ auths[a].sha # 0 /\ a \notin expired
    /\ expired' = expired \cup {a}
    /\ UNCHANGED <<commits, auths, minting, refVars, runs, at, snap, faults>>

(* The operator starts a worker for a reservation that stands and that no  *)
(* dispatcher still works on, choosing the target branch in the form of    *)
(* the workflow.                                                           *)
OperatorDispatch(rid) ==
    /\ OperatorStarts /\ RunsLeft
    /\ active[rid.plan] = rid.sha
    /\ \A d \in Dispatchers :
        /\ at[d] \in Holding => snap[d].plan # rid.plan
        /\ at[d] = "revokeRecord" => snap[d] # rid
    /\ runs' = NewRun(rid, "target", "operator")
    /\ UNCHANGED <<commits, mintVars, refVars, at, snap, faults>>

(* The adjudication of line 391: the reservation of a work that nobody     *)
(* works on is cleared.                                                    *)
Adjudicate(w) ==
    /\ active[w] # 0
    /\ \A d \in Dispatchers : at[d] \in Holding => snap[d].plan # w
    /\ \A i \in DOMAIN runs : runs[i].rid.plan = w => runs[i].over
    /\ active' = [active EXCEPT ![w] = 0]
    /\ UNCHANGED <<commits, mintVars, records, consumed, runs, at, snap, faults>>

Surroundings ==
    \/ \E c \in Contents : PushTarget(c)
    \/ BeginMint \/ AbandonMint
    \/ \E a \in Auths : PublishAuthorization(a) \/ Expire(a)
    \/ \E rid \in records : OperatorDispatch(rid)
    \/ \E w \in Works : Adjudicate(w)

DispatchNext ==
    \/ \E d \in Dispatchers, a \in Auths \cup {NoAuth} : Start(d, a)
    \/ \E d \in Dispatchers : DispatcherStep(d) \/ Crash(d)
    \/ Surroundings

DispatchSpec == DispatchInit /\ [][DispatchNext]_dispatchVars

-----------------------------------------------------------------------------
(* Properties.                                                             *)

ByAuthority == {i \in DOMAIN runs : runs[i].by = "authority"}

(* The files the authority reads one by one are those of a single commit   *)
(* whenever it dispatches: what it admitted is what stands at the SHA it   *)
(* reserved.                                                               *)
DispatchedFromOneCommit ==
    \A i \in ByAuthority :
        LET rid == runs[i].rid IN
        commits[rid.sha] = [plan |-> rid.plan, ready |-> rid.ready, held |-> rid.held]

(* Behind a held gate, a worker runs only on an authorization minted for   *)
(* that very commit and plan, spent, and spent on this worker alone.       *)
HeldGateSpendsAuthorization ==
    \A i \in ByAuthority :
        LET rid == runs[i].rid IN
        commits[rid.sha].held =>
            /\ rid.auth \in consumed
            /\ auths[rid.auth] = [sha |-> rid.sha, plan |-> rid.plan]
            /\ \A j \in ByAuthority : runs[j].rid.auth = rid.auth => j = i

(* Two workers the authority dispatched never have one work in hand: not   *)
(* when several dispatchers race, and not after a lost answer.             *)
OneWorkerPerWork ==
    \A i, j \in ByAuthority :
        runs[i].rid.plan = runs[j].rid.plan /\ ~runs[i].over /\ ~runs[j].over => i = j

(* The authority starts at most one worker for a reservation, even when a  *)
(* failed dispatch was adjudicated and the same snapshot comes again.      *)
OneDispatchPerReservation ==
    \A i, j \in ByAuthority : runs[i].rid = runs[j].rid => i = j

(* A ref without a holder is the mark of a failed call or a dead process:  *)
(* no path of the script that goes as it should leaves one behind.         *)
Held(w) ==
    \/ \E d \in Dispatchers :
        at[d] \in Holding /\ snap[d].plan = w /\ snap[d].sha = active[w]
    \/ \E i \in DOMAIN runs : runs[i].rid.plan = w /\ runs[i].rid.sha = active[w]

OrphansComeFromFaults ==
    faults = 0 =>
        /\ \A w \in Works : active[w] # 0 => Held(w)
        /\ \A rid \in records :
            \/ \E d \in Dispatchers :
                /\ snap[d] = rid
                /\ at[d] \in {"consume", "drift", "dispatch", "revoke", "revokeRecord"}
            \/ \E i \in DOMAIN runs : runs[i].rid = rid

(* What the refusal of line 302 says, "no duplicate dispatch": one worker  *)
(* that is not over at a time.                                             *)
NoDuplicateDispatch ==
    \A i, j \in ByAuthority : ~runs[i].over /\ ~runs[j].over => i = j
=============================================================================
