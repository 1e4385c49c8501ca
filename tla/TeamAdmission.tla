--------------------------- MODULE TeamAdmission ---------------------------
(***************************************************************************)
(* Whether a plan is admitted.  The dispatch authority has the rules of    *)
(* admission twice: its own, admissionViolations, and validateWork, which  *)
(* it imports from the library beside it and does not call.  The two read  *)
(* the registry differently: a Map keeps the last row of a work, find the  *)
(* first.  An answer is admitted when it lists no violation.               *)
(***************************************************************************)
EXTENDS Naturals, Sequences

CONSTANTS
    WorkOf,     \* workIdFromLeaseId: the work a lease's id names, or NoWork
    NoWork,
    Guarded     \* the names in the protected places of the repository

Modes == {"AUDIT", "IMPLEMENT", "REVIEW", "VERIFY"}
TaskClasses ==
    {"PLAN", "AUDIT", "IMPLEMENT", "REPAIR", "REVIEW", "VERIFY", "QC", "MEMORY"}

(* toUpperCase: statuses are in capitals but for this one.                 *)
Upper(status) == IF status = "ready" THEN "READY" ELSE status

(* deriveTaskClass: text is the words that role, focus and owner mention,  *)
(* owner those of the owner alone; the first rule that fits decides.       *)
DeriveTaskClass(lease) ==
    LET mentions(words) == lease.text \cap words # {}
        owns(word) == word \in lease.owner
    IN  IF mentions({"MEMORY"}) \/ owns("EDITOR") THEN "MEMORY"
        ELSE IF mentions({"QC"}) \/ owns("EVALUATOR") THEN "QC"
        ELSE IF mentions({"REPAIR"}) THEN "REPAIR"
        ELSE IF mentions({"PLAN"}) \/ owns("PLANNER") THEN "PLAN"
        ELSE IF mentions({"VERIFY"}) THEN "VERIFY"
        ELSE IF mentions({"REVIEW"}) THEN "REVIEW"
        ELSE IF mentions({"IMPLEMENT", "BUILD"}) THEN "IMPLEMENT"
        ELSE IF mentions({"AUDIT"}) THEN "AUDIT"
        ELSE ""

TaskClassLawful(lease) ==
    /\ lease.taskClass \in TaskClasses
    /\ DeriveTaskClass(lease) # "" => lease.taskClass = DeriveTaskClass(lease)

-----------------------------------------------------------------------------
(* A path of a scope is its names up to a star, if it has one, and how it  *)
(* goes on: not at all, "/", "/*", or "*" inside a name.                   *)
Norm(path) == path.names

PrefixOf(a, b) == Len(a) <= Len(b) /\ \A i \in 1..Len(a) : a[i] = b[i]

(* A path without a name, the whole repository, overlaps with nothing.     *)
Overlaps(a, b) ==
    /\ Norm(a) # <<>> /\ Norm(b) # <<>>
    /\ PrefixOf(Norm(a), Norm(b)) \/ PrefixOf(Norm(b), Norm(a))

EvidenceRoot(id) == [names |-> <<".kilo", "team", "results", id>>, tail |-> "/"]

(* The files a worker may write under a path that has a name.              *)
Covers(path, file) ==
    /\ path.names # <<>> /\ path.tail \in {"", "/", "/*"}
    /\ PrefixOf(path.names, file)

ScopeLawful(lease) ==
    /\ EvidenceRoot(lease.id) \in lease.scope
    /\ \A path \in lease.scope : Norm(path) \notin Guarded

Complete(lease) == lease.missing = {}

-----------------------------------------------------------------------------
(* The rows of a work in the registry.                                     *)
Rows(registry, work) == {i \in DOMAIN registry : registry[i].id = work}

(* validateWork: registry.items.find, plan.leases.find                     *)
IsFirst(i, S) == i \in S /\ \A j \in S : i <= j
IsLast(i, S) == i \in S /\ \A j \in S : j <= i

WorkValid(plan, registry, work, leaseId) ==
    /\ plan.status = "READY"
    /\ \E n \in DOMAIN plan.leases :
        LET lease == plan.leases[n] IN
        /\ IsFirst(n, {m \in DOMAIN plan.leases : plan.leases[m].id = leaseId})
        /\ Complete(lease)
        /\ WorkOf[lease.id] = work
        /\ TaskClassLawful(lease) /\ lease.mode \in Modes
        /\ ScopeLawful(lease)
    /\ \E i \in DOMAIN registry :
        /\ IsFirst(i, Rows(registry, work))
        /\ Upper(registry[i].status) = "READY" /\ Upper(registry[i].readiness) = "READY"
        /\ \A a \in registry[i].attempts :
              a.promoted \/ a.state \in {"PROMOTED", "SUPERSEDED", "ABANDONED_ADJUDICATED",
                                         "DUPLICATE", "INVALID"}

-----------------------------------------------------------------------------
(* evaluateGate.  A gate's status is in capitals, or armed; the one of     *)
(* ARMED is not brought into capitals before it is compared.               *)
Held(gate) == gate.status = "ARMED" /\ gate.hold
Open(gate) == gate.status \in {"PASSED", "DISARMED", "RELEASED"} /\ ~gate.hold

NoAuthorization == [id |-> ""]

Binds(authorization, ctx) ==
    /\ authorization.id # "" /\ authorization.wave # ""
    /\ authorization.work = ctx.work /\ authorization.lease = ctx.lease
    /\ authorization.reservations = 1
    /\ authorization.branch = ctx.branch /\ authorization.sha = ctx.sha
    /\ authorization.plan = ctx.plan
    /\ ctx.now <= authorization.notAfter
    /\ ~authorization.consumed

EvaluateGate(gate, authorization, ctx) ==
    CASE ~gate.identified -> "REFUSE"
      [] gate.identified /\ Open(gate) -> "ALLOW_NORMAL"
      [] gate.identified /\ ~Open(gate) ->
            IF Held(gate) /\ authorization # NoAuthorization /\ Binds(authorization, ctx)
            THEN "ADMIT_ACCEPTANCE" ELSE "REFUSE"

(* validateAuthorization, which the authority calls whenever an            *)
(* authorization is given.                                                 *)
AuthorizationLawful(authorization, ctx) ==
    /\ authorization.gate \in {"", "TEAM-V2-ACCEPTANCE"} /\ authorization.schemaValid
    /\ authorization.id # "" /\ authorization.issued /\ authorization.signatureValid
    /\ authorization.reservations = 1
    /\ authorization.work = ctx.work /\ authorization.lease = ctx.lease
    /\ authorization.taskClass = ctx.taskClass
    /\ authorization.branch = ctx.branch /\ authorization.sha = ctx.sha
    /\ authorization.plan = ctx.plan /\ authorization.leaseHash = ctx.leaseHash
    /\ ~authorization.consumed
    /\ ctx.now <= authorization.notAfter

-----------------------------------------------------------------------------
(* admissionViolations: new Map keeps the last row of a work.              *)
RowAdmits(row, lease) ==
    /\ row.status = "READY" /\ row.readiness = "READY"
    /\ row.taskClass \in {"", lease.taskClass}
    /\ \A a \in row.attempts :
          a.promoted \/ a.state \in {"SUPERSEDED", "DUPLICATE", "INVALID"}

DependencySatisfied(registry, d) ==
    \E i \in DOMAIN registry :
        /\ IsLast(i, Rows(registry, d))
        /\ registry[i].status \in {"COMPLETED", "VERIFIED", "PROMOTED", "MEMORIZED", "CLOSED"}

LeaseAdmits(lease, registry) ==
    /\ Complete(lease)
    /\ WorkOf[lease.id] # NoWork
    /\ lease.mode \in Modes /\ TaskClassLawful(lease) /\ ScopeLawful(lease)
    /\ \E i \in DOMAIN registry :
          /\ IsLast(i, Rows(registry, WorkOf[lease.id]))
          /\ RowAdmits(registry[i], lease)
    /\ \A d \in lease.dependencies : DependencySatisfied(registry, d)

Admits(gate, plan, registry, authorization, ctx) ==
    /\ EvaluateGate(gate, authorization, ctx) # "REFUSE"
    /\ plan.status = "READY" /\ plan.leases # <<>>
    /\ \A n \in DOMAIN plan.leases : LeaseAdmits(plan.leases[n], registry)
    /\ \A n, m \in DOMAIN plan.leases : n # m =>
          /\ WorkOf[plan.leases[n].id] # WorkOf[plan.leases[m].id]
          /\ \A a \in plan.leases[n].scope, b \in plan.leases[m].scope : ~Overlaps(a, b)

(* What main goes on with.                                                 *)
Dispatches(gate, plan, registry, authorization, ctx) ==
    /\ Admits(gate, plan, registry, authorization, ctx)
    /\ authorization # NoAuthorization => AuthorizationLawful(authorization, ctx)
=============================================================================
