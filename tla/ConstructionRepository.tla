----------------------- MODULE ConstructionRepository -----------------------
(***************************************************************************)
(* The repository the autonomous builder works on, and the operations its  *)
(* tools perform on it: the "generator" and "git" tools of                 *)
(* LocalConstructionToolset.ts, the Python agent the generator runs        *)
(* (AI_Runtime/autonomous_builder.py) and AutonomousKnotRecovery.rollback. *)
(* The remote is shared with people and other automation, who push to it.  *)
(*                                                                         *)
(* A history is a sequence of patches.  What the agent builds of a knot (a *)
(* capability) is determined by the knot, so the patch that adds it is the *)
(* knot itself; what a repair writes over it, or instead of it, is its     *)
(* rework; what somebody else pushes is a foreign patch.  Of the working   *)
(* tree only the kinds of uncommitted change matter.                       *)
(***************************************************************************)
EXTENDS Naturals, Sequences, FiniteSets, SequencesExt

CONSTANTS
    Knots,          \* the capabilities the builder may be asked to build
    NoKnot,         \* none of them
    Deps,           \* Deps[k]: the knots k rests on, directly or not
    Scripted,       \* CAPABILITIES of the agent: knots it has the text of
    RoadmapKnots,   \* knots of PRODUCT_CONSTRUCTION_ROADMAP.json
    PartialKnots,   \* knots of which some, not all, files are in the tree
    Foreign,        \* what other people push
    Provides,       \* Provides[f]: the knots whose files patch f writes
    GitMayFail      \* whether a git command may fail for a reason of its own

ASSUME KnotsAssumption ==
    /\ NoKnot \notin Knots \cup Foreign
    /\ Scripted \subseteq Knots
    /\ Deps \in [Knots -> SUBSET Knots]
    /\ \A k \in Knots : k \notin Deps[k]
    /\ \A k \in Knots : \A d \in Deps[k] : Deps[d] \subseteq Deps[k]
    /\ RoadmapKnots \subseteq Knots
    /\ PartialKnots \subseteq Knots
ASSUME ForeignAssumption ==
    /\ Foreign \cap Knots = {}
    /\ Provides \in [Foreign -> SUBSET Knots]
ASSUME GitMayFailAssumption == GitMayFail \in BOOLEAN

(* The patch a repair makes of knot k.  Where the agent has no text for k, *)
(* what it writes names the goal it was given, which for a repair is the   *)
(* repair of k from that checkpoint: no two repairs write the same.        *)
Rework(k) == [repaired |-> k]

OwnPatches(k) == {k, Rework(k)}

Patches == Foreign \cup UNION {OwnPatches(k) : k \in Knots}

ASSUME ReworkAssumption ==
    \A k \in Knots : Rework(k) \notin Knots \cup Foreign \cup {NoKnot}

(* The knots whose files patch p writes.                                   *)
Touches(p) == IF p \in Foreign THEN Provides[p] ELSE {k \in Knots : p \in OwnPatches(k)}

(* Uncommitted change: to a file git knows ("tracked", or staged), a new   *)
(* file among the declared artifacts of a knot, a new file anywhere else.  *)
Parts == {"tracked", "declared", "stray"}

VARIABLES
    head,       \* the history of HEAD
    attached,   \* HEAD is on the branch, no rebase is in progress
    origin,     \* the history of the branch on the remote
    tracking,   \* origin/<branch>, the remote as the last fetch or push saw it
    worktree,   \* the uncommitted changes
    pending,    \* the patch that the uncommitted changes are to become
    git         \* how far FINALIZE has come: idle, committed, fetched, ready

repositoryVars == <<head, attached, origin, tracking, worktree, pending, git>>

RepositoryInit ==
    /\ head = <<>>
    /\ attached = TRUE
    /\ origin = <<>>
    /\ tracking = <<>>
    /\ worktree = {}
    /\ pending = NoKnot
    /\ git = "idle"

-----------------------------------------------------------------------------
(* Whose version of the files of k history h has: the last that wrote them.*)
Version(k, h) ==
    LET i == SelectLastInSeq(h, LAMBDA p : k \in Touches(p))
    IN  IF i = 0 THEN NoKnot ELSE h[i]

Present(k, h) == Version(k, h) # NoKnot

Woven(k, h) == Range(h) \cap OwnPatches(k) # {}

(* What existsSync and readFileSync see: the files of the working tree,    *)
(* committed or not.                                                       *)
Current(k) ==
    IF pending \in OwnPatches(k) /\ worktree \cap {"tracked", "declared"} # {}
    THEN pending ELSE Version(k, head)

Exists(k) == Current(k) # NoKnot

Clean == worktree = {}

(* What the agent makes of knot k, and which changes it is in a clean tree.*)
(* A build writes only when every artifact is missing, and fails when some *)
(* are; a repair overwrites them all, with the same text where it has one. *)
Made(k, repairing) ==
    IF repairing /\ (k \notin Scripted \/ Present(k, head)) THEN Rework(k) ELSE k

RefusesPartial(k, repairing) == k \in PartialKnots /\ ~Present(k, head) /\ ~repairing

(* CAPABILITY_DEPENDENCIES: only for the knots it has the text of does the *)
(* agent look whether the files they rest on are there.                    *)
UnmetDependencies(k) == k \in Scripted /\ \E d \in Deps[k] : ~Exists(d)

AgentWrites(k, repairing) ==
    CASE ~Present(k, head) ->
            {"declared"} \cup (IF k \in PartialKnots THEN {"tracked"} ELSE {})
      [] Present(k, head) /\ repairing ->
            IF k \in Scripted /\ Version(k, head) \in OwnPatches(k)
            THEN {} ELSE {"tracked"}
      [] OTHER -> {}

(* GENERATE is refused: git gives no answer, the tree is dirty, or there   *)
(* is no agent.  Nothing has been touched.                                 *)
GenerateRefused ==
    UNCHANGED repositoryVars

(* The agent failed (it exits with an error, times out, finds only some of *)
(* the artifacts, or misses a dependency), crossed the boundary of the     *)
(* declared artifacts, or git status failed after it: what it wrote stays.  Only a repair writes  *)
(* over files that are there.                                              *)
GenerateFailed(k, repairing) ==
    /\ Clean
    /\ worktree' \in SUBSET (IF repairing THEN Parts ELSE Parts \ {"tracked"})
    /\ pending' = IF worktree' = {} THEN NoKnot ELSE Made(k, repairing)
    /\ UNCHANGED <<head, attached, origin, tracking, git>>

(* Fault: changes outside the declared artifacts are let through.          *)
GenerateUnbounded(k, repairing) ==
    /\ Clean
    /\ ~RefusesPartial(k, repairing)
    /\ ~UnmetDependencies(k)
    /\ AgentWrites(k, repairing) # {}
    /\ \E extra \in SUBSET {"stray"} : worktree' = AgentWrites(k, repairing) \cup extra
    /\ pending' = Made(k, repairing)
    /\ UNCHANGED <<head, attached, origin, tracking, git>>

(* The agent changed declared artifacts only.                              *)
GenerateProduced(k, repairing) ==
    /\ Clean
    /\ ~RefusesPartial(k, repairing)
    /\ ~UnmetDependencies(k)
    /\ AgentWrites(k, repairing) # {}
    /\ worktree' = AgentWrites(k, repairing)
    /\ pending' = Made(k, repairing)
    /\ UNCHANGED <<head, attached, origin, tracking, git>>

(* Fault: to find some of the artifacts is enough to say that they are     *)
(* there.                                                                  *)
GenerateNoopOnSome(k, repairing) ==
    /\ Clean
    /\ ~repairing
    /\ ~UnmetDependencies(k)
    /\ AgentWrites(k, repairing) = {} \/ k \in PartialKnots
    /\ UNCHANGED repositoryVars

(* The agent found the artifacts there.  A repair says "Repaired:" where a *)
(* build says "Already implemented:", so for it no change is a failure.    *)
GenerateNoop(k, repairing) ==
    /\ Clean
    /\ ~repairing
    /\ ~UnmetDependencies(k)
    /\ AgentWrites(k, repairing) = {}
    /\ UNCHANGED repositoryVars

-----------------------------------------------------------------------------
(* FINALIZE.  The steps of the git tool are apart because others push to   *)
(* the remote, and the process may die, between them.  A step that fails   *)
(* ends the tool and leaves what the steps before it have done.            *)

GitEnds == git' = "idle"

(* git status shows nothing to commit: neither commit nor push.            *)
NothingToFinalize ==
    /\ git = "idle"
    /\ Clean
    /\ UNCHANGED repositoryVars

(* git add or git commit fails; after the add every change is staged.      *)
CommitFails ==
    /\ git = "idle"
    /\ GitMayFail
    /\ worktree' \in {worktree, IF Clean THEN {} ELSE {"tracked"}}
    /\ UNCHANGED <<head, attached, origin, tracking, pending, git>>

(* git add -A, git commit: everything uncommitted becomes one patch.       *)
Commit ==
    /\ git = "idle"
    /\ ~Clean
    /\ head' = Append(head, pending)
    /\ worktree' = {}
    /\ pending' = NoKnot
    /\ git' = "committed"
    /\ UNCHANGED <<attached, origin, tracking>>

(* git branch --show-current prints nothing on a detached HEAD; it or the  *)
(* fetch may fail.                                                         *)
FetchFails ==
    /\ git = "committed"
    /\ ~attached \/ GitMayFail
    /\ GitEnds
    /\ UNCHANGED <<head, attached, origin, tracking, worktree, pending>>

Fetch ==
    /\ git = "committed"
    /\ attached
    /\ tracking' = origin
    /\ git' = "fetched"
    /\ UNCHANGED <<head, attached, origin, worktree, pending>>

(* The commits of HEAD that the remote does not have: git rebase replays   *)
(* them in their order, and drops those whose patch the remote has got     *)
(* meanwhile.                                                              *)
Common == Len(LongestCommonPrefix({head, tracking}))

Since(h) == SubSeq(h, Common + 1, Len(h))

Kept ==
    {i \in DOMAIN Since(head) :
        ~(Since(head)[i] \in Knots /\ Since(head)[i] \in Range(Since(tracking)))}

Replayed ==
    [n \in 1 .. Cardinality(Kept) |->
        Since(head)[CHOOSE i \in Kept : Cardinality({j \in Kept : j <= i}) = n]]

UpToDate == IsPrefix(tracking, head)

(* Files that both sides have added since they parted cannot be merged;    *)
(* any other replay may conflict or not.                                   *)
MustConflict ==
    \E p \in Range(Replayed), q \in Range(Since(tracking)) \ Range(Since(head)) :
        \E k \in Touches(p) \cap Touches(q) : ~Present(k, SubSeq(head, 1, Common))

(* HEAD has all of the remote's, or git rev-parse --verify failed and the  *)
(* remote branch is taken not to exist.                                    *)
NoRebaseNeeded ==
    /\ git = "fetched"
    /\ UpToDate \/ GitMayFail
    /\ git' = "ready"
    /\ UNCHANGED <<head, attached, origin, tracking, worktree, pending>>

Rebase ==
    /\ git = "fetched"
    /\ ~UpToDate
    /\ ~MustConflict
    /\ head' = tracking \o Replayed
    /\ git' = "ready"
    /\ UNCHANGED <<attached, origin, tracking, worktree, pending>>

(* A rebase stopped half way: HEAD is detached after n replayed commits.   *)
StoppedRebase(n) ==
    /\ head' = tracking \o SubSeq(Replayed, 1, n)
    /\ attached' = FALSE
    /\ worktree' \in {{}, {"tracked"}}
    /\ pending' = NoKnot

(* The rebase conflicts and is aborted; the abort may fail unnoticed.  Or  *)
(* merge-base fails.                                                       *)
RebaseFails ==
    /\ git = "fetched"
    /\ \/ GitMayFail /\ UNCHANGED <<head, attached, worktree, pending>>
       \/ /\ ~UpToDate
          /\ Replayed # <<>>
          /\ UNCHANGED <<head, attached, worktree, pending>>
       \/ /\ ~UpToDate
          /\ GitMayFail
          /\ \E n \in 0 .. Len(Replayed) : n < Len(Replayed) /\ StoppedRebase(n)
    /\ GitEnds
    /\ UNCHANGED <<origin, tracking>>

(* Fault: nobody looks at the exit code of git push.                       *)
PushUnchecked ==
    /\ git = "ready"
    /\ origin' = IF IsPrefix(origin, head) THEN head ELSE origin
    /\ GitEnds
    /\ UNCHANGED <<head, attached, tracking, worktree, pending>>

(* git push: the remote takes only a history that extends its own.         *)
Push ==
    /\ git = "ready"
    /\ IsPrefix(origin, head)
    /\ origin' = head
    /\ tracking' = head
    /\ GitEnds
    /\ UNCHANGED <<head, attached, worktree, pending>>

PushRejected ==
    /\ git = "ready"
    /\ ~IsPrefix(origin, head) \/ GitMayFail
    /\ GitEnds
    /\ UNCHANGED <<head, attached, origin, tracking, worktree, pending>>

(* The push lands but the tool is killed before it learns of it.           *)
PushUnnoticed ==
    /\ git = "ready"
    /\ GitMayFail
    /\ IsPrefix(origin, head)
    /\ origin' = head
    /\ GitEnds
    /\ UNCHANGED <<head, attached, tracking, worktree, pending>>

-----------------------------------------------------------------------------
(* AutonomousKnotRecovery.rollback: reset --hard to the checkpoint forgets *)
(* commits and changes to tracked files; new files are removed only among  *)
(* the artifacts the product roadmap declares for the knot.  It succeeds   *)
(* when nothing is left, and a failure keeps what was done so far.         *)
LeftAfterReset(k) ==
    worktree \ ({"tracked"} \cup
                (IF k \in RoadmapKnots /\ pending \in OwnPatches(k) THEN {"declared"} ELSE {}))

RollbackTo(k, checkpoint) ==
    /\ head' = checkpoint
    /\ worktree' = LeftAfterReset(k)
    /\ pending' = IF worktree' = {} THEN NoKnot ELSE pending
    /\ UNCHANGED <<attached, origin, tracking, git>>

(* Fault: the status after the reset is not looked at.                     *)
RollbackUnchecked(k, checkpoint) == RollbackTo(k, checkpoint)

RollbackSucceeds(k, checkpoint) ==
    /\ LeftAfterReset(k) = {}
    /\ RollbackTo(k, checkpoint)

RollbackFails(k, checkpoint) ==
    \/ LeftAfterReset(k) # {} /\ RollbackTo(k, checkpoint)
    \/ GitMayFail /\ UNCHANGED repositoryVars
    \/ /\ GitMayFail
       /\ head' = checkpoint
       /\ worktree' \in {worktree \ {"tracked"}, LeftAfterReset(k)}
       /\ pending' = IF worktree' = {} THEN NoKnot ELSE pending
       /\ UNCHANGED <<attached, origin, tracking, git>>

-----------------------------------------------------------------------------
(* Somebody else pushes patch f; nobody pushes over what is there.         *)
OutsiderPush(f) ==
    /\ f \in Foreign
    /\ f \notin Range(origin)
    /\ origin' = Append(origin, f)
    /\ UNCHANGED <<head, attached, tracking, worktree, pending, git>>

(* The process dies: a rebase that was running is left where it was.       *)
CrashOfRepository ==
    /\ git' = "idle"
    /\ \/ UNCHANGED <<head, attached, worktree, pending>>
       \/ /\ git = "fetched"
          /\ ~UpToDate
          /\ \E n \in 0 .. Len(Replayed) : StoppedRebase(n)
    /\ UNCHANGED <<origin, tracking>>
=============================================================================
