----------------------------- MODULE FactoryLoop ----------------------------
(***************************************************************************)
(* scripts/autonomous-factory-loop.cjs: a loop, started by hand on a       *)
(* branch that is not main, that runs the product factory and has an agent *)
(* (Kilo) repair what the factory reports, tests the repair and pushes it. *)
(* The programs it starts are external and may answer anything.  A person  *)
(* pushes, edits the worktree, commits and throws away at any moment; the  *)
(* process may die.                                                        *)
(***************************************************************************)
EXTENDS Naturals, FiniteSets, SequencesExt

CONSTANTS
    Failures,       \* what the factory and its handoff may report
    NoFailure,
    MaxAttempts,    \* HOOSHYAR_AUTONOMOUS_MAX_ATTEMPTS
    MaxContents,    \* bound: versions of the files
    MaxStarts,      \* bound: starts of the loop
    MaxFaults       \* bound: deaths, failing git commands, deeds of the person

ASSUME FailuresAssumption == NoFailure \notin Failures
ASSUME FactoryBoundsAssumption ==
    /\ MaxAttempts \in Nat /\ MaxContents \in Nat
    /\ MaxStarts \in Nat /\ MaxFaults \in Nat

VARIABLES
    pc,             \* the step that comes next; "off": no process
    attempt,
    before,         \* HEAD at the start of the attempt
    memory,         \* state.lastFailureFingerprint
    file,           \* the same in the state file; a torn file reads as none
    ignored,        \* git ignores .hooshyar; the repository's own rules do not
    pushAllowed,    \* HOOSHYAR_AUTONOMOUS_ALLOW_PUSH
    head, origin,   \* histories: the content of each commit, oldest first
    tree,           \* the content of the worktree
    stateDirty,     \* the state file is not as committed
    contents,       \* versions of the files so far
    starts, faults

processVars == <<pc, attempt, before, memory>>
worktreeVars == <<head, tree, stateDirty, contents>>

VARIABLES
    tested,         \* history: contents that passed the full test run
    steady,         \* history: nobody has touched the files since it began
    raced,          \* history: contents a person made after it began and
                    \*   before the commit, or committed before the push
    pushed,         \* history: contents the loop has pushed
    repaired,       \* history: the failure the agent was last called for,
                    \*   none once another has been written down
    stateLost,      \* history: the state file was torn or thrown away
    foreign,        \* history: uncommitted work of the person: none, new, or
                    \*   found there by a cycle that went past its look
    swept,          \* history: the loop has committed such found work
    misread         \* history: a failed git status read as a clean worktree

testHistory == <<tested, steady, raced, pushed>>
memoryHistory == <<repaired, stateLost>>
factoryHistoryVars == <<testHistory, memoryHistory, foreign, swept, misread>>
factoryVars == <<processVars, file, ignored, pushAllowed, worktreeVars, origin,
                 starts, faults, factoryHistoryVars>>

(* A failure is known by a hash of what was reported and the commit.       *)
Fingerprints == (Failures \X Seq(Nat)) \cup {NoFailure}

FactoryInit ==
    /\ pc = "off" /\ attempt = 0 /\ before = <<>>
    /\ memory = NoFailure /\ file = NoFailure
    /\ ignored \in BOOLEAN /\ pushAllowed \in BOOLEAN
    /\ head = <<0>> /\ origin = <<0>> /\ tree = 0
    /\ stateDirty = FALSE /\ contents = 0
    /\ starts = 0 /\ faults = 0
    /\ tested = {} /\ steady = TRUE /\ raced = {} /\ pushed = {}
    /\ repaired = NoFailure /\ stateLost = FALSE
    /\ foreign = "none" /\ swept = FALSE /\ misread = FALSE

(***************************************************************************)
(* git.                                                                    *)
(***************************************************************************)
Dirty == tree # Last(head) \/ stateDirty

(* repositoryChanged(): a status that fails has no output and reads as a   *)
(* clean worktree.                                                         *)
ReadsClean ==
    \/ ~ Dirty /\ UNCHANGED <<misread, faults>>
    \/ /\ Dirty /\ faults < MaxFaults
       /\ misread' = TRUE /\ faults' = faults + 1
ReadsDirty == Dirty /\ UNCHANGED <<misread, faults>>

NewContent ==
    /\ contents < MaxContents
    /\ contents' = contents + 1
    /\ tree' = contents + 1

(* git add --all and git commit.                                           *)
CommitAll ==
    /\ head' = Append(head, tree)
    /\ stateDirty' = FALSE
    /\ foreign' = "none"

(***************************************************************************)
(* The loop.                                                               *)
(***************************************************************************)
Goto(step) == pc' = step /\ UNCHANGED <<attempt, before, memory>>

(* writeFileSync of the state with a given fingerprint.                    *)
SaveState(fingerprint) ==
    /\ file' = fingerprint
    /\ stateDirty' = ~ ignored

StartLoop ==
    /\ pc = "off" /\ starts < MaxStarts
    /\ starts' = starts + 1
    /\ pc' = "cycle" /\ attempt' = 1
    /\ memory' = file
    /\ UNCHANGED <<before, file, ignored, pushAllowed, worktreeVars, origin,
                   faults, factoryHistoryVars>>

BeginCycle ==
    /\ pc = "cycle" /\ attempt <= MaxAttempts
    /\ before' = head
    /\ pc' = "merge"
    /\ UNCHANGED <<attempt, memory, file, ignored, pushAllowed, worktreeVars,
                   origin, starts, faults, factoryHistoryVars>>

AttemptsUsedUp ==
    /\ pc = "cycle" /\ attempt > MaxAttempts
    /\ Goto("off")
    /\ UNCHANGED <<file, ignored, pushAllowed, worktreeVars, origin, starts,
                   faults, factoryHistoryVars>>

(* A branch ahead of origin is up to date; one that has diverged ends the  *)
(* loop.  Changed files, if status did not show them, stay in the merge or *)
(* prevent it; files changed after status stay as if changed after it.     *)
MergeUpstream ==
    /\ pc = "merge" /\ origin # before /\ ReadsClean
    /\ \/ /\ IsPrefix(head, origin)
          /\ head' = origin
          /\ IF tree = Last(head) THEN tree' = Last(origin) /\ UNCHANGED contents
             ELSE NewContent
          /\ Goto("check")
       \/ IsPrefix(origin, head) /\ UNCHANGED <<head, tree, contents>> /\ Goto("check")
       \/ /\ tree # Last(head) \/ (~ IsPrefix(head, origin) /\ ~ IsPrefix(origin, head))
          /\ UNCHANGED <<head, tree, contents>> /\ Goto("off")
    /\ UNCHANGED <<file, ignored, pushAllowed, stateDirty, origin, starts,
                   testHistory, memoryHistory, foreign, swept>>

(* Nothing new, a changed worktree, or a fetch that fails.                 *)
NoMerge ==
    /\ pc = "merge"
    /\ Goto("check")
    /\ UNCHANGED <<file, ignored, pushAllowed, worktreeVars, origin, starts,
                   faults, factoryHistoryVars>>

BlockedDirty ==
    /\ pc = "check" /\ ReadsDirty
    /\ Goto("off")
    /\ UNCHANGED <<file, ignored, pushAllowed, worktreeVars, origin, starts,
                   testHistory, memoryHistory, foreign, swept>>

Found == foreign' = IF foreign = "new" THEN "found" ELSE foreign

(* Fault: the cycle begins on whatever is in the worktree.                 *)
PlatformAuditUnchecked(passes) ==
    /\ pc = "check"
    /\ Goto(IF passes THEN "factory" ELSE "off")
    /\ Found
    /\ UNCHANGED <<file, ignored, pushAllowed, worktreeVars, origin, starts,
                   faults, testHistory, memoryHistory, swept, misread>>

PlatformAudit(passes) ==
    /\ pc = "check" /\ ReadsClean
    /\ Goto(IF passes THEN "factory" ELSE "off")
    /\ Found
    /\ UNCHANGED <<file, ignored, pushAllowed, worktreeVars, origin, starts,
                   testHistory, memoryHistory, swept>>

(* The factory passes and the evidence says QUALIFICATION_COMPLETE.        *)
FactoryComplete ==
    /\ pc = "factory"
    /\ SaveState(memory)
    /\ Goto("off")
    /\ UNCHANGED <<ignored, pushAllowed, head, tree, contents, origin, starts,
                   faults, factoryHistoryVars>>

RepeatedFailure(failure) ==
    /\ pc = "factory" /\ memory = <<failure, before>>
    /\ SaveState(memory)
    /\ Goto("off")
    /\ UNCHANGED <<ignored, pushAllowed, head, tree, contents, origin, starts,
                   faults, factoryHistoryVars>>

Recorded(failure) ==
    repaired' = IF repaired = <<failure, before>> THEN repaired ELSE NoFailure

(* Fault: the fingerprint is kept in memory, to be written when the        *)
(* attempt is over.                                                        *)
NewFailureUnsaved(failure) ==
    /\ pc = "factory" /\ memory # <<failure, before>>
    /\ memory' = <<failure, before>>
    /\ Recorded(failure)
    /\ pc' = "repair"
    /\ UNCHANGED <<attempt, before, file, ignored, pushAllowed, worktreeVars,
                   origin, starts, faults, testHistory, stateLost, foreign,
                   swept, misread>>

(* The fingerprint is written before the agent is called.                  *)
NewFailure(failure) ==
    /\ pc = "factory" /\ memory # <<failure, before>>
    /\ memory' = <<failure, before>>
    /\ SaveState(<<failure, before>>)
    /\ Recorded(failure)
    /\ pc' = "repair"
    /\ UNCHANGED <<attempt, before, ignored, pushAllowed, head, tree, contents,
                   origin, starts, faults, testHistory, stateLost, foreign,
                   swept, misread>>

(* The agent changes files or nothing, may commit, and succeeds or not.    *)
Kilo(succeeds) ==
    /\ pc = "repair"
    /\ repaired' = memory
    /\ Goto(IF succeeds THEN "test" ELSE "off")
    /\ \/ UNCHANGED <<worktreeVars, foreign, swept>>
       \/ NewContent /\ UNCHANGED <<head, stateDirty, foreign, swept>>
       \/ /\ contents < MaxContents /\ contents' = contents + 1
          /\ tree' = contents'
          /\ head' = Append(head, tree') /\ stateDirty' = FALSE
          /\ swept' = (swept \/ foreign = "found")
          /\ foreign' = "none"
    /\ UNCHANGED <<file, ignored, pushAllowed, origin, starts, faults,
                   testHistory, stateLost, misread>>

(* npm test runs for minutes, over files that anyone may change meanwhile. *)
StartTests ==
    /\ pc = "test"
    /\ steady' = TRUE
    /\ Goto("testing")
    /\ UNCHANGED <<file, ignored, pushAllowed, worktreeVars, origin, starts,
                   faults, tested, raced, pushed, memoryHistory, foreign, swept,
                   misread>>

TestsFail ==
    /\ pc = "testing"
    /\ SaveState(memory)
    /\ Goto("off")
    /\ UNCHANGED <<ignored, pushAllowed, head, tree, contents, origin, starts,
                   faults, factoryHistoryVars>>

(* A test run speaks for files that stayed as they were throughout.        *)
Passed == IF steady THEN tested \cup {tree} ELSE tested

(* Fault: a failing test run is recorded and the repair goes on.           *)
FullTestsUnread ==
    /\ pc = "testing"
    /\ \E passes \in BOOLEAN : tested' = IF passes THEN Passed ELSE tested
    /\ Goto("publish")
    /\ UNCHANGED <<file, ignored, pushAllowed, worktreeVars, origin, starts,
                   faults, steady, raced, pushed, memoryHistory, foreign, swept,
                   misread>>

FullTests ==
    /\ pc = "testing"
    /\ tested' = Passed
    /\ Goto("publish")
    /\ UNCHANGED <<file, ignored, pushAllowed, worktreeVars, origin, starts,
                   faults, steady, raced, pushed, memoryHistory, foreign, swept,
                   misread>>

NothingToPublish ==
    /\ pc = "publish" /\ head = before /\ ReadsClean
    /\ Goto("record")
    /\ UNCHANGED <<file, ignored, pushAllowed, worktreeVars, origin, starts,
                   testHistory, memoryHistory, foreign, swept>>

(* A changed worktree; or HEAD has moved: the agent, the merge or a person *)
(* has committed.                                                          *)
SomethingToPublish ==
    /\ pc = "publish" /\ (Dirty \/ head # before)
    /\ Goto("commit")
    /\ UNCHANGED <<file, ignored, pushAllowed, worktreeVars, origin, starts,
                   faults, factoryHistoryVars>>

(* commitAndPush() looks again, and at the exit code of its git status.    *)
CommitRepair ==
    /\ pc = "commit" /\ Dirty
    /\ CommitAll
    /\ swept' = (swept \/ foreign = "found")
    /\ Goto("push")
    /\ UNCHANGED <<file, ignored, pushAllowed, tree, contents, origin, starts,
                   faults, testHistory, memoryHistory, misread>>

CommittedAlready ==
    /\ pc = "commit" /\ ~ Dirty
    /\ Goto("push")
    /\ UNCHANGED <<file, ignored, pushAllowed, worktreeVars, origin, starts,
                   faults, factoryHistoryVars>>

PushDisabled ==
    /\ pc = "push" /\ ~ pushAllowed
    /\ Goto("record")
    /\ UNCHANGED <<file, ignored, pushAllowed, worktreeVars, origin, starts,
                   faults, factoryHistoryVars>>

(* The push lands; the answer may be lost, which ends the loop.            *)
PushHead(answered) ==
    /\ pc = "push" /\ pushAllowed
    /\ IsPrefix(origin, head)
    /\ answered \/ faults < MaxFaults
    /\ faults' = IF answered THEN faults ELSE faults + 1
    /\ origin' = head
    /\ pushed' = pushed \cup {Last(head)}
    /\ Goto(IF answered THEN "record" ELSE "off")
    /\ UNCHANGED <<file, ignored, pushAllowed, worktreeVars, starts, tested,
                   steady, raced, memoryHistory, foreign, swept, misread>>

PushRejected ==
    /\ pc = "push" /\ pushAllowed /\ ~ IsPrefix(origin, head)
    /\ Goto("off")
    /\ UNCHANGED <<file, ignored, pushAllowed, worktreeVars, origin, starts,
                   faults, factoryHistoryVars>>

RecordRepair ==
    /\ pc = "record"
    /\ SaveState(memory)
    /\ pc' = "cycle" /\ attempt' = attempt + 1
    /\ UNCHANGED <<before, memory, ignored, pushAllowed, head, tree, contents,
                   origin, starts, faults, factoryHistoryVars>>

(***************************************************************************)
(* Around it.                                                              *)
(***************************************************************************)
OneFault == faults < MaxFaults /\ faults' = faults + 1

(* The process dies, or a git command it looks at fails and it throws.     *)
Die ==
    /\ pc # "off" /\ OneFault
    /\ Goto("off")
    /\ UNCHANGED <<file, ignored, pushAllowed, worktreeVars, origin, starts,
                   factoryHistoryVars>>

(* It dies while it writes the state file.                                 *)
DieWriting ==
    /\ pc \in {"factory", "testing", "record"} /\ OneFault
    /\ SaveState(NoFailure)
    /\ stateLost' = TRUE
    /\ Goto("off")
    /\ UNCHANGED <<ignored, pushAllowed, head, tree, contents, origin, starts,
                   testHistory, repaired, foreign, swept, misread>>

PersonPushes ==
    /\ OneFault /\ contents < MaxContents
    /\ contents' = contents + 1
    /\ origin' = Append(origin, contents')
    /\ UNCHANGED <<processVars, file, ignored, pushAllowed, head, tree,
                   stateDirty, starts, factoryHistoryVars>>

(***************************************************************************)
(* The person at the worktree.  Nothing keeps them out: the loop takes no  *)
(* lock, and looks at the worktree before the cycle and before the commit  *)
(* only.                                                                   *)
(***************************************************************************)

(* Other files than the tests began with, or passed with.                  *)
Interferes ==
    /\ steady' = (steady /\ (pc = "testing" => tree' = tree))
    /\ raced' = IF pc \in {"testing", "publish", "commit"}
                THEN raced \cup {tree'} ELSE raced

PersonEdits ==
    /\ OneFault
    /\ NewContent
    /\ Interferes
    /\ foreign' = IF foreign = "found" THEN "found" ELSE "new"
    /\ UNCHANGED <<processVars, file, ignored, pushAllowed, head, stateDirty,
                   origin, starts, tested, pushed, memoryHistory, swept, misread>>

(* Tidying up after a stop is not counted, tidying up under the loop is.   *)
OneDeed == IF pc = "off" THEN UNCHANGED faults ELSE OneFault

(* The person commits what is in the worktree, the loop's work with it;    *)
(* git push sends whatever HEAD is by then ...                             *)
PersonCommits ==
    /\ Dirty /\ OneDeed
    /\ CommitAll
    /\ raced' = IF pc = "push" THEN raced \cup {tree} ELSE raced
    /\ UNCHANGED <<processVars, file, ignored, pushAllowed, tree, contents,
                   origin, starts, tested, steady, pushed, memoryHistory, swept,
                   misread>>

(* ... or throws it away, the state file with it.                          *)
PersonDiscards ==
    /\ Dirty /\ OneDeed
    /\ tree' = Last(head)
    /\ Interferes
    /\ foreign' = "none"
    /\ IF stateDirty THEN file' = NoFailure /\ stateLost' = TRUE
       ELSE UNCHANGED <<file, stateLost>>
    /\ stateDirty' = FALSE
    /\ UNCHANGED <<processVars, ignored, pushAllowed, head, contents, origin,
                   starts, tested, pushed, repaired, swept, misread>>

Loop ==
    \/ BeginCycle \/ AttemptsUsedUp \/ MergeUpstream \/ NoMerge \/ BlockedDirty
    \/ \E passes \in BOOLEAN : PlatformAudit(passes)
    \/ FactoryComplete
    \/ \E failure \in Failures : RepeatedFailure(failure) \/ NewFailure(failure)
    \/ \E succeeds \in BOOLEAN : Kilo(succeeds)
    \/ StartTests \/ TestsFail \/ FullTests
    \/ NothingToPublish \/ SomethingToPublish \/ CommitRepair \/ CommittedAlready
    \/ PushDisabled \/ PushRejected \/ RecordRepair
    \/ \E answered \in BOOLEAN : PushHead(answered)

FactoryNext ==
    \/ StartLoop \/ Loop \/ Die \/ DieWriting
    \/ PersonPushes \/ PersonEdits \/ PersonCommits \/ PersonDiscards

FactorySpec == FactoryInit /\ [][FactoryNext]_factoryVars

(***************************************************************************)
(* Properties.                                                             *)
(***************************************************************************)

(* The files at every head the loop pushes have passed the full test run,  *)
(* although the agent may commit by itself, runs may end before the tests, *)
(* and later runs push what earlier ones left.  The one exception is what  *)
(* the loop cannot see: files a person changes after the tests have begun  *)
(* and before the commit, or commits before the push.                      *)
PushesTestedContent == pushed \subseteq tested \cup raced

(* The agent is not called twice in a row for the same failure of the same *)
(* commit, whatever died in between, unless the state file was lost.       *)
RepairsNewFailures == pc = "repair" /\ ~ stateLost => memory # repaired

(* Uncommitted work that a person had in the worktree when a cycle took    *)
(* its look at it is not committed with a repair, unless git status failed.*)
(* What they write after the look is, as part of the repair.               *)
LeavesForeignWork == swept => misread
=============================================================================
