------------------------- MODULE FactoryLoopProofs --------------------------
(***************************************************************************)
(* The properties of the factory loop for any number of attempts, starts,  *)
(* faults and versions of the files.                                       *)
(***************************************************************************)
EXTENDS FactoryLoop, TLAPS

(* Every version of the files has a number of its own.                     *)
ContentsAreCounted ==
    /\ contents \in Nat /\ tree \in 0 .. contents
    /\ head \in Seq(0 .. contents) /\ head # <<>>
    /\ origin \in Seq(0 .. contents) /\ origin # <<>>

(* A person's work shows in the worktree, and a cycle that goes past its   *)
(* look at the worktree with such work in it has misread it.               *)
ForeignIsUncommitted == foreign # "none" => tree # Last(head)

FoundIsMisread == foreign = "found" => misread

WorktreeInv ==
    /\ ContentsAreCounted
    /\ ForeignIsUncommitted
    /\ FoundIsMisread
    /\ LeavesForeignWork

(* What is about to be committed, or pushed, has been tested, or a person  *)
(* made it too late for that.                                              *)
Accounted == tested \cup raced

TestedInv ==
    /\ PushesTestedContent
    /\ pc = "testing" => steady \/ tree \in raced
    /\ pc \in {"publish", "commit"} => tree \in Accounted
    /\ pc = "push" => Last(head) \in Accounted

(* The state file keeps up with the process, and names the failure that    *)
(* was repaired last.                                                      *)
MemoryInv ==
    /\ RepairsNewFailures
    /\ ~ stateLost =>
          /\ repaired \in {NoFailure, file}
          /\ pc # "off" => memory = file

NoFailureIsNone ==
    \A failure \in Failures : \A history : <<failure, history>> # NoFailure

-----------------------------------------------------------------------------
LEMMA LastOfHistory ==
    ASSUME NEW S, NEW history \in Seq(S), history # <<>>
    PROVE  Last(history) \in S
BY DEF Last

LEMMA LastOfAppend ==
    ASSUME NEW S, NEW history \in Seq(S), NEW content \in S
    PROVE  /\ Append(history, content) \in Seq(S)
           /\ Append(history, content) # <<>>
           /\ Last(Append(history, content)) = content
BY DEF Last

(* Versions counted once stay counted.                                     *)
LEMMA CountedStay ==
    ASSUME NEW m \in Nat, NEW n \in Nat, m <= n
    PROVE  Seq(0 .. m) \subseteq Seq(0 .. n) /\ 0 .. m \subseteq 0 .. n
<1>1. 0 .. m \subseteq 0 .. n
    OBVIOUS
<1> QED
    BY <1>1

-----------------------------------------------------------------------------
(* Steps that leave files and history alone.                               *)
LEMMA WorktreeStays ==
    ASSUME WorktreeInv,
           UNCHANGED <<head, origin, tree, contents, foreign, swept>>,
           misread => misread'
    PROVE  WorktreeInv'
<1>1. ContentsAreCounted' /\ ForeignIsUncommitted'
    BY DEF WorktreeInv, ContentsAreCounted, ForeignIsUncommitted
<1>2. FoundIsMisread' /\ LeavesForeignWork'
    BY DEF WorktreeInv, FoundIsMisread, LeavesForeignWork
<1> QED
    BY <1>1, <1>2 DEF WorktreeInv

(* Nothing uncommitted is the person's, when the worktree is clean.        *)
LEMMA CleanIsNobodys ==
    ASSUME WorktreeInv, ReadsClean
    PROVE  /\ misread => misread'
           /\ foreign # "none" => misread'
BY DEF WorktreeInv, ForeignIsUncommitted, ReadsClean, Dirty

LEMMA NewContentIsNew ==
    ASSUME WorktreeInv, NewContent
    PROVE  /\ contents' \in Nat /\ tree' \in 0 .. contents' /\ tree' = contents'
           /\ head \in Seq(0 .. contents') /\ origin \in Seq(0 .. contents')
           /\ tree' # Last(head) /\ tree' # Last(origin)
<1>1. /\ contents \in Nat /\ contents' = contents + 1 /\ tree' = contents + 1
      /\ head \in Seq(0 .. contents) /\ head # <<>>
      /\ origin \in Seq(0 .. contents) /\ origin # <<>>
    BY DEF WorktreeInv, ContentsAreCounted, NewContent
<1>2. Seq(0 .. contents) \subseteq Seq(0 .. contents')
    BY <1>1, CountedStay
<1>3. Last(head) \in 0 .. contents /\ Last(origin) \in 0 .. contents
    BY <1>1, LastOfHistory
<1> QED
    BY <1>1, <1>2, <1>3

LEMMA WorktreeLoop ==
    ASSUME WorktreeInv, Loop
    PROVE  WorktreeInv'
<1> USE DEF processVars, worktreeVars, factoryHistoryVars, testHistory, memoryHistory, Goto
<1>1. CASE BeginCycle \/ AttemptsUsedUp \/ NoMerge \/ BlockedDirty
    BY <1>1, WorktreeStays
       DEF BeginCycle, AttemptsUsedUp, NoMerge, BlockedDirty, ReadsDirty
<1>2. CASE MergeUpstream
    <2>1. /\ misread => misread'
          /\ foreign # "none" => misread'
          /\ UNCHANGED <<origin, foreign, swept>>
        BY <1>2, CleanIsNobodys DEF MergeUpstream
    <2>2. CASE UNCHANGED <<head, tree, contents>>
        BY <2>1, <2>2, WorktreeStays
    <2>3. CASE /\ head' = origin /\ tree = Last(head)
               /\ tree' = Last(origin) /\ UNCHANGED contents
        <3>1. ContentsAreCounted'
            BY <2>1, <2>3, LastOfHistory DEF WorktreeInv, ContentsAreCounted
        <3> QED
            BY <2>1, <2>3, <3>1
               DEF WorktreeInv, ForeignIsUncommitted, FoundIsMisread, LeavesForeignWork
    <2>4. CASE head' = origin /\ NewContent
        <3>1. ContentsAreCounted'
            BY <2>1, <2>4, NewContentIsNew DEF WorktreeInv, ContentsAreCounted
        <3>2. ForeignIsUncommitted'
            BY <2>4, NewContentIsNew DEF ForeignIsUncommitted
        <3> QED
            BY <2>1, <3>1, <3>2 DEF WorktreeInv, FoundIsMisread, LeavesForeignWork
    <2> QED
        BY <1>2, <2>2, <2>3, <2>4 DEF MergeUpstream
<1>3. CASE \E passes \in BOOLEAN : PlatformAudit(passes)
    <2>1. /\ misread => misread'
          /\ foreign # "none" => misread'
          /\ foreign' = IF foreign = "new" THEN "found" ELSE foreign
          /\ UNCHANGED <<head, origin, tree, contents, swept>>
        BY <1>3, CleanIsNobodys DEF PlatformAudit, Found
    <2>2. ContentsAreCounted' /\ ForeignIsUncommitted'
        BY <2>1 DEF WorktreeInv, ContentsAreCounted, ForeignIsUncommitted
    <2> QED
        BY <2>1, <2>2 DEF WorktreeInv, FoundIsMisread, LeavesForeignWork
<1>4. CASE \/ FactoryComplete
           \/ \E failure \in Failures : RepeatedFailure(failure) \/ NewFailure(failure)
    BY <1>4, WorktreeStays
       DEF FactoryComplete, RepeatedFailure, NewFailure, SaveState
<1>5. CASE \E succeeds \in BOOLEAN : Kilo(succeeds)
    <2>1. UNCHANGED <<origin, misread>>
        BY <1>5 DEF Kilo
    <2>2. CASE UNCHANGED <<head, tree, contents, foreign, swept>>
        BY <2>1, <2>2, WorktreeStays
    <2>3. CASE NewContent /\ UNCHANGED <<head, foreign, swept>>
        <3>1. ContentsAreCounted' /\ ForeignIsUncommitted'
            BY <2>1, <2>3, NewContentIsNew
               DEF WorktreeInv, ContentsAreCounted, ForeignIsUncommitted
        <3> QED
            BY <2>1, <2>3, <3>1 DEF WorktreeInv, FoundIsMisread, LeavesForeignWork
    <2>4. CASE /\ NewContent
               /\ head' = Append(head, tree')
               /\ swept' = (swept \/ foreign = "found") /\ foreign' = "none"
        <3>1. ContentsAreCounted'
            BY <2>1, <2>4, NewContentIsNew, LastOfAppend DEF WorktreeInv, ContentsAreCounted
        <3> QED
            BY <2>1, <2>4, <3>1
               DEF WorktreeInv, ForeignIsUncommitted, FoundIsMisread, LeavesForeignWork
    <2> QED
        BY <1>5, <2>2, <2>3, <2>4 DEF Kilo, NewContent
<1>6. CASE \/ StartTests \/ TestsFail \/ FullTests \/ SomethingToPublish
           \/ CommittedAlready \/ PushDisabled \/ PushRejected \/ RecordRepair
    BY <1>6, WorktreeStays
       DEF StartTests, TestsFail, FullTests, SomethingToPublish, CommittedAlready,
           PushDisabled, PushRejected, RecordRepair, SaveState
<1>7. CASE NothingToPublish
    BY <1>7, CleanIsNobodys, WorktreeStays DEF NothingToPublish
<1>8. CASE CommitRepair
    <2>1. /\ head' = Append(head, tree)
          /\ swept' = (swept \/ foreign = "found") /\ foreign' = "none"
          /\ UNCHANGED <<origin, tree, contents, misread>>
        BY <1>8 DEF CommitRepair, CommitAll
    <2>2. ContentsAreCounted'
        BY <2>1, LastOfAppend DEF WorktreeInv, ContentsAreCounted
    <2> QED
        BY <2>1, <2>2
           DEF WorktreeInv, ForeignIsUncommitted, FoundIsMisread, LeavesForeignWork
<1>9. CASE \E answered \in BOOLEAN : PushHead(answered)
    <2>1. /\ origin' = head
          /\ UNCHANGED <<head, tree, contents, foreign, swept, misread>>
        BY <1>9 DEF PushHead
    <2> QED
        BY <2>1 DEF WorktreeInv, ContentsAreCounted, ForeignIsUncommitted, FoundIsMisread,
                    LeavesForeignWork
<1> QED
    BY <1>1, <1>2, <1>3, <1>4, <1>5, <1>6, <1>7, <1>8, <1>9 DEF Loop

LEMMA WorktreeStep ==
    ASSUME WorktreeInv, [FactoryNext]_factoryVars
    PROVE  WorktreeInv'
<1> USE DEF processVars, worktreeVars, factoryHistoryVars, testHistory, memoryHistory, Goto
<1>1. CASE Loop
    BY <1>1, WorktreeLoop
<1>2. CASE StartLoop \/ Die \/ DieWriting
    BY <1>2, WorktreeStays DEF StartLoop, Die, DieWriting, SaveState
<1>3. CASE PersonPushes
    <2>1. /\ contents' = contents + 1 /\ origin' = Append(origin, contents')
          /\ UNCHANGED <<head, tree, foreign, swept, misread>>
        BY <1>3 DEF PersonPushes
    <2>2. /\ contents \in Nat /\ contents' \in Nat /\ contents' \in 0 .. contents'
          /\ 0 .. contents \subseteq 0 .. contents'
          /\ Seq(0 .. contents) \subseteq Seq(0 .. contents')
        BY <2>1, CountedStay DEF WorktreeInv, ContentsAreCounted
    <2>3. origin \in Seq(0 .. contents') /\ head \in Seq(0 .. contents')
        BY <2>2 DEF WorktreeInv, ContentsAreCounted
    <2>4. Append(origin, contents') \in Seq(0 .. contents') /\ Append(origin, contents') # <<>>
        BY <2>2, <2>3, LastOfAppend
    <2>5. ContentsAreCounted'
        BY <2>1, <2>2, <2>3, <2>4 DEF WorktreeInv, ContentsAreCounted
    <2> QED
        BY <2>1, <2>5 DEF WorktreeInv, ForeignIsUncommitted, FoundIsMisread, LeavesForeignWork
<1>4. CASE PersonEdits
    <2>1. /\ NewContent
          /\ foreign' = IF foreign = "found" THEN "found" ELSE "new"
          /\ UNCHANGED <<head, origin, swept, misread>>
        BY <1>4 DEF PersonEdits
    <2>2. ContentsAreCounted' /\ ForeignIsUncommitted'
        BY <2>1, NewContentIsNew DEF WorktreeInv, ContentsAreCounted, ForeignIsUncommitted
    <2> QED
        BY <2>1, <2>2 DEF WorktreeInv, FoundIsMisread, LeavesForeignWork
<1>5. CASE PersonCommits
    <2>1. /\ head' = Append(head, tree) /\ foreign' = "none"
          /\ UNCHANGED <<origin, tree, contents, swept, misread>>
        BY <1>5 DEF PersonCommits, CommitAll
    <2>2. ContentsAreCounted'
        BY <2>1, LastOfAppend DEF WorktreeInv, ContentsAreCounted
    <2> QED
        BY <2>1, <2>2 DEF WorktreeInv, ForeignIsUncommitted, FoundIsMisread, LeavesForeignWork
<1>6. CASE PersonDiscards
    <2>1. /\ tree' = Last(head) /\ foreign' = "none"
          /\ UNCHANGED <<head, origin, contents, swept, misread>>
        BY <1>6 DEF PersonDiscards
    <2>2. ContentsAreCounted'
        BY <2>1, LastOfHistory DEF WorktreeInv, ContentsAreCounted
    <2> QED
        BY <2>1, <2>2 DEF WorktreeInv, ForeignIsUncommitted, FoundIsMisread, LeavesForeignWork
<1>7. CASE UNCHANGED factoryVars
    BY <1>7, WorktreeStays DEF factoryVars
<1> QED
    BY <1>1, <1>2, <1>3, <1>4, <1>5, <1>6, <1>7 DEF FactoryNext
-----------------------------------------------------------------------------
(* Only the full test run leads to a commit, and only a commit to a push.  *)
LEMMA TestedStays ==
    ASSUME TestedInv, UNCHANGED <<tested, raced, pushed>>,
           pc' \notin {"testing", "publish", "commit", "push"}
    PROVE  TestedInv'
BY DEF TestedInv, PushesTestedContent

(* Steps within those that touch neither files nor commits.                *)
LEMMA FilesStayTested ==
    ASSUME TestedInv, UNCHANGED <<tested, raced, pushed, steady, tree, head>>,
           \/ pc' = pc
           \/ pc = "publish" /\ pc' = "commit"
    PROVE  TestedInv'
BY DEF TestedInv, PushesTestedContent, Accounted

(* What the person does to the worktree is accounted for.                  *)
LEMMA DeedsAreAccounted ==
    ASSUME TestedInv, Interferes, UNCHANGED <<pc, head, tested, pushed>>
    PROVE  TestedInv'
<1>1. tested' \cup raced' = tested \cup raced'
      /\ tested \cup raced \subseteq tested \cup raced'
    BY DEF Interferes
<1>2. PushesTestedContent' /\ (pc' = "push" => Last(head') \in tested' \cup raced')
    BY <1>1 DEF TestedInv, PushesTestedContent, Accounted
<1>3. pc' = "testing" => steady' \/ tree' \in raced'
    BY DEF Interferes
<1>4. pc' \in {"publish", "commit"} => tree' \in tested' \cup raced'
    BY DEF Interferes
<1> QED
    BY <1>2, <1>3, <1>4 DEF TestedInv, PushesTestedContent, Accounted

LEMMA TestedStep ==
    ASSUME WorktreeInv, TestedInv, [FactoryNext]_factoryVars
    PROVE  TestedInv'
<1> USE DEF processVars, worktreeVars, factoryHistoryVars, testHistory, memoryHistory, Goto
<1>1. CASE \/ StartLoop \/ BeginCycle \/ AttemptsUsedUp \/ MergeUpstream \/ NoMerge
           \/ BlockedDirty \/ FactoryComplete \/ TestsFail \/ NothingToPublish
           \/ PushDisabled \/ PushRejected \/ RecordRepair \/ Die \/ DieWriting
           \/ \E passes \in BOOLEAN : PlatformAudit(passes)
           \/ \E failure \in Failures : RepeatedFailure(failure) \/ NewFailure(failure)
           \/ \E succeeds \in BOOLEAN : Kilo(succeeds)
    BY <1>1, TestedStays
       DEF StartLoop, BeginCycle, AttemptsUsedUp, MergeUpstream, NoMerge, BlockedDirty,
           FactoryComplete, TestsFail, NothingToPublish, PushDisabled, PushRejected,
           RecordRepair, Die, DieWriting, PlatformAudit, RepeatedFailure, NewFailure, Kilo
<1>2. CASE StartTests
    BY <1>2 DEF StartTests, TestedInv, PushesTestedContent
<1>3. CASE FullTests
    BY <1>3 DEF FullTests, Passed, TestedInv, PushesTestedContent, Accounted
<1>4. CASE SomethingToPublish \/ PersonPushes
    BY <1>4, FilesStayTested DEF SomethingToPublish, PersonPushes
<1>5. CASE CommitRepair
    <2>1. Last(Append(head, tree)) = tree
        BY LastOfAppend DEF WorktreeInv, ContentsAreCounted
    <2> QED
        BY <1>5, <2>1 DEF CommitRepair, CommitAll, TestedInv, PushesTestedContent, Accounted
<1>6. CASE CommittedAlready
    BY <1>6 DEF CommittedAlready, Dirty, TestedInv, PushesTestedContent, Accounted
<1>7. CASE \E answered \in BOOLEAN : PushHead(answered)
    BY <1>7 DEF PushHead, TestedInv, PushesTestedContent, Accounted
<1>8. CASE PersonEdits \/ PersonDiscards
    BY <1>8, DeedsAreAccounted DEF PersonEdits, PersonDiscards
<1>9. CASE PersonCommits
    <2>1. Last(Append(head, tree)) = tree
        BY LastOfAppend DEF WorktreeInv, ContentsAreCounted
    <2>2. /\ head' = Append(head, tree) /\ tree' = tree
          /\ raced' = IF pc = "push" THEN raced \cup {tree} ELSE raced
          /\ UNCHANGED <<pc, tested, steady, pushed>>
        BY <1>9 DEF PersonCommits, CommitAll
    <2> QED
        BY <2>1, <2>2 DEF TestedInv, PushesTestedContent, Accounted
<1>10. CASE UNCHANGED factoryVars
    BY <1>10, FilesStayTested DEF factoryVars
<1> QED
    BY <1>1, <1>2, <1>3, <1>4, <1>5, <1>6, <1>7, <1>8, <1>9, <1>10 DEF FactoryNext, Loop

-----------------------------------------------------------------------------
(* Steps that call no agent and write nothing but what the process knows.  *)
LEMMA MemoryStays ==
    ASSUME MemoryInv, UNCHANGED <<memory, repaired, stateLost>>,
           file' \in {file, memory}, file' # file => pc # "off",
           pc' # "off" => pc # "off", pc' = "repair" => pc = "repair"
    PROVE  MemoryInv'
BY DEF MemoryInv, RepairsNewFailures

LEMMA MemoryStep ==
    ASSUME MemoryInv, NoFailureIsNone, [FactoryNext]_factoryVars
    PROVE  MemoryInv'
<1> USE DEF processVars, worktreeVars, factoryHistoryVars, testHistory, memoryHistory,
            Goto, SaveState
<1>1. CASE StartLoop
    BY <1>1 DEF StartLoop, MemoryInv, RepairsNewFailures
<1>2. CASE \/ BeginCycle \/ AttemptsUsedUp \/ MergeUpstream \/ NoMerge \/ BlockedDirty
           \/ FactoryComplete \/ StartTests \/ TestsFail \/ FullTests
           \/ NothingToPublish \/ SomethingToPublish \/ CommitRepair
           \/ CommittedAlready \/ PushDisabled \/ PushRejected \/ RecordRepair \/ Die
           \/ \E passes \in BOOLEAN : PlatformAudit(passes)
           \/ \E failure \in Failures : RepeatedFailure(failure)
           \/ \E answered \in BOOLEAN : PushHead(answered)
    BY <1>2, MemoryStays
       DEF BeginCycle, AttemptsUsedUp, MergeUpstream, NoMerge, BlockedDirty,
           FactoryComplete, StartTests, TestsFail, FullTests, NothingToPublish,
           SomethingToPublish, CommitRepair, CommittedAlready, PushDisabled, PushRejected, RecordRepair, Die,
           PlatformAudit, RepeatedFailure, PushHead
<1>3. ASSUME NEW failure \in Failures, NewFailure(failure)
      PROVE  MemoryInv'
    <2>1. /\ memory # <<failure, before>> /\ memory' = <<failure, before>>
          /\ file' = <<failure, before>> /\ stateLost' = stateLost
          /\ repaired' = IF repaired = <<failure, before>> THEN repaired ELSE NoFailure
          /\ <<failure, before>> # NoFailure
          /\ pc = "factory"
        BY <1>3 DEF NewFailure, Recorded, NoFailureIsNone
    <2>2. ~ stateLost => repaired # <<failure, before>>
        BY <2>1 DEF MemoryInv
    <2> QED
        BY <2>1, <2>2 DEF MemoryInv, RepairsNewFailures
<1>4. CASE \E succeeds \in BOOLEAN : Kilo(succeeds)
    BY <1>4 DEF Kilo, MemoryInv, RepairsNewFailures
<1>5. CASE DieWriting
    BY <1>5 DEF DieWriting, MemoryInv, RepairsNewFailures
<1>6. CASE PersonPushes \/ PersonEdits
    BY <1>6, MemoryStays DEF PersonPushes, PersonEdits
<1>7. CASE PersonCommits
    BY <1>7, MemoryStays DEF PersonCommits
<1>8. CASE PersonDiscards
    BY <1>8 DEF PersonDiscards, MemoryInv, RepairsNewFailures
<1>9. CASE UNCHANGED factoryVars
    BY <1>9, MemoryStays DEF factoryVars
<1> QED
    BY <1>1, <1>2, <1>3, <1>4, <1>5, <1>6, <1>7, <1>8, <1>9 DEF FactoryNext, Loop

-----------------------------------------------------------------------------
LEMMA FactoryInvInit ==
    ASSUME FactoryInit
    PROVE  WorktreeInv /\ TestedInv /\ MemoryInv
<1>1. /\ head = <<0>> /\ origin = <<0>> /\ tree = 0 /\ contents = 0 /\ pc = "off"
      /\ foreign = "none" /\ swept = FALSE /\ pushed = {}
      /\ repaired = NoFailure
    BY DEF FactoryInit
<1>2. ContentsAreCounted
    BY <1>1 DEF ContentsAreCounted
<1> QED
    BY <1>1, <1>2
       DEF WorktreeInv, ForeignIsUncommitted, FoundIsMisread, LeavesForeignWork,
           TestedInv, PushesTestedContent, MemoryInv, RepairsNewFailures

(* The files at every head the loop pushes have passed the full test run,  *)
(* whoever committed them and whichever run did, unless a person made them *)
(* after it had begun.                                                     *)
THEOREM PushesAreTested == FactorySpec => []PushesTestedContent
<1>1. FactoryInit => WorktreeInv /\ TestedInv
    BY FactoryInvInit
<1>2. WorktreeInv /\ TestedInv /\ [FactoryNext]_factoryVars => (WorktreeInv /\ TestedInv)'
    BY WorktreeStep, TestedStep
<1>3. TestedInv => PushesTestedContent
    BY DEF TestedInv
<1> QED
    BY <1>1, <1>2, <1>3, PTL DEF FactorySpec

(* A person's uncommitted work is swept into a repair only when git status *)
(* failed.                                                                 *)
THEOREM ForeignWorkIsLeft == FactorySpec => []LeavesForeignWork
<1>1. FactoryInit => WorktreeInv
    BY FactoryInvInit
<1>2. WorktreeInv /\ [FactoryNext]_factoryVars => WorktreeInv'
    BY WorktreeStep
<1>3. WorktreeInv => LeavesForeignWork
    BY DEF WorktreeInv
<1> QED
    BY <1>1, <1>2, <1>3, PTL DEF FactorySpec

(* The agent is called for a failure once, whatever dies in between, as    *)
(* long as the state file is not lost.                                     *)
THEOREM FailuresAreRepairedOnce ==
    ASSUME NoFailureIsNone
    PROVE  FactorySpec => []RepairsNewFailures
<1>1. FactoryInit => MemoryInv
    BY FactoryInvInit
<1>2. MemoryInv /\ [FactoryNext]_factoryVars => MemoryInv'
    BY MemoryStep
<1>3. MemoryInv => RepairsNewFailures
    BY DEF MemoryInv
<1> QED
    BY <1>1, <1>2, <1>3, PTL DEF FactorySpec
=============================================================================
