# HooshyarOS in TLA+

HooshyarOS is a platform that is meant to build itself. Its core is the
autonomous builder: a daemon that, cycle after cycle, picks the next missing
capability (a *knot*), has an agent write it, verifies it, commits it and
pushes it, and goes back to a checkpoint when anything fails. Around it stand
a factory loop that repairs what the product's tests report, a set of GitHub
workflows and scripts by which several builders share the repository
(Team V2), a commercial runtime (an HTTP server with sessions and tenants), an
assistant that runs missions, a core of engines that hear each other's events,
and several hundred small TypeScript and Python classes of pure computation.

This directory models all of these but the last. Ten parts are checked as
state machines by TLC; smaller decisions are operators or small machines
that are proved about directly. Every safety property that a passing run checks
on an instance is proved for every instance; liveness is left to TLC.

All paths are relative to `Backend/HBOS/` unless they begin elsewhere.

## Inventory

| Component | State | Operations | What is hard | What makes it correct |
|---|---|---|---|---|
| Construction engine `Builder/Autonomous/AutonomousConstructionEngine.ts` | stage, attempts, artifacts, trace | `build`: ARCHITECTURE, PLAN, GENERATE, VERIFY, (REPAIR, VERIFY)*, FINALIZE | the repair loop's `continue`, three kinds of "nothing changed", a flag set at GENERATE and read at FINALIZE | success only on content proven after its last change; attempts are bounded and all used |
| Development loop and controller `Architecture/Autonomous/`, `Builder/Autonomous/ArchitectureDrivenBuildController.ts` | none | `execute`, `construct`, `verifyCompletionEvidence` | an exception after the push | the evidence it demands is always there |
| Toolset `Autonomous/Runtime/LocalConstructionToolset.ts` | the git repository | the generator; the git tool's add, commit, fetch, rebase, push | other people pushing in between, commands that fail or are killed, `add -A` | only proven, owned changes are committed and published |
| Agent `Backend/AI_Runtime/autonomous_builder.py`, `autonomous_spec.py` | files | write missing, overwrite, refuse | partial artifacts, missing dependencies, scaffolds it cannot recognise later | it stays within the declared artifacts, and should keep what others wrote |
| Recovery `Autonomous/Runtime/AutonomousKnotRecovery.ts` | files, HEAD | `observe`, `rollback` | a rollback that fails half way | a reweaving starts from the checkpoint |
| Daemon `Autonomous/Runtime/AutonomousBuildDaemon.ts` | cycle, mission, checkpoint | `run` | crashes and restarts, stale snapshots, failed reweavings | what is published is proven; found work survives; a run ends |
| Mission selection and audits `AutonomousProjectMission.ts`, `AutonomousPlatformContinuation.ts`, `CanonicalCapabilityAudit.ts`, the release gates | none, they read the tree | `nextMission`, `selectNextCapability`, audits | six lists of capabilities kept by hand, which must agree | what is asked for gets built; an audit never blocks on what nobody is asked to build |
| Performance budget `AutonomousPerformanceBudget.ts` | a JSON file, its copy in memory | constructor, `beginCycle`, `assertWithinDeadline`, `completeCycle` | restarts, torn and failed writes, a clock set back | the deadline of the first start holds |
| Batch planner `AutonomousConstructionBatchPlanner.ts`, self-repair runner | none, attempts | `plan`, `run` | batches of independent knots with owners | dependencies in earlier batches, owners apart |
| Factory loop `scripts/autonomous-factory-loop.cjs` | HEAD, worktree, a state file | merge, audit, repair, test, commit, push | people at the same worktree, a state file that is torn, programs that fail | what is pushed was tested, but for what a person changes meanwhile; a failure is not repaired twice; uncommitted work it finds is left alone |
| Team V2 dispatch authority `scripts/team-v2-dispatch-authority.cjs`, `scripts/lib/team-v2-*.cjs` | git refs: reservation, record, active, consumed authorization | admit, reserve, consume, dispatch | several dispatchers, reads that are not atomic with the refs they lead to, a failure between any two steps | one wave at a time, an authorization is used once |
| Team V2 worker `.github/workflows/hooshyaros-team-worker.yml` and the recovery workflows | refs, artifacts | claim, integrate, push, synthesize, release | a lease that runs out, release only on success | only the holder integrates |
| Commercial runtime `CommercialRuntimeServer.ts`, `Product/CommercialIdentityService.ts` | sessions, latest result per tenant, trail | login, logout, analyze, dashboard; authorize, revoke | an analysis awaited while others are served, a shutdown | tenants are apart; the latest result rests on a record; the trail justifies every access |
| Product persistence and analysis `Product/` | a SQLite store | ingest, analyse, write | rows and totals at their limits | |
| Builder queue, scheduler, lifecycle `Builder/` | in-memory lists | enqueue, next, advance | | |
| Core `Core/`, `Engines/MemoryEngine.ts` | registry, statuses, events, listeners | register, boot, `store`, projects | listeners that throw, or store while they hear | an event is heard up to the throw; order is lost only by nesting |
| Assistant `Assistant/` | missions, memory, lessons | four doors to the mission lifecycle, feedback, faces, conductors | overlapping calls, awaits, a daemon that throws | one order in all memories; only what was gated is built; every caller is answered |
| Intelligence engines, agents, Python runtime | mostly none | pure methods; the engines other parts rest on are modelled with those | | |
| Workflows, web, Android, installer | none of their own | CI jobs, presentation; the browser client is modelled with the server | | |

The daemon calls the development loop, the loop the controller, the controller
the engine, the engine a tool per stage; the tools run the agent and git as
child processes and change the repository, which the daemon and the mission
selection then read again. Nothing is passed between two runs but the
repository and the budget's state file. The assistant calls the daemon, the
factory loop starts programs of the product. The construction workflows on
GitHub are switched off by a condition that is false
(`.github/workflows/autonomous-platform-construction.yml:17`); the daemon is
run by hand (`npm run autonomous:build`).

## Modules

| Module | What it models |
|---|---|
| `ConstructionEngine` | One `build()`, with the two layers that call it. A stage is a state; the answer of the tool is the parameter of the action. |
| `ConstructionRepository` | The repository: history of HEAD, remote, remote-tracking branch, kinds of uncommitted change; the generator, the agent, each step of FINALIZE, the rollback, pushes by others, the death of the process. |
| `BuildDaemon` | `run()`: it EXTENDS the two, and each action conjoins a step of the engine with the effect of the tool that step calls. |
| `PublishedHistory` | The abstract specification: what the daemon promises of the shared branch. `BuildDaemon` implements it by the mapping `ledger <- origin`, `proven <- provenKnots`; TLC checks it and TLAPS proves it. |
| `PerformanceBudget` | The deadline and telemetry over restarts, with the file, the clock and crashes. |
| `CapabilityEvidence` | The tables of the source: backlog, extensions, discovery, audits, gates of a release, each over the files of the tree. |
| `MissionSelection` | `selectMission` over those tables, and what a cycle of the daemon then does to the tree; people edit and commit. |
| `FactoryLoop` | The factory loop with the programs it starts, the state file, a person at the worktree and at the remote, crashes. |
| `TeamDispatch` | The dispatch authority: several processes that run the script over the refs of the shared repository, with the target branch, the minting of authorizations, an operator and failing calls around it. |
| `TeamWorker` | The worker's runs over the same refs and branch; it EXTENDS `TeamDispatch`, whose steps are steps of the whole. |
| `TeamAdmission` | The rules of admission themselves, the authority's and the library's, the gate and the authorization, as operators. |
| `FinancialLedger` | Validation and totals of a ledger, the figures of an analysis. |
| `CommercialRuntime` | The HTTP server over its store and the browsers that use it; a handler is split at its awaits. It EXTENDS `FinancialLedger`. |
| `CommercialIdentity` | The identity service, which the server does not use: sessions, permissions, the audit trail. |
| `MissionPipeline` | The mission lifecycle every controller of the assistant runs through, as operators. |
| `AssistantMissions` | The four asynchronous doors to it and the synchronous controllers on one event loop; it EXTENDS `MissionPipeline`. |
| `AssistantFaces`, `ProjectConductor` | Which face answers an input; what the conductors find missing and in which order. |
| `CoreEvents` | The memory engine and its listeners: a broadcast is a stack of frames. |
| `CoreBoot`, `ProjectAssistant` | Boot, dependencies, statuses and health; the projects of `Core/` and the assistant that analyses one. |
| `BatchPlanner` | `plan()` of the batch planner: its walk over what remains, one capability per step, a batch for each walk. |
| `PerformanceBudgetProofs`, `BuildDaemonProofs`, `TeamWorkerProofs`, `FactoryLoopProofs`, `CommercialRuntimeProofs`, `AssistantMissionsProofs`, `CoreEventsProofs`, `DecisionProofs` | Theorems and their proofs. `BuildDaemonProofs` begins with those of `ConstructionEngine`, `TeamWorkerProofs` with those of `TeamDispatch`. `CommercialRuntimeProofs` is also about `CommercialIdentity`; `DecisionProofs` about `BatchPlanner`, `TeamAdmission`, `CoreBoot`, `AssistantFaces`, `ProjectConductor`, `ProjectAssistant`, and about `MissionSelection` with the tables of `CapabilityEvidence`. |
| `MC...` | Instances for TLC, one per component that is run. |

Definitions named like another with a suffix (`RepairUnverified` beside
`Repair`) and introduced by "Fault:" are plausible bugs. They are used only to
see that each property would notice one.

### How the code's state appears

*Engine.* `stage` is the stage whose tool runs, `attempt` the local variable,
`generated` what `artifacts.GENERATE` is later asked, `trace` the trace pushed
so far, `result` the `ConstructionResult`. `unproven` is a history variable:
GENERATE and REPAIR may change the content, a complete VERIFY proves it. The
answers of a tool are reduced to the ones `build()` treats differently
(`AnswersOf`): for VERIFY, an `ok` with the whole evidence record, an `ok`
without it, and a failure.

*Repository.* A history is a sequence of patches. The agent's text of a knot
is determined by the knot, so the patch that adds it is the knot itself; a
repair of a knot the agent has no text of writes something else (the goal's
wording, with the checkpoint's hash, goes into the file): `Rework(k)`. Foreign
patches are what people push. Content is compared as "whose version of the
files is the last" (`Version`), which is what the rebase's patch equivalence,
add/add conflicts and the audit's recognition depend on. The working tree is a
set of kinds of change: to a file git knows or staged, a new declared artifact,
a new file elsewhere; that is what `reset --hard`, `git clean` and the
boundary check treat differently. A commit that cannot be read is `NoCommit`,
the empty string of the code.

*Daemon.* `mode`, `cycle`, `mission`, `checkpoint` and `status` are those of
`run()`. Every snapshot the code takes is a fresh choice in `Snapshots`: a
failed git command reads as no commit and as a clean tree, as
`AutonomousProjectMission.snapshot` has it. `provenKnots`, `provenTree`,
`found` and `misread` are history variables.

*Budget.* The file is absent, corrupt or holds a state; the object in memory
lives from `Construct` to the end of the process; a write may be done, fail, or
be cut short.

*Dispatch authority.* A commit of the target branch is what the script reads of
it: the work the plan's one lease names (`plan`, `NoWork` if there is no lawful
one), the works that the registry's rows, attempts and dependencies let through
(`ready`), whether the gate is ARMED with `hold_after_pass` (`held`). Its SHA is
its place in `commits`. `active`, `records`, `consumed` are the refs
`team-v2/active/<work>`, `team-v2/reservations/<id>`,
`team-v2/auth-consumed/<authorization>`; a reservation id is a hash of all that
was read, so `records` holds that. `at` is the line a dispatcher is at, `snap`
what it has read. Each call of the API is a step with its outcomes: a ref is
created, was there already, the call fails, or the call fails and the ref is
there all the same (`CreateAnswers`); a deletion that fails is passed over
(`DeleteAnswers`), and so is a failed look at the consumed ref. A read that
throws is a `Crash`. The six queries for active runs are one look; the minting
job reads the plan and the gate in one step, its SHA in an earlier one. In the
workflow the authority's job runs one at a time
(`.github/workflows/team-dispatch-authority.yml:25`), but the control plane's
validation runs the script outside that group
(`team-v2-control-plane-validation.yml:55`), hence `Dispatchers`.

*Worker.* `step` is the step of a run that comes next in `prepare` and
`integrate`; `start` is `start_sha`, `tree` the plan of the checkout, `claims`
the refs `team-v2/claims/<id>`. Everything between the claim and quality control
is one answer (`Execute`). The admission of new registry rows may push to the
target before the claim; for the claim this is any other push (`PushTarget`).
A promotion takes the work out of `ready`.

*Mission selection.* The tree is the set of items that are in it: a file, a
method in a file, a label, a word a document must say. What an item stands for
does not matter to the code, only who asks for it; the six lists that ask are
the tables of `CapabilityEvidence`, entry by entry. `head` is the tree of the
commit, and a cycle of the daemon is one step, in which git answers: the steps
in between and the failures are `BuildDaemon`'s.

*Factory loop.* `pc` is the line that comes next, a content is a version of all
the files. `memory` and `file` are the two places of the last failure's
fingerprint, which is the failure with the commit it was seen at. A person edits,
commits, throws away and pushes at any moment: before, during and after the test
run, and between the two looks at the worktree, since the script takes no lock.
(An edit between a `git status` and the merge it decides on is as one after the
merge.) Each program the loop starts may answer anything; a git command may
fail, and a `git status` that fails has no output and reads as a clean worktree.
`tested` are the contents of which a whole test run has spoken, a run during
which nobody touched the files (`steady`); `raced` are those a person made between
the start of the tests and the commit, or committed before the push; `foreign`
tells work a cycle found from work written after its look.

*Commercial runtime.* A token stands for the tenant it creates. A request is at
`at`: sent, with its body read, or back from the store; in between, other
handlers run. `sessions` and `latest` are in the process and are gone after a
stop, `store` is not. `cookie` and `seen` are the browsers' own; `owner`,
`submitted` and `accepted` are history. A body may be bad JSON, a ledger or a
balance sheet may be refused, an answer may not arrive.

*Assistant.* A call runs to its first await, and what follows an await is a job
of the microtask queue (`jobs`), which is first in, first out. The doors differ
in how many awaits lie between the call and each of the stores. The daemon runs
to its end inside one job, and may throw.

*Core.* A broadcast walks along the listeners there were when it began; a
listener may throw, or store an event, whose broadcast then runs inside the
first. `stack` holds the walks under way, `known`, `during` and `cut` are
history: how many listeners an event had, inside which events it was stored,
whether a throw ended its walk.

## What the runs check

| Run | Question and result |
|---|---|
| `engine` | All builds, every answer of every tool, complete and incomplete requirements, three repair attempts. Success rests on a proof made after the last change (`SuccessRestsOnProof`); the completion evidence is there (`CompletionEvidenceHolds`); attempts are used up before a block (`RepairsExhausted`); every build ends (`EveryBuildEnds`). |
| `daemon` | Two runs of up to five cycles, every git command may fail, one crash anywhere, one person who pushes. The refinement of `PublishedHistory` (`PublishesProvenHistory`); what is committed is the mission's knot as proved (`CommitsRecordProvenKnot`); a reweaving starts from the checkpoint (`ReweavesFromCheckpoint`); an advance with a commit means the remote has it (`BuiltKnotsPublished`); no knot is woven twice in a run but the ones the audit cannot recognise (`WovenOncePerRun`); what a run has advanced over is in HEAD when it selects again (`AdvancedKnotsPresent`); found work survives (`FoundWorkSurvives`); runs end (`RunsEnd`). |
| `budget` | A budget of two instants out of five, three cycles, restarts, crashes, lost writes, a clock set back. Cycles are admitted within the first start's budget (`CyclesWithinBudget`), the telemetry counts every cycle (`TelemetryComplete`), and the cycles fit the time that passed (`CyclesFitElapsedTime`). |
| `selection` | Repositories in which everything is in place, or all but one capability, file or fact; two edits of people, runs of two cycles. A run completes only over a tree in which the backlog is implemented and the gates of a release and the qualification ask for nothing but what no mission ever builds (`CompleteMeansBuilt`), and a run the canonical audit ends has something named as missing, which no mission asks for: the roadmap, methods of the audit's own table, one document (`AuditBlocksOnWhatIsUnasked`). |
| `selection_overwrites` | Violation: the repair of a mission whose files exist in part writes a scaffold over an implemented engine and its test. |
| `factory` | Two starts of two attempts, three new versions of the files, three faults or deeds of a person, who is at the worktree at every step. What is pushed was tested, except what the person changed after the tests began and before the commit, or committed before the push (`PushesTestedContent`); the agent is not called twice in a row for one failure of one commit (`RepairsNewFailures`); uncommitted work that was there when a cycle looked is committed only after a `git status` that failed (`LeavesForeignWork`). |
| `dispatch` | Two dispatchers, two works, one authorization, two commits, three runs, one failed call, lost answer or death. An unfinished worker is alone with its work (`OneWorkerPerWork`), a held gate spends one authorization on one worker (`HeldGateSpendsAuthorization`), a worker is admitted on the files of one commit (`DispatchedFromOneCommit`), and a ref that nobody holds comes from a fault (`OrphansComeFromFaults`). |
| `dispatch_duplicate` | Violation: the list of active runs never shows a run of the authority, so a second worker is dispatched while a first is not over. |
| `worker` | One dispatcher and an operator, three runs, a person's push, one fault. A reservation gets one worker of the authority (`OneDispatchPerReservation`) and is executed once (`ExecutedOnce`), on its commit (`ExecutesReservedCommit`); it is held to the promotion (`HolderKeepsReservation`), which extends that very commit (`PromotionExtendsReservation`); every run ends (`RunsEnd`). |
| `commercial` | Two browsers, two tokens, two requests at a time, a crash or a shutdown, handlers that interleave at their awaits. The latest result rests on a persisted record of its tenant (`LatestRestsOnRecord`); no answer shows another tenant's result (`AnswersStayInTenant`); a dashboard is not older than what its session was told was accepted (`DashboardReadsOwnAnalyses`). |
| `assistant` | Three overlapping calls, or pieces of feedback, at the four doors, any run of the daemon throwing. Every store has the missions in the order of their calls (`OneOrderEverywhere`); only a mission two controllers completed is built (`BuildsAreEarned`); a daemon that throws costs the project memory and the history, nothing else (`LostOnlyByDaemon`); a lesson says what its feedback said (`LessonsSummarise`); every caller is answered (`EveryMissionSettles`). |
| `core` | Four events, four registrations, listeners that throw or store. A knowledge engine learns an event as often as it was registered, up to a listener that threw (`HeardUpToTheThrow`), and two events are heard in another order than they were stored in only when one was stored inside the other's broadcast (`OrderLostOnlyByNesting`). |

The findings of the violation runs are in `PROJECT.json` with the lines of the
documents they quote. Other disagreements with the documents are visible in the
models without a run of their own: after a crash between commit and push a later
run completes with the commit unpushed; a composite the rebase makes of proven
knots is pushed without a verification; a knot the agent writes a scaffold of is
woven again in the run that advanced over it; when git commands fail, a product
is published without a knot it rests on, so the refinement promises order only
for the knots whose dependencies the agent itself checks; a lost write makes
the next start a new budget; and the self tests of the development loop assert a
build that the engine blocks.

What a reader may not expect of the code, as modelled:

- The factory loop commits and pushes untested whatever a person changes between
  the start of `npm test` (`scripts/autonomous-factory-loop.cjs:169`) and
  `git add --all` (line 74), and whatever they commit between that and `git push`.
- Without `Docs/ROADMAP.md` the canonical audit misses exactly that file
  (`CanonicalCapabilityAudit.ts:31`), no mission builds it, and the daemon blocks
  with MISSING_ARTIFACTS. An audit that is not complete always names something, so
  the daemon's two other reasons (`AutonomousBuildDaemon.ts:117`,
  ROADMAP_MISSING among them) are never given.
- `validateWork` of the library is imported by the dispatch authority and never
  called; `AuthorityImpliesLibrary` says its rules follow all the same if the
  registry has no two rows of one work. Of two such rows the authority reads
  the last, the library the first. A lease of the whole repository (`*`, `./`)
  overlaps nothing.
- Repairs of the assistant's completion evidence target the Autonomous Operations
  engine, never the file that is missing.
- The commercial audit asks for directories of persistence and authentication
  that the repository does not have and no mission builds, so it blocks.
- A missing deployment controller selects the mission of the cloud deployment, which
  finds its own artifacts in place and is accepted as present: run after run.
- A mission with a blank goal is recorded as completed although the nested
  execution failed; `remember` of the core assistant keeps nothing;
  `AutonomousChiefEngineer` executes whatever its gate says; the operating
  system's commit is a record of one.
- The boot of `HBOS` compares with a constant list of names, none of them an
  engine's (`BootLooksAtNoEngine`); the health of an engine is a constant.
- `Engines/ProjectPilotEngine` does not subscribe its reaction engine; the copy in
  `Core/` does.

### Bounds

*Knots.* Five: `k1` rests on `k2`, which the backlog lists after it, so order
can come only from dependencies; `k3` has no text in the agent, so it gets a
scaffold, and a person's patch writes the same files; `x1` is an extension, a
product of the roadmap that rests on both; the gate's artifacts are partly in
the tree. Together they take every branch of the agent, of the audit and of
the rollback. In the repository the four platform knots at the head of the
backlog and four engine knots have a text (`CAPABILITIES`), the products are
discovered extensions, and the rest are scaffolds.

*Runs and crashes.* Two runs and one crash let a run meet what another, failed
or dead, left behind (492 thousand states). `MaxCycles = 5` lets a run weave all of the backlog,
the extension and the gate, and come to its limit. The
inductive invariants of `BuildDaemonProofs` were also checked with three runs
of three cycles and two patches of other people, one of them opaque to the audit (4.1
million states).

*Repairs.* The engine's run uses three attempts, as the code does, the daemon's one; the theorems
hold for any number.

*Clock.* Five instants and a budget of two put the deadline before, at and
after every event.

*Selection.* The tables are those of the code, entry by entry, so the instance is the
repository itself. A start tree lacks nothing, one item, or one whole
capability, of each kind that is treated differently; two edits reach the pairs.
Two cycles are the failed knot and its repair (325 thousand states).

*Factory loop.* Two attempts in each of two starts are what a fingerprint must
survive; three new versions are the agent's, a person's before and a person's
after it. Three faults allow one before and one after the state is written with a
deed of the person between (3.8 million states); what the person does while the
loop is running counts as one, tidying up after it has stopped does not.

*Team V2.* Two dispatchers race for one ref or one authorization; the
theorems cover any number. Two works let one be reserved while another is
promoted; one authorization and one push let it go stale, expire, or be used by
either dispatcher. Three runs are the one that works, the one that waits and
the one that takes its place. One fault can fall on any call; with it every
retreat of the script is taken (335 thousand states; 123 thousand in `worker`).
`RunsLeft` keeps a dispatcher from starting
when its run would exceed `MaxRuns`. The worker's invariant was also
checked with two dispatchers and two faults (8.5 million states).

*Commercial runtime.* Two browsers can be in two tenants or one after the other
in a new one; two requests are an analysis and whatever overtakes it; a crash
or a shutdown falls at every await.

*Assistant.* Three events give every pair of doors with a third between; four
(700 thousand states) were checked too.

*Core.* Four events nest three deep and leave one to come after; four registrations
register a listener twice (927 thousand states).

### Fairness

`EngineSpec` and `BuildDaemon!Spec` have weak fairness on the steps of a build
and of a run. `run()` is one synchronous call; the tools run their commands
under `execFileSync` with a timeout (`LocalConstructionToolset.ts:8`), so a
stage always answers. The git commands of recovery and of the snapshots have
no timeout: that they return is assumed. Nothing makes anybody start a run or
a build, push, or kill the process.
`TeamWorker!Spec` has weak fairness on the steps of each run: GitHub starts the
run that waits and carries on a job, whose steps end by themselves or by the
job's timeout. Nothing is assumed of dispatchers, people or the cancellation of
a waiting run. `AssistantMissions!Spec` has weak fairness on the microtask queue,
which JavaScript serves until it is empty, and none on calls. The other
specifications state no fairness. `CHECK_DEADLOCK FALSE` is set where nothing
need happen once the bounds are reached or nobody calls.

### Assumptions

*Team V2.* At this commit every job of the authority, the minting and the worker
is held by `if: false` ("SECURITY_HOLD"); they are modelled as enabled. An operator starts a worker only for a reservation
that stands and that no dispatcher is still working on, nor about to give back;
the adjudication of a reservation clears it only when nobody works on it. Both are done by hand and
are no code here. Nobody rewrites the target branch.

*Construction.* In `BuildDaemon` the assistant's own files are in place, so selection gets
to the backlog; `MissionSelection` does without that. The
remote branch exists, and nobody rewrites it. One daemon works in the worktree
and nobody edits it during a run. Conflicts are certain when both sides add the
same files, possible in any other replay. VERIFY may answer anything: the
shipped python tool never supplies the whole evidence record, with it every
build blocks at VERIFY; the daemon takes the toolset as an option, and the
model covers any. In `BuildDaemon` the answers of the canonical and the commercial audit are a
free choice.

*Commercial runtime.* A token never repeats. SQLite's write is atomic.

## What is proved

TLAPS checks the proof modules from nothing. A theorem rests on the
named `ASSUME`s of the modules, which say what the constants are and which TLC
evaluates on every run, and where it says so on one hypothesis more:
`ListIsFinite` of the planner's list, and `NoSessionIsNone`, `NoFailureIsNone`
and `NamesApart`, that a constant used for "none" is none of the tuples or
records it stands beside; a model value is not.

*Engine*, for every `MaxRepairAttempts`, `Answers` and `Requirements`:
`EngineTypeCorrect`, `SuccessProven`, `CompletionEvidenceProven`,
`RepairsExhaustedProven` and `BuildsAreBounded`. None of the
three in between is inductive: they speak of the end of a build, and hold there because of what is
true on the way. The inductive invariant `TraceInv` says, per stage, which
stages the trace already has (`Visited`), that a repair is in the trace exactly
when an attempt was made, that the flag `generated` is settled before VERIFY,
and that content at FINALIZE is proven. Lemmas say what appending to a trace
adds and what the two ways out of a failed verification, going on and giving
up, preserve; each action then has one step.

*Daemon*, for every set of knots, dependencies, foreign patches, runs, cycles and
crashes: all its safety properties and the refinement. Four invariants, each
proved with the help of the ones before:

- `Working` is the type (`Typed`), the program counter (`Phases`: which of mode, stage and
  git step go together) and what the tree may hold there (`TreeHeld`: from GENERATE to
  the commit it is clean or has the mission's patch and nothing else, and what
  FINALIZE commits is what was proven). `OnlyProvenKnotsAreCommitted` and
  `ReweavingStartsClean` follow.
- `Undisturbed`: work the run has found and seen is still there, since the mode
  never gets to weaving over it. `FoundWorkIsLeftAlone` follows.
- `Achieved`: the knots a run advanced over as built are in the history of the remote,
  and the head, and the checkpoint a rollback may return to, has every knot it
  advanced over. That is what a rebase could break: it replays what is new of
  the head on the remote, and lemmas about the replay say that no knot is lost.
  `WhatIsBuiltIsPublished`, `WhatIsAdvancedOverIsPresent` and `WeavingIsNotRepeated`
  follow.
- `Lineage` ties head, tracking branch and remote together: where the head no longer
  agrees with the remote it has builds of proven knots (`GoodAt`), the knots the agent has
  a text of after what they rest on, each once. It has to say so of the
  checkpoint too, which a rollback may return to (`Recoverable`), and of repairs
  (`Reworks`, `Builds`): a rebase drops a commit whose patch the remote has, so
  the repairs on the remote must be those of the head. It claims nothing of a
  HEAD that a stopped rebase has detached, which is never pushed again.

`PublishedHistoryIsProven` is the refinement theorem: the initial states map to
initial states, a push maps to the publication of a suffix of proven knots, by
`Lineage`, and every other step to a stutter or to a foreign push.

*Budget*, for every budget and bound: `TypeCorrect`, `BudgetIsKept`,
`TelemetryIsComplete` and `ElapsedFits`. `MemoryInv` ties the object in memory
and the file to the history: as long as no write was lost the two agree with
the first start and the number of completed cycles. `ElapsedInv` bounds the
accumulated time by the instant the running cycle began, which is what makes
the bound survive a completed cycle.

*Factory loop*, for every bound: `WorktreeInv` (work a cycle found is uncommitted, and
there is none past the look unless that look misread it) gives
`ForeignWorkIsLeft`. `TestedInv` follows the content from the test run on: what is in
the worktree or in HEAD and about to be committed or pushed is tested or raced
(`Accounted`). It rests on two lemmas, that files nobody touches stay tested and
that what a person does to them from the tests on is on record as raced; it gives
`PushesAreTested`. `MemoryInv` says that as long as the state file is not lost it
keeps up with the process and names the failure repaired last, and gives
`FailuresAreRepairedOnce`.

*Dispatch authority*, for every number of dispatchers (finite), works, authorizations,
commits, runs and faults: `WorkIsExclusive`, `OneCommitIsDispatched`,
`ReservationsDispatchOnce`, `AuthorizationsAreSpentOnce` and `OrphansAreFaults`.
Each rests on `Typed`, types free of the bounds, and
an inductive invariant of its own. `Exclusion`: a holder of a work is a
dispatcher from the active ref to the dispatch, or an unfinished worker; a
holder has the ref, and is alone. `OneWorkerPerWork` speaks of workers only and
is not inductive: it needs that no dispatcher is about to add another.
`Snapshots`: what was read agrees with the commit of the SHA as long as that is
still the last one; `CheckDrift` is where the proviso goes away. `RecordsKept`:
who made a record keeps it until the dispatch, and the record of a worker is
never deleted. `Authorized` and `SpentAlone`: what a dispatcher was admitted with was
minted for what it read, and who consumed it is alone with it. `Owned`: as long as
no fault has happened, each ref has a dispatcher or a run that answers for it.

*Worker*, the same with worker runs in any number: `Everything` adds who has claimed
(`Claimed`, `Claimers`) and gives `ReservationsExecuteOnce`,
`ReservedCommitIsExecuted`, `ReservationIsKept`, `WorkersDispatchedOnce` (the
dispatch-once theorem again, now with releases) and `PromotionsExtend`.
`OneWorkerPerWork` is a theorem of `DispatchSpec` only: once workers execute, an
operator's run of a reservation may release the work while the authority's
own run of it still waits.

*Commercial runtime*, for every number of browsers, tokens, requests and stops: `Shapes` are
the types, `TenantOK`, `BrowserOK` and `RequestOK` the invariant of each kind of
participant, and `Grows` what every step preserves of the histories, so that a
handler that awaits keeps its invariant while others run. They give
`LatestIsRecorded`, `AnswersAreOwn` and `DashboardsAreFresh`. Of the identity
service, `AccessesAreJustified`: its invariant counts in the trail (sessions
opened = sessions revoked + sessions open, per user).

*Decisions* (`DecisionProofs`). The batch planner's `IInv` says that what a walk has passed
over could not have been selected, from which follow order, owners apart,
each capability once, and that a refusal is a cycle. The admission rules, the boot, the
faces, the conductor and the project assistant each have what their comment says. These
modules have no run: their inputs are arguments, and the theorems cover all of them.

*Mission selection* (`DecisionProofs`), over the tables as they are in the source, for
every start tree, every set of items people may edit, any number of edits and
cycles: about this repository, with any files in it. There is a static and a
dynamic part. The static part is about one tree: the backlog lists an
entry after what it rests on (`RestsOnEarlier`), so its recursion has one
solution (`ImplementedIsRecursive`) and grows with the tree
(`ImplementedIsMonotone`); the selection is never stuck (`BacklogNeverStuck`),
and supplying the evidence of the entry it names finishes that entry and undoes
none (`SelectedEntryAdvances`); a tree over which the daemon says complete
lacks nothing but what no mission builds (`CompleteTreeIsBuilt`); the canonical
audit, asked last, misses only the roadmap, methods of its own table and one document
(`AuditMissesTheUnasked`).
The dynamic part is short: a decision is about the present tree as long as nothing has
changed since it was taken (`FreshIsPresent`, the inductive invariant). It gives
`CompletionIsEarned` and `AuditsBlockOnTheUnasked`. Two results have no run of
their own: `UnaskedIsLeftToPeople`, that no cycle, rollback or repair supplies
what the gates ask for and no mission builds, so that an audit that blocks
on it blocks until a person acts; and `CommitsStayDeclared`, that a commit of the daemon
drops no file and adds only files its mission declares. Files are kept; what is
in them is not: that is the finding of `selection_overwrites`.

*Ends.* Liveness needs fairness, which is out of the prover's reach, but most of
what could break it does not: a loop that does not count, an attempt that is given
back. For each part below there is a number of steps left; the theorem says that it
is bounded, that each step of the part uses some of it up, and that nothing else
in the system raises it. `BuildsAreBounded`: a build calls at most
`5 + 2 * MaxRepairAttempts` stages, a failed repair's `continue` included.
`RunsAreBounded`: a run of the daemon has at most
`MaxCycles * (2 * (2 * MaxRepairAttempts + 8) + 3)` steps, whatever git does and others
push; only the start of a run raises what is left, a crash does not.
`EverybodyMovesOn`: every mission without an answer has one job in the queue, and each
job that runs brings every waiting mission nearer to its answer, by a place or by a
stage, of which it has at most three. `PlansAreBounded`: the planner is done with a list of
n capabilities, a cyclic one too, within (n + 1)(n + 1) steps.

*Assistant* (`AssistantMissionsProofs`), for any number of overlapping missions.
`Queue` says what holds of the mission of each waiting job (`Ready`) and that the
missions waiting for a stage of the queue wait in call order; `Behind`, that
what a stage has written is older than all that waits for it. Neither alone is
inductive: a job that finishes the runtime's stage joins those that wait for the
daemon, and is younger than they are because the runtime's memory, which
`Behind` keeps older than it, already has all of them. They give
`StoresKeepCallOrder`, `DaemonRunsAreEarned` and `OnlyTheDaemonLosesMissions`.
`LessonsFollowFeedback` has an invariant of its own, `Learned`.

*Core* (`CoreEventsProofs`), for any listeners and any depth of broadcasts inside
broadcasts. `Walks` says where the broadcasts on the stack stand, `Stacked` and
`Nested` that an inner one is of a younger event stored inside the outer, `Told`
what a broadcast under way has told so far and `Learned` what was learned of
those that are over. They give `EventsAreHeard` and `NestingAloneReorders`.

*Only model-checked.* Liveness: `EveryBuildEnds`, `RunsEnd` of the daemon and of the worker,
`EveryMissionSettles`. Where a bound is proved, what remains for TLC is that until
the end a next step is always possible (ENABLED) and that it is taken (fairness).
For the worker, whose runs wait for each other, no bound is proved.

## Plan

Done: the construction path with its refinement and all its theorems; Team V2's
authority and worker with theirs; the selection and its tables; the factory
loop; the commercial runtime; the batch planner; the assistant; the core;
theorems for every safety property of the runs.

Left, in this order:

1. `TeamRecovery` over `TeamWorker`: the recovery and continuation workflows, which
   start runs and clear refs where the model now has the operator and the
   adjudicator.
2. The admission of new registry rows by the worker (`PLAN_ADMISSION`), which pushes
   before the claim.
3. A bound on what a worker's run may still do, as the daemon's has.

## Not modelled

The text of the artifacts, issues and reports. The api-gateway knot's special
case, where a build may overwrite files that lack a `route` method. A second
daemon on the same worktree, or a person who edits there between VERIFY and
`git add -A` (`Autonomous/Runtime/LocalConstructionToolset.ts:203`): nothing in the
code guards against either, and `BuildDaemon` assumes it away. The same race in
the factory loop is modelled, since people are expected at its worktree. That
`conductor.inspect` may throw in the core assistant's `execute`; that outside code
registers a listener during a broadcast. The self-repair runner, which imports
files the repository does not have. The Python runtime and the intelligence
engines, several hundred classes of one pure method. For everything else the reason is in `PROJECT.json`.

## Running

    tlc -config MCBuildDaemon.cfg MCBuildDaemon.tla
    tlc -config MCMissionSelection.cfg MCMissionSelection.tla
    tlc -config MCSelectionOverwrites.cfg MCMissionSelection.tla
    tlapm BuildDaemonProofs.tla
    tlapm AssistantMissionsProofs.tla
    tlapm DecisionProofs.tla
