----------------------- MODULE AssistantMissionsProofs ----------------------
(***************************************************************************)
(* The missions of the assistant, for any number of overlapping calls.     *)
(* The microtask queue is first in, first out, so missions pass each of    *)
(* its stages in the order of their calls; the invariant says so of the    *)
(* jobs that wait and of what the stores already have.                     *)
(***************************************************************************)
EXTENDS AssistantMissions, FiniteSetTheorems, SequenceTheorems, TLAPS

(* What is left to run of a mission, by the door it came through.          *)
Paths(door) ==
    CASE door = "self"      -> {<<"runtime", "assistant", "self">>, <<"assistant", "self">>,
                                <<"self">>}
      [] door = "assistant" -> {<<"runtime", "assistant">>, <<"assistant">>}
      [] door = "core"      -> {<<"runtime", "core">>, <<"core">>}
      [] door = "platform"  -> {<<"runtime", "orchestrator", "platform">>,
                                <<"orchestrator", "platform">>, <<"platform">>}

AllPaths == UNION {Paths(d) : d \in Doors}
JobSet == [mission : Nat, steps : AllPaths, rejected : BOOLEAN]

Ours(m) == Owner(Door(m)) = "assistant"

QueueTyped ==
    /\ calls \in Seq([door : Doors, goal : Goals])
    /\ jobs \in Seq(JobSet)
    /\ outcome \in Seq({"pending", "fulfilled", "rejected"}) /\ Len(outcome) = Len(calls)

StoresTyped ==
    /\ goals \in Seq(Nat) /\ project \in Seq(Nat) /\ history \in Seq(Nat) /\ builds \in Seq(Nat)
    /\ decisions \in [Owners \cup {"intake"} -> Seq(Nat)]
    /\ memory \in [Owners -> Seq(Nat)] /\ knowledge \in [Owners -> Seq(Nat)]

(* Stated missions the runtime of the autonomous assistant has remembered. *)
Remembered ==
    ToSet(decisions["assistant"]) \cap ToSet(memory["assistant"]) \cap ToSet(knowledge["assistant"])

StepOf(i) == Head(jobs[i].steps)

(* The job at i waits for a stage that is passed in order.  Missions with  *)
(* a blank goal jump to the last one.                                      *)
Waits(i, stage) ==
    StepOf(i) = stage /\ (stage = "self" => Stated(jobs[i].mission))

(* What holds of the mission of a job that waits.                          *)
Ready(j) ==
    LET m == j.mission
    IN  /\ m \in Missions /\ outcome[m] = "pending" /\ j.steps \in Paths(Door(m))
        /\ Ours(m) => IF Stated(m) THEN m \in ToSet(decisions["intake"])
                                   ELSE j.steps = <<"self">>
        /\ Head(j.steps) = "assistant" => m \in Remembered
        /\ Head(j.steps) = "self" /\ Stated(m) =>
               m \in ToSet(builds) /\ (m \in ToSet(project) <=> ~j.rejected)

Queue ==
    /\ \A i \in DOMAIN jobs : Ready(jobs[i])
    /\ \A i, j \in DOMAIN jobs : i < j => jobs[i].mission # jobs[j].mission
    /\ \A stage \in {"runtime", "assistant", "self"} : \A i, j \in DOMAIN jobs :
        i < j /\ Waits(i, stage) /\ Waits(j, stage) => jobs[i].mission < jobs[j].mission

(* What has been written is older than what waits to be.                   *)
Behind ==
    \A i \in DOMAIN jobs :
        LET m == jobs[i].mission
        IN  /\ Waits(i, "runtime") =>
                \A o \in Owners :
                    \A x \in ToSet(memory[o]) \cup ToSet(knowledge[o]) \cup ToSet(decisions[o]) :
                        x < m
            /\ Waits(i, "assistant") => \A x \in ToSet(builds) : x < m
            /\ Waits(i, "self") => \A x \in ToSet(history) : Stated(x) => x < m

Written ==
    /\ ToSet(goals) \subseteq Missions /\ ToSet(history) \subseteq Missions
    /\ ToSet(decisions["intake"]) \subseteq Missions
    /\ \A o \in Owners :
        ToSet(memory[o]) \cup ToSet(knowledge[o]) \cup ToSet(decisions[o]) \subseteq Missions
    /\ \A m \in ToSet(builds) :
        m \in Missions /\ Stated(m) /\ m \in ToSet(decisions["intake"]) \cap Remembered
    /\ ToSet(project) \subseteq ToSet(builds)
    /\ \A m \in ToSet(history) : Stated(m) => m \in ToSet(builds)

Inv ==
    /\ QueueTyped /\ StoresTyped /\ Queue /\ Behind /\ Written
    /\ OneOrderEverywhere /\ LostOnlyByDaemon

-----------------------------------------------------------------------------
(* The lifecycle completes exactly the missions that say something.        *)
LEMMA StatedCompletes ==
    /\ ExecuteMission("stated").status = "COMPLETED" /\ ExecuteMission("stated").stored
    /\ ExecuteMission("blank").status = "FAILED" /\ ~ExecuteMission("blank").stored
<1>1. Verified(Decompose("stated"), Execute(Decompose("stated")))
  <2> DEFINE tasks == Decompose("stated")
  <2>1. tasks = [i \in 1 .. 3 |-> [task |-> <<"Analyze", "Implement", "Test">>[i],
                                   executed |-> FALSE]]
    BY DEF Decompose
  <2>2. Execute(tasks) = [i \in 1 .. 3 |-> [tasks[i] EXCEPT !.executed = TRUE]]
    BY <2>1 DEF Execute
  <2>3. \A i \in 1 .. 3 : Execute(tasks)[i].executed
    BY <2>1, <2>2
  <2>4. Len(tasks) = 3 /\ Len(Execute(tasks)) = 3
    BY <2>1, <2>2
  <2> QED  BY <2>2, <2>3, <2>4 DEF Verified
<1> QED  BY <1>1 DEF ExecuteMission, Approved

(* Short sequences of stages.                                              *)
LEMMA OneStage ==
    ASSUME NEW a
    PROVE  <<a>> # <<>> /\ Head(<<a>>) = a /\ Tail(<<a>>) = <<>>
OBVIOUS

LEMMA TwoStages ==
    ASSUME NEW a, NEW b
    PROVE  /\ <<a>> \o <<b>> = <<a, b>> /\ <<a, b>> # <<>>
           /\ Head(<<a, b>>) = a /\ Tail(<<a, b>>) = <<b>>
<1> PICK S : a \in S /\ b \in S
  <2> WITNESS {a, b}
  <2> QED  OBVIOUS
<1>1. <<a>> \in Seq(S) /\ <<b>> \in Seq(S) /\ <<a, b>> \in Seq(S)
      /\ Len(<<b>>) = 1 /\ Len(<<a, b>>) = 2 /\ <<a, b>> # <<>> /\ Head(<<a, b>>) = a
  OBVIOUS
<1>2. /\ Tail(<<a, b>>) \in Seq(S) /\ Len(Tail(<<a, b>>)) = 1
      /\ \A i \in 1 .. 1 : Tail(<<a, b>>)[i] = <<a, b>>[i + 1]
  BY <1>1, HeadTailProperties
<1>3. \A i \in 1 .. 1 : Tail(<<a, b>>)[i] = <<b>>[i]
  BY <1>2
<1>4. Tail(<<a, b>>) = <<b>>
  BY <1>1, <1>2, <1>3, SeqEqual
<1>5. /\ <<a>> \o <<b>> \in Seq(S) /\ Len(<<a>> \o <<b>>) = 2
      /\ \A i \in 1 .. 2 : (<<a>> \o <<b>>)[i] =
                              IF i <= Len(<<a>>) THEN <<a>>[i] ELSE <<b>>[i - Len(<<a>>)]
  BY <1>1, ConcatProperties
<1>6. \A i \in 1 .. 2 : (<<a>> \o <<b>>)[i] = <<a, b>>[i]
  BY <1>5
<1> QED  BY <1>1, <1>4, <1>5, <1>6, SeqEqual

LEMMA ThreeStages ==
    ASSUME NEW a, NEW b, NEW c
    PROVE  /\ <<a>> \o <<b, c>> = <<a, b, c>> /\ <<a, b, c>> # <<>>
           /\ Head(<<a, b, c>>) = a /\ Tail(<<a, b, c>>) = <<b, c>>
<1> PICK S : a \in S /\ b \in S /\ c \in S
  <2> WITNESS {a, b, c}
  <2> QED  OBVIOUS
<1>1. <<a>> \in Seq(S) /\ <<b, c>> \in Seq(S) /\ <<a, b, c>> \in Seq(S)
      /\ Len(<<b, c>>) = 2 /\ Len(<<a, b, c>>) = 3 /\ <<a, b, c>> # <<>>
      /\ Head(<<a, b, c>>) = a
  OBVIOUS
<1>2. /\ Tail(<<a, b, c>>) \in Seq(S) /\ Len(Tail(<<a, b, c>>)) = 2
      /\ \A i \in 1 .. 2 : Tail(<<a, b, c>>)[i] = <<a, b, c>>[i + 1]
  BY <1>1, HeadTailProperties
<1>3. \A i \in 1 .. 2 : Tail(<<a, b, c>>)[i] = <<b, c>>[i]
  BY <1>2
<1>4. Tail(<<a, b, c>>) = <<b, c>>
  BY <1>1, <1>2, <1>3, SeqEqual
<1>5. /\ <<a>> \o <<b, c>> \in Seq(S) /\ Len(<<a>> \o <<b, c>>) = 3
      /\ \A i \in 1 .. 3 : (<<a>> \o <<b, c>>)[i] =
                              IF i <= Len(<<a>>) THEN <<a>>[i] ELSE <<b, c>>[i - Len(<<a>>)]
  BY <1>1, ConcatProperties
<1>6. \A i \in 1 .. 3 : (<<a>> \o <<b, c>>)[i] = <<a, b, c>>[i]
  BY <1>5
<1> QED  BY <1>1, <1>4, <1>5, <1>6, SeqEqual

(* The paths, stage by stage.                                              *)
PathOK(d, p) ==
    /\ p \in Paths(d) /\ p # <<>>
    /\ Head(p) \in {"runtime", "assistant", "self", "core", "orchestrator", "platform"}
    /\ Tail(p) # <<>> => Tail(p) \in Paths(d)
    /\ Head(p) = "runtime" =>
          /\ Tail(p) # <<>> /\ Head(Tail(p)) \notin {"runtime", "self"}
          /\ Head(Tail(p)) = "assistant" <=> Owner(d) = "assistant"
    /\ Head(p) = "assistant" =>
          /\ Owner(d) = "assistant" /\ (Tail(p) # <<>> <=> d = "self")
          /\ Tail(p) # <<>> => Tail(p) = <<"self">>
    /\ Head(p) = "self" => d = "self" /\ Tail(p) = <<>>
    /\ Head(p) \in {"core", "orchestrator", "platform"} =>
          /\ Owner(d) # "assistant"
          /\ Tail(p) # <<>> => Head(Tail(p)) = "platform"
    /\ p = <<"self">> => Head(p) = "self"

LEMMA PathSteps == ASSUME NEW d \in Doors, NEW p \in Paths(d) PROVE PathOK(d, p)
<1>1. CASE d = "self"
  <2>1. Paths(d) = {<<"runtime", "assistant", "self">>, <<"assistant", "self">>, <<"self">>}
    BY <1>1 DEF Paths
  <2>2. CASE p = <<"runtime", "assistant", "self">>
    <3>1. /\ p # <<>> /\ Head(p) = "runtime" /\ Tail(p) = <<"assistant", "self">>
          /\ Head(Tail(p)) = "assistant" /\ Tail(p) # <<>>
      BY <2>2, OneStage, ThreeStages, TwoStages
    <3>2. p # <<"self">>
      BY <3>1, OneStage
    <3> QED  BY <1>1, <2>1, <3>1, <3>2 DEF PathOK, Owner
  <2>3. CASE p = <<"assistant", "self">>
    <3>1. /\ p # <<>> /\ Head(p) = "assistant" /\ Tail(p) = <<"self">>
          /\ Head(Tail(p)) = "self" /\ Tail(p) # <<>>
      BY <2>3, OneStage, TwoStages
    <3>2. p # <<"self">>
      BY <3>1, OneStage
    <3> QED  BY <1>1, <2>1, <3>1, <3>2 DEF PathOK, Owner
  <2>4. CASE p = <<"self">>
    <3>1. p # <<>> /\ Head(p) = "self" /\ Tail(p) = <<>>
      BY <2>4, OneStage
    <3> QED  BY <1>1, <2>1, <3>1 DEF PathOK, Owner
  <2> QED  BY <2>1, <2>2, <2>3, <2>4
<1>2. CASE d = "assistant"
  <2>1. Paths(d) = {<<"runtime", "assistant">>, <<"assistant">>}
    BY <1>2 DEF Paths
  <2>2. CASE p = <<"runtime", "assistant">>
    <3>1. /\ p # <<>> /\ Head(p) = "runtime" /\ Tail(p) = <<"assistant">>
          /\ Head(Tail(p)) = "assistant" /\ Tail(p) # <<>>
      BY <2>2, OneStage, TwoStages
    <3>2. p # <<"self">>
      BY <3>1, OneStage
    <3> QED  BY <1>2, <2>1, <3>1, <3>2 DEF PathOK, Owner
  <2>3. CASE p = <<"assistant">>
    <3>1. p # <<>> /\ Head(p) = "assistant" /\ Tail(p) = <<>>
      BY <2>3, OneStage
    <3>2. p # <<"self">>
      BY <3>1, OneStage
    <3> QED  BY <1>2, <2>1, <3>1, <3>2 DEF PathOK, Owner
  <2> QED  BY <2>1, <2>2, <2>3
<1>3. CASE d = "core"
  <2>1. Paths(d) = {<<"runtime", "core">>, <<"core">>}
    BY <1>3 DEF Paths
  <2>2. CASE p = <<"runtime", "core">>
    <3>1. /\ p # <<>> /\ Head(p) = "runtime" /\ Tail(p) = <<"core">>
          /\ Head(Tail(p)) = "core" /\ Tail(p) # <<>>
      BY <2>2, OneStage, TwoStages
    <3>2. p # <<"self">>
      BY <3>1, OneStage
    <3> QED  BY <1>3, <2>1, <3>1, <3>2 DEF PathOK, Owner
  <2>3. CASE p = <<"core">>
    <3>1. p # <<>> /\ Head(p) = "core" /\ Tail(p) = <<>>
      BY <2>3, OneStage
    <3>2. p # <<"self">>
      BY <3>1, OneStage
    <3> QED  BY <1>3, <2>1, <3>1, <3>2 DEF PathOK, Owner
  <2> QED  BY <2>1, <2>2, <2>3
<1>4. CASE d = "platform"
  <2>1. Paths(d) = {<<"runtime", "orchestrator", "platform">>,
                   <<"orchestrator", "platform">>, <<"platform">>}
    BY <1>4 DEF Paths
  <2>2. CASE p = <<"runtime", "orchestrator", "platform">>
    <3>1. /\ p # <<>> /\ Head(p) = "runtime" /\ Tail(p) = <<"orchestrator", "platform">>
          /\ Head(Tail(p)) = "orchestrator" /\ Tail(p) # <<>>
      BY <2>2, OneStage, ThreeStages, TwoStages
    <3>2. p # <<"self">>
      BY <3>1, OneStage
    <3> QED  BY <1>4, <2>1, <3>1, <3>2 DEF PathOK, Owner
  <2>3. CASE p = <<"orchestrator", "platform">>
    <3>1. /\ p # <<>> /\ Head(p) = "orchestrator" /\ Tail(p) = <<"platform">>
          /\ Head(Tail(p)) = "platform" /\ Tail(p) # <<>>
      BY <2>3, OneStage, TwoStages
    <3>2. p # <<"self">>
      BY <3>1, OneStage
    <3> QED  BY <1>4, <2>1, <3>1, <3>2 DEF PathOK, Owner
  <2>4. CASE p = <<"platform">>
    <3>1. p # <<>> /\ Head(p) = "platform" /\ Tail(p) = <<>>
      BY <2>4, OneStage
    <3>2. p # <<"self">>
      BY <3>1, OneStage
    <3> QED  BY <1>4, <2>1, <3>1, <3>2 DEF PathOK, Owner
  <2> QED  BY <2>1, <2>2, <2>3, <2>4
<1> QED  BY <1>1, <1>2, <1>3, <1>4 DEF Doors

LEMMA FirstPath ==
    ASSUME NEW d \in Doors
    PROVE  /\ <<"runtime">> \o Continuations(d) \in Paths(d)
           /\ Head(<<"runtime">> \o Continuations(d)) = "runtime"
<1>1. CASE d = "self"
  <2>1. /\ <<"runtime">> \o <<"assistant", "self">> = <<"runtime", "assistant", "self">>
        /\ Head(<<"runtime", "assistant", "self">>) = "runtime"
    BY ThreeStages
  <2> QED  BY <1>1, <2>1 DEF Paths, Continuations
<1>2. CASE d = "assistant"
  <2>1. /\ <<"runtime">> \o <<"assistant">> = <<"runtime", "assistant">>
        /\ Head(<<"runtime", "assistant">>) = "runtime"
    BY TwoStages
  <2> QED  BY <1>2, <2>1 DEF Paths, Continuations
<1>3. CASE d = "core"
  <2>1. /\ <<"runtime">> \o <<"core">> = <<"runtime", "core">>
        /\ Head(<<"runtime", "core">>) = "runtime"
    BY TwoStages
  <2> QED  BY <1>3, <2>1 DEF Paths, Continuations
<1>4. CASE d = "platform"
  <2>1. /\ <<"runtime">> \o <<"orchestrator", "platform">> =
                <<"runtime", "orchestrator", "platform">>
        /\ Head(<<"runtime", "orchestrator", "platform">>) = "runtime"
    BY ThreeStages
  <2> QED  BY <1>4, <2>1 DEF Paths, Continuations
<1> QED  BY <1>1, <1>2, <1>3, <1>4 DEF Doors

LEMMA OwnersAre ==
    /\ Owners = {"assistant", "core", "platform"} /\ "intake" \notin Owners
    /\ \A d \in Doors : Owner(d) \in Owners
    /\ \A d \in Doors : Owner(d) = "assistant" <=> d \in {"self", "assistant"}
BY DEF Owners, Owner, Doors

(* Stores.                                                                 *)
LEMMA AppendedTo ==
    ASSUME NEW s \in Seq(Nat), NEW x \in Nat
    PROVE  /\ Append(s, x) \in Seq(Nat) /\ ToSet(Append(s, x)) = ToSet(s) \cup {x}
           /\ InCallOrder(s) /\ (\A y \in ToSet(s) : y < x) => InCallOrder(Append(s, x))
<1>1. /\ Append(s, x) \in Seq(Nat) /\ DOMAIN Append(s, x) = DOMAIN s \cup {Len(s) + 1}
      /\ Append(s, x)[Len(s) + 1] = x
      /\ \A i \in DOMAIN s : Append(s, x)[i] = s[i]
      /\ \A i \in DOMAIN s : i \in Nat /\ i < Len(s) + 1
  OBVIOUS
<1>2. ToSet(Append(s, x)) = ToSet(s) \cup {x}
  BY <1>1 DEF ToSet
<1>3. ASSUME InCallOrder(s), \A y \in ToSet(s) : y < x
      PROVE  InCallOrder(Append(s, x))
  <2>1. \A i \in DOMAIN s : s[i] < x
    BY <1>3 DEF ToSet
  <2> QED  BY <1>1, <1>3, <2>1 DEF InCallOrder
<1> QED  BY <1>1, <1>2, <1>3

-----------------------------------------------------------------------------
(* A call.                                                                 *)
Blank(door, goal) == Owner(door) = "assistant" /\ goal = "blank"

QueuedAtMost(m, door, goal) ==
    \/ jobs' = jobs
    \/ \E j \in JobSet :
          /\ jobs' = Append(jobs, j) /\ j.mission = m
          /\ j.steps \in Paths(door) /\ outcome'[m] = "pending"
          /\ IF Blank(door, goal) THEN j.steps = <<"self">> ELSE Head(j.steps) = "runtime"

LEMMA Beginning ==
    ASSUME QueueTyped, NEW door \in Doors, NEW goal \in Goals, BeginMission(door, goal),
           NEW m, m = Len(calls) + 1
    PROVE  /\ m \in Nat /\ m \notin Missions /\ Missions' = Missions \cup {m}
           /\ \A x \in Missions : x \in Nat /\ x < m
           /\ \A x \in Missions : calls'[x] = calls[x] /\ outcome'[x] = outcome[x]
           /\ calls'[m] = [door |-> door, goal |-> goal]
           /\ ~Blank(door, goal) => outcome'[m] = "pending"
           /\ QueuedAtMost(m, door, goal)
           /\ QueueTyped'
<1> DEFINE blank  == Blank(door, goal)
           turned == Owner(door) = "assistant" /\ ExecuteMission(goal).status # "COMPLETED"
           first == Job(m, <<"self">>, FALSE)
           run   == Job(m, <<"runtime">> \o Continuations(door), FALSE)
<1>1. /\ calls \in Seq([door : Doors, goal : Goals]) /\ jobs \in Seq(JobSet)
      /\ outcome \in Seq({"pending", "fulfilled", "rejected"}) /\ Len(outcome) = Len(calls)
      /\ m \in Nat
  BY DEF QueueTyped
<1>2. turned <=> blank
  BY StatedCompletes DEF Goals, Blank
<1>3. calls' = Append(calls, [door |-> door, goal |-> goal])
  BY DEF BeginMission
<1>4. /\ m \notin Missions /\ Missions' = Missions \cup {m}
      /\ \A x \in Missions : x \in Nat /\ x < m /\ calls'[x] = calls[x]
      /\ calls'[m] = [door |-> door, goal |-> goal] /\ Len(calls') = m
      /\ calls' \in Seq([door : Doors, goal : Goals])
  BY <1>1, <1>3 DEF Missions
<1>5. PICK v \in {"pending", "fulfilled"} :
          /\ outcome' = Append(outcome, v)
          /\ ~blank => v = "pending"
          /\ \/ jobs' = jobs
             \/ blank /\ door = "self" /\ jobs' = Append(jobs, first) /\ v = "pending"
             \/ ~blank /\ jobs' = Append(jobs, run) /\ v = "pending"
  BY <1>2 DEF BeginMission, Enqueue
<1>6. /\ outcome'[m] = v /\ \A x \in Missions : outcome'[x] = outcome[x]
      /\ outcome' \in Seq({"pending", "fulfilled", "rejected"}) /\ Len(outcome') = m
  <2>1. outcome' = Append(outcome, v) /\ m = Len(outcome) + 1 /\ Missions = DOMAIN outcome
    BY <1>1, <1>5 DEF Missions
  <2>2. v \in {"pending", "fulfilled", "rejected"}
    OBVIOUS
  <2> HIDE DEF first, run
  <2>3. outcome' \in Seq({"pending", "fulfilled", "rejected"})
    BY <1>1, <2>1, <2>2
  <2>4. outcome'[m] = v /\ Len(outcome') = m /\ \A x \in DOMAIN outcome : outcome'[x] = outcome[x]
    BY <1>1, <2>1, <2>2
  <2> QED  BY <2>1, <2>3, <2>4
<1>7. run \in JobSet /\ run.mission = m /\ run.steps \in Paths(door)
      /\ Head(run.steps) = "runtime"
  BY <1>1, FirstPath, PathSteps DEF JobSet, Job, AllPaths
<1>8. door = "self" => first \in JobSet /\ first.mission = m /\ first.steps \in Paths(door)
                       /\ first.steps = <<"self">>
  BY <1>1 DEF JobSet, Job, AllPaths, Paths
<1>9. QueuedAtMost(m, door, goal)
  BY <1>5, <1>6, <1>7, <1>8 DEF QueuedAtMost
<1>10. jobs' \in Seq(JobSet)
  <2>1. CASE jobs' = jobs
    BY <1>1, <2>1
  <2>2. CASE \E j \in JobSet : jobs' = Append(jobs, j)
    BY <1>1, <2>2
  <2> QED  BY <1>9, <2>1, <2>2 DEF QueuedAtMost
<1>11. QueueTyped'
  BY <1>4, <1>6, <1>10 DEF QueueTyped
<1>12. ~Blank(door, goal) => outcome'[m] = "pending"
  <2>1. ~blank => v = "pending"
    BY <1>5
  <2> QED  BY <1>6, <2>1 DEF Blank
<1> QED  BY <1>1, <1>4, <1>6, <1>9, <1>11, <1>12

LEMMA CallKeepsInv ==
    ASSUME Inv, NEW door \in Doors, NEW goal \in Goals, BeginMission(door, goal),
           IF Owner(door) = "assistant" THEN TakeGoal(goal) ELSE UNCHANGED <<goals, decisions>>,
           UNCHANGED <<memory, knowledge, project, history, builds>>
    PROVE  Inv'
<1> USE DEF Inv
<1> PICK m : m = Len(calls) + 1
  OBVIOUS
<1> DEFINE ours  == Owner(door) = "assistant"
           blank == ours /\ goal = "blank"
<1> USE DEF Blank
<1>1. /\ m \in Nat /\ m \notin Missions /\ Missions' = Missions \cup {m}
      /\ \A x \in Missions : x \in Nat /\ x < m
      /\ \A x \in Missions : calls'[x] = calls[x] /\ outcome'[x] = outcome[x]
      /\ calls'[m] = [door |-> door, goal |-> goal]
      /\ ~blank => outcome'[m] = "pending"
      /\ QueueTyped'
  BY Beginning
<1>2. QueuedAtMost(m, door, goal)
  BY Beginning
<1>3. /\ \A x \in Missions : (Stated(x)' <=> Stated(x)) /\ (Ours(x)' <=> Ours(x))
      /\ \A x \in Missions : Door(x)' = Door(x)
      /\ Door(m)' = door /\ (Stated(m)' <=> goal = "stated") /\ (Ours(m)' <=> ours)
  BY <1>1 DEF Stated, Ours, Goal, Door
<1>4. /\ goals' = IF ours THEN Append(goals, m) ELSE goals
      /\ decisions' = IF ours /\ goal = "stated"
                      THEN [decisions EXCEPT !["intake"] = Append(@, m)] ELSE decisions
  BY StatedCompletes DEF TakeGoal, CreateGoal, StoreDecision, Goals
<1>5. goals \in Seq(Nat) /\ decisions["intake"] \in Seq(Nat)
  BY DEF StoresTyped
<1>6. /\ \A o \in Owners : decisions'[o] = decisions[o]
      /\ decisions'["intake"] = IF ours /\ goal = "stated" THEN Append(decisions["intake"], m)
                                ELSE decisions["intake"]
      /\ decisions' \in [Owners \cup {"intake"} -> Seq(Nat)]
  <2>1. Append(decisions["intake"], m) \in Seq(Nat)
    BY <1>1, <1>5
  <2> QED  BY <1>4, <2>1, OwnersAre DEF StoresTyped
<1>7. /\ ToSet(goals) \subseteq ToSet(goals') /\ ToSet(goals') \subseteq ToSet(goals) \cup {m}
      /\ ToSet(decisions["intake"]) \subseteq ToSet(decisions'["intake"])
      /\ ToSet(decisions'["intake"]) \subseteq ToSet(decisions["intake"]) \cup {m}
      /\ ours /\ goal = "stated" => m \in ToSet(decisions'["intake"])
  BY <1>1, <1>4, <1>5, <1>6, AppendedTo
<1>8. StoresTyped'
  <2>1. goals' \in Seq(Nat)
    BY <1>1, <1>4, <1>5
  <2> QED  BY <1>6, <2>1 DEF StoresTyped
<1>9. Remembered' = Remembered
  BY <1>6, OwnersAre DEF Remembered
<1>10. ASSUME NEW j, Ready(j) PROVE Ready(j)'
  BY <1>1, <1>3, <1>7, <1>9, <1>10 DEF Ready
<1>11. /\ \A i \in DOMAIN jobs : /\ i \in DOMAIN jobs' /\ jobs'[i] = jobs[i]
                                 /\ jobs[i].mission \in Missions
       /\ \A i \in DOMAIN jobs' \ DOMAIN jobs :
             /\ i = Len(jobs) + 1 /\ jobs'[i].mission = m /\ jobs'[i].steps \in Paths(door)
             /\ outcome'[m] = "pending"
             /\ IF blank THEN jobs'[i].steps = <<"self">> ELSE Head(jobs'[i].steps) = "runtime"
       /\ \A i \in DOMAIN jobs : i \in Nat /\ i < Len(jobs) + 1
  <2>1. jobs \in Seq(JobSet) /\ \A i \in DOMAIN jobs : jobs[i].mission \in Missions
    BY DEF QueueTyped, Queue, Ready
  <2> QED  BY <1>2, <2>1 DEF QueuedAtMost
<1>12. \A i \in DOMAIN jobs : \A stage : Waits(i, stage)' <=> Waits(i, stage)
  BY <1>3, <1>11 DEF Waits, StepOf
<1>13. \A i \in DOMAIN jobs' \ DOMAIN jobs : \A stage \in {"runtime", "assistant", "self"} :
           Waits(i, stage)' => stage = "runtime" /\ ~blank
  <2> SUFFICES ASSUME NEW i \in DOMAIN jobs' \ DOMAIN jobs,
                      NEW stage \in {"runtime", "assistant", "self"}, Waits(i, stage)'
               PROVE  stage = "runtime" /\ ~blank
    OBVIOUS
  <2>1. Head(jobs'[i].steps) = stage /\ (stage = "self" => goal = "stated")
    BY <1>3, <1>11 DEF Waits, StepOf
  <2>2. CASE blank
    <3>1. Head(jobs'[i].steps) = "self"
      BY <1>11, <2>2, OneStage
    <3> QED  BY <2>1, <2>2, <3>1
  <2>3. CASE ~blank
    BY <1>11, <2>1, <2>3
  <2> QED  BY <2>2, <2>3
<1>14. Queue'
  <2>1. ASSUME NEW i \in DOMAIN jobs' PROVE Ready(jobs[i])'
    <3> PICK j : j = jobs'[i]
      OBVIOUS
    <3>1. CASE i \in DOMAIN jobs
      <4>1. Ready(j)
        BY <1>11, <3>1 DEF Queue
      <4>2. Ready(j)'
        BY <1>10, <4>1
      <4> QED  BY <4>2 DEF Ready
    <3>2. CASE i \notin DOMAIN jobs
      <4>1. /\ j.mission = m /\ j.steps \in Paths(door) /\ outcome'[m] = "pending"
            /\ IF blank THEN j.steps = <<"self">> ELSE Head(j.steps) = "runtime"
        BY <1>11, <2>1, <3>2
      <4>2. Head(j.steps) = IF blank THEN "self" ELSE "runtime"
        BY <4>1, OneStage
      <4>3. goal \in {"stated", "blank"}
        BY DEF Goals
      <4>4. Ready(j)'
        BY <1>1, <1>3, <1>7, <4>1, <4>2, <4>3 DEF Ready
      <4> QED  BY <4>4 DEF Ready
    <3> QED  BY <3>1, <3>2
  <2>2. ASSUME NEW i \in DOMAIN jobs', NEW j \in DOMAIN jobs', i < j
        PROVE  jobs'[i].mission # jobs'[j].mission
    BY <1>1, <1>11, <2>2 DEF Queue
  <2>3. ASSUME NEW stage \in {"runtime", "assistant", "self"},
               NEW i \in DOMAIN jobs', NEW j \in DOMAIN jobs', i < j,
               Waits(i, stage)', Waits(j, stage)'
        PROVE  jobs'[i].mission < jobs'[j].mission
    <3>1. i \in DOMAIN jobs
      BY <1>11, <2>3
    <3>2. CASE j \in DOMAIN jobs
      BY <1>11, <1>12, <2>3, <3>1, <3>2 DEF Queue
    <3>3. CASE j \notin DOMAIN jobs
      BY <1>1, <1>11, <3>1, <3>3
    <3> QED  BY <3>2, <3>3
  <2> QED  BY <2>1, <2>2, <2>3 DEF Queue
<1>15. Behind'
  <2> SUFFICES ASSUME NEW i \in DOMAIN jobs'
               PROVE  /\ Waits(i, "runtime")' =>
                           \A o \in Owners :
                             \A x \in ToSet(memory[o]) \cup ToSet(knowledge[o])
                                        \cup ToSet(decisions[o]) : x < jobs'[i].mission
                      /\ Waits(i, "assistant")' => \A x \in ToSet(builds) : x < jobs'[i].mission
                      /\ Waits(i, "self")' =>
                           \A x \in ToSet(history) : Stated(x)' => x < jobs'[i].mission
    BY <1>6 DEF Behind
  <2>1. CASE i \in DOMAIN jobs
    <3>1. jobs'[i] = jobs[i]
      BY <1>11, <2>1
    <3>2. \A x \in ToSet(history) : Stated(x)' <=> Stated(x)
      BY <1>3 DEF Written
    <3> QED  BY <1>12, <2>1, <3>1, <3>2 DEF Behind
  <2>2. CASE i \notin DOMAIN jobs
    <3>1. ~Waits(i, "assistant")' /\ ~Waits(i, "self")' /\ jobs'[i].mission = m
      BY <1>11, <1>13, <2>2
    <3> QED  BY <1>1, <3>1 DEF Written
  <2> QED  BY <2>1, <2>2
<1>16. Written'
  <2>1. ToSet(goals') \subseteq Missions' /\ ToSet(history') \subseteq Missions'
        /\ ToSet(decisions'["intake"]) \subseteq Missions'
    BY <1>1, <1>7 DEF Written
  <2>2. \A o \in Owners :
            ToSet(memory'[o]) \cup ToSet(knowledge'[o]) \cup ToSet(decisions'[o]) \subseteq Missions'
    BY <1>1, <1>6 DEF Written
  <2>3. \A x \in ToSet(builds') :
            x \in Missions' /\ Stated(x)' /\ x \in ToSet(decisions'["intake"]) \cap Remembered'
    BY <1>1, <1>3, <1>7, <1>9 DEF Written
  <2>4. \A x \in ToSet(history') : Stated(x)' => x \in ToSet(builds')
    BY <1>3 DEF Written
  <2> QED  BY <2>1, <2>2, <2>3, <2>4 DEF Written
<1>17. OneOrderEverywhere'
  <2>1. InCallOrder(goals') /\ InCallOrder(decisions'["intake"])
    <3>1. InCallOrder(goals) /\ InCallOrder(decisions["intake"])
      BY DEF OneOrderEverywhere, StoresTyped
    <3>2. \A x \in ToSet(goals) \cup ToSet(decisions["intake"]) : x < m
      BY <1>1 DEF Written
    <3> QED  BY <1>1, <1>4, <1>5, <1>6, <3>1, <3>2, AppendedTo
  <2>2. \A c \in DOMAIN decisions' : InCallOrder(decisions'[c])
    BY <1>6, <2>1 DEF OneOrderEverywhere, StoresTyped
  <2>3. \A i \in DOMAIN history : history[i] \in Missions
    BY DEF Written, ToSet
  <2>4. \A i, j \in DOMAIN history' :
            i < j /\ Stated(history[i])' /\ Stated(history[j])' => history'[i] < history'[j]
    BY <1>3, <2>3 DEF OneOrderEverywhere, Stated
  <2> QED  BY <2>1, <2>2, <2>4 DEF OneOrderEverywhere, InCallOrder
<1>18. LostOnlyByDaemon'
  <2> SUFFICES ASSUME NEW x \in Missions', Ours(x)', Stated(x)', outcome'[x] # "pending"
               PROVE  /\ x \in ToSet(knowledge["assistant"]) \cap ToSet(builds)
                      /\ x \in ToSet(project) <=> outcome'[x] = "fulfilled"
                      /\ Door(x)' = "self" =>
                           (x \in ToSet(history) <=> outcome'[x] = "fulfilled")
    BY DEF LostOnlyByDaemon, Ours
  <2>1. x # m
    BY <1>1, <1>3
  <2>2. x \in Missions
    BY <1>1, <2>1
  <2> QED  BY <1>1, <1>3, <2>2 DEF LostOnlyByDaemon, Ours
<1> QED  BY <1>1, <1>8, <1>14, <1>15, <1>16, <1>17, <1>18
-----------------------------------------------------------------------------
(* A job.                                                                  *)

(* The store has the old missions, and at most the current one in addition *)
(* when the queue serves the stage that writes the store.                  *)
Grows(old, new, stage) ==
    /\ old \subseteq new
    /\ new \subseteq old \cup (IF StepOf(1) = stage THEN {Current} ELSE {})

Served(rejected) ==
    /\ jobs # <<>> /\ Resume(Current, Rest, rejected)
    /\ UNCHANGED <<calls, goals>> /\ decisions'["intake"] = decisions["intake"]
    /\ \A o \in Owners : /\ Grows(ToSet(memory[o]), ToSet(memory'[o]), "runtime")
                         /\ Grows(ToSet(knowledge[o]), ToSet(knowledge'[o]), "runtime")
                         /\ Grows(ToSet(decisions[o]), ToSet(decisions'[o]), "runtime")
    /\ Grows(ToSet(builds), ToSet(builds'), "assistant")
    /\ Grows(ToSet(project), ToSet(project'), "assistant")
    /\ Grows(ToSet(history), ToSet(history'), "self")

LEMMA Members == ASSUME NEW S, NEW s \in Seq(S), NEW i \in DOMAIN s PROVE s[i] \in S
OBVIOUS

LEMMA FirstJob ==
    ASSUME QueueTyped, Queue, jobs # <<>>
    PROVE  /\ 1 \in DOMAIN jobs /\ jobs[1] = Head(jobs) /\ jobs[1] \in JobSet
           /\ jobs[1].mission = Current /\ Tail(jobs[1].steps) = Rest
           /\ Current \in Missions /\ outcome[Current] = "pending" /\ Ready(jobs[1])
           /\ Door(Current) \in Doors /\ Goal(Current) \in Goals
           /\ PathOK(Door(Current), jobs[1].steps)
<1>1. jobs \in Seq(JobSet) /\ 1 \in DOMAIN jobs /\ jobs[1] = Head(jobs) /\ jobs[1] \in JobSet
  BY DEF QueueTyped
<1>2. Ready(jobs[1])
  BY <1>1 DEF Queue
<1>3. Current \in Missions /\ outcome[Current] = "pending" /\ jobs[1].steps \in Paths(Door(Current))
  BY <1>1, <1>2 DEF Ready, Current
<1>4. Door(Current) \in Doors /\ Goal(Current) \in Goals
  <2>1. calls \in Seq([door : Doors, goal : Goals]) /\ Current \in DOMAIN calls
    BY <1>3 DEF QueueTyped, Missions
  <2>2. calls[Current] \in [door : Doors, goal : Goals]
    BY <2>1, Members
  <2> QED  BY <2>2 DEF Door, Goal
<1> QED  BY <1>1, <1>2, <1>3, <1>4, PathSteps DEF Current, Rest

LEMMA Shift ==
    ASSUME QueueTyped, Queue, jobs # <<>>, NEW rejected \in BOOLEAN,
           Resume(Current, Rest, rejected), UNCHANGED calls
    PROVE  /\ QueueTyped'
           /\ \A x \in Missions \ {Current} : outcome'[x] = outcome[x]
           /\ outcome'[Current] = IF Rest = <<>>
                                  THEN IF rejected THEN "rejected" ELSE "fulfilled"
                                  ELSE "pending"
           /\ \A i \in DOMAIN jobs' :
                \/ i + 1 \in DOMAIN jobs /\ jobs'[i] = jobs[i + 1]
                \/ i = Len(jobs) /\ Rest # <<>> /\ jobs'[i] = Job(Current, Rest, rejected)
<1>1. /\ jobs \in Seq(JobSet) /\ Current \in Missions /\ Current \in Nat
      /\ outcome[Current] = "pending"
      /\ Rest # <<>> => Rest \in AllPaths
      /\ outcome \in Seq({"pending", "fulfilled", "rejected"}) /\ Missions = DOMAIN outcome
  <2>1. /\ jobs \in Seq(JobSet) /\ calls \in Seq([door : Doors, goal : Goals])
        /\ outcome \in Seq({"pending", "fulfilled", "rejected"}) /\ Len(outcome) = Len(calls)
    BY DEF QueueTyped
  <2>2. Missions = DOMAIN outcome /\ Missions \subseteq Nat
    BY <2>1 DEF Missions
  <2>3. Rest # <<>> => Rest \in AllPaths
    BY FirstJob DEF PathOK, AllPaths
  <2> QED  BY <2>1, <2>2, <2>3, FirstJob
<1>2. /\ Tail(jobs) \in Seq(JobSet) /\ Len(Tail(jobs)) = Len(jobs) - 1
      /\ \A i \in 1 .. Len(Tail(jobs)) : Tail(jobs)[i] = jobs[i + 1]
  BY <1>1, HeadTailProperties
<1>3. CASE Rest = <<>>
  <2>1. jobs' = Tail(jobs) /\ outcome' = Settle(outcome, Current, rejected)
    BY <1>3 DEF Resume
  <2>2. /\ outcome' \in Seq({"pending", "fulfilled", "rejected"}) /\ Len(outcome') = Len(outcome)
        /\ outcome'[Current] = IF rejected THEN "rejected" ELSE "fulfilled"
        /\ \A x \in Missions \ {Current} : outcome'[x] = outcome[x]
    BY <1>1, <2>1 DEF Settle
  <2>3. QueueTyped'
    BY <1>2, <2>1, <2>2 DEF QueueTyped
  <2>4. \A i \in DOMAIN jobs' : i + 1 \in DOMAIN jobs /\ jobs'[i] = jobs[i + 1]
    BY <1>1, <1>2, <2>1
  <2> QED  BY <1>3, <2>2, <2>3, <2>4
<1>4. CASE Rest # <<>>
  <2> PICK j : j = Job(Current, Rest, rejected)
    OBVIOUS
  <2>1. jobs' = Append(Tail(jobs), j) /\ outcome' = outcome
    BY <1>4 DEF Resume, Enqueue
  <2>2. j \in JobSet
    BY <1>1, <1>4 DEF Job, JobSet
  <2>3. QueueTyped'
    BY <1>2, <2>1, <2>2 DEF QueueTyped
  <2>4. \A i \in DOMAIN jobs' : \/ i + 1 \in DOMAIN jobs /\ jobs'[i] = jobs[i + 1]
                                \/ i = Len(jobs) /\ jobs'[i] = j
    BY <1>1, <1>2, <2>1, <2>2
  <2> QED  BY <1>1, <1>4, <2>1, <2>3, <2>4
<1> QED  BY <1>3, <1>4

(* The queue after a job, when the mission is ready for its next stage.    *)
LEMMA ServedKeepsQueue ==
    ASSUME Inv, NEW rejected \in BOOLEAN, Served(rejected),
           NEW n, n = Job(Current, Rest, rejected), Rest # <<>> => Ready(n)'
    PROVE  QueueTyped' /\ Queue' /\ Behind'
<1> USE DEF Inv
<1> PICK m : m = Current
  OBVIOUS
<1>1. /\ 1 \in DOMAIN jobs /\ jobs[1].mission = m /\ jobs[1] \in JobSet /\ m \in Missions
      /\ PathOK(Door(m), jobs[1].steps) /\ Tail(jobs[1].steps) = Rest /\ Ready(jobs[1])
  BY FirstJob DEF Served
<1>2. /\ QueueTyped' /\ \A x \in Missions \ {m} : outcome'[x] = outcome[x]
      /\ \A i \in DOMAIN jobs' : \/ i + 1 \in DOMAIN jobs /\ jobs'[i] = jobs[i + 1]
                                 \/ i = Len(jobs) /\ Rest # <<>> /\ jobs'[i] = n
  BY Shift DEF Served
<1>3. /\ Missions' = Missions /\ \A x : Door(x)' = Door(x) /\ (Stated(x)' <=> Stated(x))
      /\ \A x : Ours(x)' <=> Ours(x)
  BY DEF Served, Missions, Door, Stated, Goal, Ours
<1>4. /\ \A i \in DOMAIN jobs : i \in Nat /\ 1 <= i /\ i <= Len(jobs)
      /\ \A i \in DOMAIN jobs' : i \in Nat /\ 1 <= i
      /\ \A i \in DOMAIN jobs : jobs[i].mission \in Missions /\ jobs[i].mission \in Nat
  <2>1. jobs \in Seq(JobSet) /\ jobs' \in Seq(JobSet)
    BY <1>2 DEF QueueTyped
  <2>2. \A i \in DOMAIN jobs : jobs[i].mission \in Missions /\ jobs[i].mission \in Nat
    <3>1. \A i \in DOMAIN jobs : jobs[i] \in JobSet
      BY <2>1
    <3> QED  BY <3>1 DEF Queue, Ready, JobSet
  <2> QED  BY <2>1, <2>2
<1>5. n.mission = m /\ n.steps = Rest
  BY DEF Job
<1>6. \A i \in DOMAIN jobs' : \A stage : i + 1 \in DOMAIN jobs /\ jobs'[i] = jobs[i + 1] =>
          (Waits(i, stage)' <=> Waits(i + 1, stage))
  BY <1>3 DEF Waits, StepOf
<1>7. \A i \in DOMAIN jobs' : jobs'[i] = n /\ Rest # <<>> =>
          /\ ~Waits(i, "runtime")'
          /\ Waits(i, "assistant")' => Waits(1, "runtime") /\ Owner(Door(m)) = "assistant"
          /\ Waits(i, "self")' => Waits(1, "assistant") /\ Stated(m)
  <2> SUFFICES ASSUME NEW i \in DOMAIN jobs', jobs'[i] = n, Rest # <<>>
               PROVE  /\ Head(Rest) # "runtime"
                      /\ Head(Rest) = "assistant" =>
                             Waits(1, "runtime") /\ Owner(Door(m)) = "assistant"
                      /\ Head(Rest) = "self" => Waits(1, "assistant")
    BY <1>3, <1>5 DEF Waits, StepOf
  <2>1. Head(<<"self">>) = "self"
    BY OneStage
  <2> QED  BY <1>1, <2>1 DEF PathOK, Waits, StepOf
<1>8. \A i \in DOMAIN jobs : i # 1 => jobs[i].mission # m
  BY <1>1, <1>4 DEF Queue
<1>9. ASSUME NEW i \in DOMAIN jobs, i # 1, NEW j, j = jobs[i] PROVE Ready(j)'
  <2>1. Ready(j) /\ j.mission # m /\ j.mission \in Missions /\ outcome'[j.mission] = outcome[j.mission]
    BY <1>2, <1>4, <1>8, <1>9 DEF Queue
  <2>2. Remembered \subseteq Remembered'
    BY OwnersAre DEF Remembered, Served, Grows
  <2>3. /\ decisions'["intake"] = decisions["intake"] /\ ToSet(builds) \subseteq ToSet(builds')
        /\ j.mission \in ToSet(project) <=> j.mission \in ToSet(project')
    BY <2>1 DEF Served, Grows
  <2> QED  BY <1>3, <2>1, <2>2, <2>3 DEF Ready
<1>10. ASSUME NEW i \in DOMAIN jobs' PROVE Ready(jobs[i])'
  <2> PICK j : j = jobs'[i]
    OBVIOUS
  <2>1. CASE i + 1 \in DOMAIN jobs /\ j = jobs[i + 1]
    BY <1>4, <1>9, <2>1
  <2>2. CASE Rest # <<>> /\ j = n
    BY <2>2
  <2>3. Ready(j)'
    BY <1>2, <2>1, <2>2
  <2> QED  BY <2>3 DEF Ready
<1>11. ASSUME NEW i \in DOMAIN jobs', NEW j \in DOMAIN jobs', i < j
       PROVE  jobs'[i].mission # jobs'[j].mission /\ i + 1 \in DOMAIN jobs /\ jobs'[i] = jobs[i + 1]
  <2>1. i + 1 \in DOMAIN jobs /\ jobs'[i] = jobs[i + 1]
    BY <1>2, <1>4, <1>11
  <2>2. CASE j + 1 \in DOMAIN jobs /\ jobs'[j] = jobs[j + 1]
    BY <1>4, <1>11, <2>1, <2>2 DEF Queue
  <2>3. CASE jobs'[j] = n
    BY <1>4, <1>5, <1>8, <2>1, <2>3
  <2> QED  BY <1>2, <2>1, <2>2, <2>3
<1>12. \A x \in ToSet(builds) : x \in Missions /\ Stated(x) /\ x \in ToSet(memory["assistant"])
  BY DEF Written, Remembered
<1>13. \A i \in DOMAIN jobs : Waits(i, "assistant") => jobs[i].mission \in ToSet(memory["assistant"])
  BY DEF Queue, Ready, Waits, StepOf, Remembered
<1>14. \A i \in DOMAIN jobs : Waits(i, "self") => jobs[i].mission \in ToSet(builds)
  BY DEF Queue, Ready, Waits, StepOf
<1>15. ASSUME NEW i \in DOMAIN jobs', jobs'[i] = n, Rest # <<>>
       PROVE  /\ Waits(i, "assistant")' => \A x \in ToSet(memory["assistant"]) : x < m
              /\ Waits(i, "self")' => \A x \in ToSet(builds) : x < m
  BY <1>1, <1>7, <1>15, OwnersAre DEF Behind
<1>16. ASSUME NEW stage \in {"runtime", "assistant", "self"},
              NEW i \in DOMAIN jobs', NEW j \in DOMAIN jobs', i < j,
              Waits(i, stage)', Waits(j, stage)'
       PROVE  jobs'[i].mission < jobs'[j].mission
  <2>1. i + 1 \in DOMAIN jobs /\ jobs'[i] = jobs[i + 1] /\ Waits(i + 1, stage)
    BY <1>6, <1>11, <1>16
  <2>2. CASE j + 1 \in DOMAIN jobs /\ jobs'[j] = jobs[j + 1]
    <3>1. Waits(j + 1, stage) /\ i + 1 < j + 1
      BY <1>4, <1>6, <1>16, <2>2
    <3> QED  BY <2>1, <2>2, <3>1 DEF Queue
  <2>3. CASE jobs'[j] = n /\ Rest # <<>>
    BY <1>5, <1>7, <1>13, <1>14, <1>15, <1>16, <2>1, <2>3
  <2> QED  BY <1>2, <2>2, <2>3
<1>17. Queue'
  <2>1. \A i, j \in DOMAIN jobs' : i < j => jobs'[i].mission # jobs'[j].mission
    BY <1>11
  <2> QED  BY <1>10, <1>16, <2>1 DEF Queue
<1>18. ASSUME NEW i \in DOMAIN jobs', NEW stage \in {"runtime", "assistant", "self"},
              i + 1 \in DOMAIN jobs, jobs'[i] = jobs[i + 1], Waits(i, stage)', Waits(1, stage)
       PROVE  m < jobs'[i].mission
  <2>1. Waits(i + 1, stage) /\ 1 < i + 1
    BY <1>4, <1>6, <1>18
  <2> QED  BY <1>1, <1>18, <2>1 DEF Queue
<1>19. ASSUME NEW i \in DOMAIN jobs', Waits(i, "runtime")', NEW o \in Owners,
              NEW x \in ToSet(memory'[o]) \cup ToSet(knowledge'[o]) \cup ToSet(decisions'[o])
       PROVE  x < jobs'[i].mission
  <2>1. i + 1 \in DOMAIN jobs /\ jobs'[i] = jobs[i + 1] /\ Waits(i + 1, "runtime")
    BY <1>2, <1>6, <1>7, <1>19
  <2>2. CASE x \in ToSet(memory[o]) \cup ToSet(knowledge[o]) \cup ToSet(decisions[o])
    BY <2>1, <2>2 DEF Behind
  <2>3. CASE x = m /\ StepOf(1) = "runtime"
    BY <1>18, <1>19, <2>1, <2>3 DEF Waits
  <2> QED  BY <1>19, <2>2, <2>3 DEF Served, Grows
<1>20. ASSUME NEW i \in DOMAIN jobs', Waits(i, "assistant")', NEW x \in ToSet(builds')
       PROVE  x < jobs'[i].mission
  <2>1. CASE i + 1 \in DOMAIN jobs /\ jobs'[i] = jobs[i + 1]
    <3>1. CASE x \in ToSet(builds)
      BY <1>6, <1>20, <2>1, <3>1 DEF Behind
    <3>2. CASE x = m /\ StepOf(1) = "assistant"
      BY <1>18, <1>20, <2>1, <3>2 DEF Waits
    <3> QED  BY <1>20, <3>1, <3>2 DEF Served, Grows
  <2>2. CASE jobs'[i] = n /\ Rest # <<>>
    <3>1. StepOf(1) # "assistant"
      BY <1>7, <1>20, <2>2 DEF Waits
    <3>2. x \in ToSet(builds)
      BY <1>20, <3>1 DEF Served, Grows
    <3> QED  BY <1>5, <1>12, <1>15, <1>20, <2>2, <3>2
  <2> QED  BY <1>2, <2>1, <2>2
<1>21. ASSUME NEW i \in DOMAIN jobs', Waits(i, "self")', NEW x \in ToSet(history'), Stated(x)
       PROVE  x < jobs'[i].mission
  <2>1. CASE i + 1 \in DOMAIN jobs /\ jobs'[i] = jobs[i + 1]
    <3>1. CASE x \in ToSet(history)
      BY <1>6, <1>21, <2>1, <3>1 DEF Behind
    <3>2. CASE x = m /\ StepOf(1) = "self"
      <4>1. Waits(1, "self")
        BY <1>1, <1>21, <3>2 DEF Waits
      <4> QED  BY <1>18, <1>21, <2>1, <3>2, <4>1
    <3> QED  BY <1>21, <3>1, <3>2 DEF Served, Grows
  <2>2. CASE jobs'[i] = n /\ Rest # <<>>
    <3>1. StepOf(1) # "self"
      BY <1>7, <1>21, <2>2 DEF Waits
    <3>2. x \in ToSet(builds)
      BY <1>21, <3>1 DEF Served, Grows, Written
    <3> QED  BY <1>5, <1>15, <1>21, <2>2, <3>2
  <2> QED  BY <1>2, <2>1, <2>2
<1>22. Behind'
  BY <1>3, <1>19, <1>20, <1>21 DEF Behind
<1> QED  BY <1>2, <1>17, <1>22

(* What a job writes is about missions the invariant has already placed.   *)
LEMMA ServedKeepsWritten ==
    ASSUME Inv, NEW rejected \in BOOLEAN, Served(rejected), ToSet(project') \subseteq ToSet(builds')
    PROVE  Written'
<1> USE DEF Inv
<1> PICK m : m = Current
  OBVIOUS
<1>1. /\ m \in Missions /\ Ready(jobs[1]) /\ jobs[1].mission = m
      /\ PathOK(Door(m), jobs[1].steps)
  BY FirstJob DEF Served
<1>2. /\ Missions' = Missions /\ \A x : Stated(x)' <=> Stated(x)
      /\ goals' = goals /\ decisions'["intake"] = decisions["intake"]
  BY DEF Served, Missions, Stated, Goal
<1>3. Remembered \subseteq Remembered'
  BY OwnersAre DEF Remembered, Served, Grows
<1>4. \A o \in Owners :
          ToSet(memory'[o]) \cup ToSet(knowledge'[o]) \cup ToSet(decisions'[o]) \subseteq Missions
  BY <1>1 DEF Served, Grows, Written
<1>5. ASSUME StepOf(1) = "assistant"
      PROVE  Stated(m) /\ m \in ToSet(decisions["intake"]) \cap Remembered
  <2>1. Ours(m) /\ jobs[1].steps # <<"self">>
    BY <1>1, <1>5 DEF PathOK, Ours, StepOf
  <2> QED  BY <1>1, <1>5, <2>1 DEF Ready, StepOf
<1>6. \A x \in ToSet(builds') :
          x \in Missions /\ Stated(x) /\ x \in ToSet(decisions["intake"]) \cap Remembered'
  BY <1>1, <1>3, <1>5 DEF Served, Grows, Written
<1>7. \A x \in ToSet(history') : x \in Missions /\ (Stated(x) => x \in ToSet(builds'))
  <2>1. StepOf(1) = "self" /\ Stated(m) => m \in ToSet(builds)
    BY <1>1 DEF Ready, StepOf
  <2> QED  BY <1>1, <2>1 DEF Served, Grows, Written
<1> QED  BY <1>2, <1>4, <1>6, <1>7 DEF Written

LEMMA ServedKeepsLost ==
    ASSUME Inv, NEW rejected \in BOOLEAN, Served(rejected), NEW m, m = Current,
           Rest = <<>> /\ Ours(m) /\ Stated(m) =>
                /\ m \in ToSet(knowledge'["assistant"]) \cap ToSet(builds')
                /\ m \in ToSet(project') <=> ~rejected
                /\ Door(m) = "self" => (m \in ToSet(history') <=> ~rejected)
    PROVE  LostOnlyByDaemon'
<1> USE DEF Inv
<1>1. /\ QueueTyped' /\ \A x \in Missions \ {m} : outcome'[x] = outcome[x]
      /\ outcome'[m] = IF Rest = <<>> THEN IF rejected THEN "rejected" ELSE "fulfilled"
                       ELSE "pending"
  BY Shift DEF Served
<1>2. /\ Missions' = Missions /\ \A x : Door(x)' = Door(x) /\ (Stated(x)' <=> Stated(x))
      /\ \A x : Ours(x)' <=> Ours(x)
  BY DEF Served, Missions, Door, Stated, Goal, Ours
<1> SUFFICES ASSUME NEW x \in Missions, Ours(x), Stated(x), outcome'[x] # "pending"
             PROVE  /\ x \in ToSet(knowledge'["assistant"]) \cap ToSet(builds')
                    /\ x \in ToSet(project') <=> outcome'[x] = "fulfilled"
                    /\ Door(x) = "self" =>
                         (x \in ToSet(history') <=> outcome'[x] = "fulfilled")
  BY <1>2 DEF LostOnlyByDaemon, Ours
<1>3. CASE x = m
  BY <1>1, <1>3
<1>4. CASE x # m
  <2>1. /\ ToSet(knowledge["assistant"]) \subseteq ToSet(knowledge'["assistant"])
        /\ ToSet(builds) \subseteq ToSet(builds')
        /\ x \in ToSet(project') <=> x \in ToSet(project)
        /\ x \in ToSet(history') <=> x \in ToSet(history)
    BY <1>4, OwnersAre DEF Served, Grows
  <2> QED  BY <1>1, <1>4, <2>1 DEF LostOnlyByDaemon, Ours
<1> QED  BY <1>3, <1>4

LEMMA RuntimeKeepsInv == ASSUME Inv, RuntimeStep PROVE Inv'
<1> USE DEF Inv
<1> PICK m : m = Current
  OBVIOUS
<1> PICK o : o = Owner(Door(m))
  OBVIOUS
<1> PICK n : n = Job(Current, Rest, FALSE)
  OBVIOUS
<1>1. jobs # <<>> /\ Head(Head(jobs).steps) = "runtime"
  BY DEF RuntimeStep, Running
<1>2. /\ 1 \in DOMAIN jobs /\ jobs[1].mission = m /\ m \in Missions /\ Ready(jobs[1])
      /\ Door(m) \in Doors /\ Goal(m) \in Goals /\ PathOK(Door(m), jobs[1].steps)
      /\ StepOf(1) = "runtime" /\ Head(jobs[1].steps) = "runtime" /\ Rest = Tail(jobs[1].steps)
  BY <1>1, FirstJob DEF StepOf
<1>3. o \in Owners /\ m \in Nat
  BY <1>2, OwnersAre DEF QueueTyped, Missions
<1>4. \A c \in Owners : \A x \in ToSet(memory[c]) \cup ToSet(knowledge[c]) \cup ToSet(decisions[c]) :
          x < m
  BY <1>2 DEF Behind, Waits
<1>5. /\ memory' = [memory EXCEPT ![o] = Append(@, m)]
      /\ knowledge' = [knowledge EXCEPT ![o] = Append(@, m)]
      /\ decisions' = IF Stated(m) THEN [decisions EXCEPT ![o] = Append(@, m)] ELSE decisions
      /\ UNCHANGED <<calls, goals, project, history, builds>> /\ Resume(m, Rest, FALSE)
  BY <1>2, StatedCompletes
     DEF RuntimeStep, StoreDecision, SaveMemory, AddKnowledge, Stated, Goals
<1>6. /\ memory' \in [Owners -> Seq(Nat)] /\ m \in ToSet(memory'[o])
      /\ \A c \in Owners : /\ Grows(ToSet(memory[c]), ToSet(memory'[c]), "runtime")
                           /\ InCallOrder(memory[c]) => InCallOrder(memory'[c])
  <2>1. memory[o] \in Seq(Nat) /\ memory'[o] = Append(memory[o], m)
        /\ \A c \in Owners \ {o} : memory'[c] = memory[c]
    BY <1>3, <1>5 DEF StoresTyped
  <2>2. /\ memory'[o] \in Seq(Nat) /\ ToSet(memory'[o]) = ToSet(memory[o]) \cup {m}
        /\ InCallOrder(memory[o]) => InCallOrder(memory'[o])
    BY <1>3, <1>4, <2>1, AppendedTo
  <2>3. memory' \in [Owners -> Seq(Nat)]
    BY <1>3, <1>5, <2>1, <2>2 DEF StoresTyped
  <2> QED  BY <1>2, <2>1, <2>2, <2>3 DEF Grows
<1>7. /\ knowledge' \in [Owners -> Seq(Nat)] /\ m \in ToSet(knowledge'[o])
      /\ \A c \in Owners : /\ Grows(ToSet(knowledge[c]), ToSet(knowledge'[c]), "runtime")
                           /\ InCallOrder(knowledge[c]) => InCallOrder(knowledge'[c])
  <2>1. knowledge[o] \in Seq(Nat) /\ knowledge'[o] = Append(knowledge[o], m)
        /\ \A c \in Owners \ {o} : knowledge'[c] = knowledge[c]
    BY <1>3, <1>5 DEF StoresTyped
  <2>2. /\ knowledge'[o] \in Seq(Nat) /\ ToSet(knowledge'[o]) = ToSet(knowledge[o]) \cup {m}
        /\ InCallOrder(knowledge[o]) => InCallOrder(knowledge'[o])
    BY <1>3, <1>4, <2>1, AppendedTo
  <2>3. knowledge' \in [Owners -> Seq(Nat)]
    BY <1>3, <1>5, <2>1, <2>2 DEF StoresTyped
  <2> QED  BY <1>2, <2>1, <2>2, <2>3 DEF Grows
<1>8. /\ decisions' \in [Owners \cup {"intake"} -> Seq(Nat)]
      /\ Stated(m) => m \in ToSet(decisions'[o])
      /\ decisions'["intake"] = decisions["intake"]
      /\ \A c \in Owners : Grows(ToSet(decisions[c]), ToSet(decisions'[c]), "runtime")
      /\ \A c \in Owners \cup {"intake"} : InCallOrder(decisions[c]) => InCallOrder(decisions'[c])
  <2>1. o # "intake" /\ o \in Owners \cup {"intake"}
    BY <1>3, OwnersAre
  <2>2. CASE Stated(m)
    <3>1. decisions[o] \in Seq(Nat) /\ decisions'[o] = Append(decisions[o], m)
          /\ \A c \in (Owners \cup {"intake"}) \ {o} : decisions'[c] = decisions[c]
      BY <1>5, <2>1, <2>2 DEF StoresTyped
    <3>2. /\ decisions'[o] \in Seq(Nat) /\ ToSet(decisions'[o]) = ToSet(decisions[o]) \cup {m}
          /\ InCallOrder(decisions[o]) => InCallOrder(decisions'[o])
      BY <1>3, <1>4, <3>1, AppendedTo
    <3>3. decisions' \in [Owners \cup {"intake"} -> Seq(Nat)]
      BY <1>5, <2>1, <2>2, <3>1, <3>2 DEF StoresTyped
    <3> QED  BY <1>2, <2>1, <3>1, <3>2, <3>3 DEF Grows
  <2>3. CASE ~Stated(m)
    BY <1>5, <2>3 DEF StoresTyped, Grows
  <2> QED  BY <2>2, <2>3
<1>9. Served(FALSE)
  BY <1>1, <1>5, <1>6, <1>7, <1>8 DEF Served, Grows
<1>10. StoresTyped'
  BY <1>5, <1>6, <1>7, <1>8 DEF StoresTyped
<1>11. Written'
  <2>1. ToSet(project') \subseteq ToSet(builds')
    BY <1>5 DEF Written
  <2> QED  BY <1>9, <2>1, ServedKeepsWritten
<1>12. Rest # <<>> /\ outcome'[m] = "pending"
  BY <1>1, <1>2, <1>5, Shift DEF PathOK
<1>13. Ready(n)'
  <2>1. n.mission = m /\ n.steps = Rest
    BY DEF Job
  <2>2. m \in Missions' /\ Door(m)' = Door(m) /\ (Stated(m)' <=> Stated(m)) /\ (Ours(m)' <=> Ours(m))
    BY <1>2, <1>5 DEF Missions, Door, Stated, Goal, Ours
  <2>3. Rest \in Paths(Door(m)) /\ Head(Rest) \notin {"runtime", "self"}
    BY <1>2, <1>12 DEF PathOK
  <2>4. Ours(m) => Stated(m) /\ m \in ToSet(decisions'["intake"])
    <3>1. jobs[1].steps # <<"self">>
      BY <1>2, OneStage
    <3> QED  BY <1>2, <1>8, <3>1 DEF Ready
  <2>5. Head(Rest) = "assistant" => m \in Remembered'
    <3>1. Head(Rest) = "assistant" => o = "assistant" /\ Ours(m)
      BY <1>2 DEF PathOK, Ours
    <3> QED  BY <1>6, <1>7, <1>8, <2>4, <3>1 DEF Remembered
  <2> QED  BY <1>12, <2>1, <2>2, <2>3, <2>4, <2>5 DEF Ready
<1>14. QueueTyped' /\ Queue' /\ Behind'
  BY <1>9, <1>13, ServedKeepsQueue
<1>15. LostOnlyByDaemon'
  BY <1>9, <1>12, ServedKeepsLost
<1>16. OneOrderEverywhere'
  <2>1. \A x : Stated(x)' <=> Stated(x)
    BY <1>5 DEF Stated, Goal
  <2> QED  BY <1>5, <1>6, <1>7, <1>8, <2>1 DEF OneOrderEverywhere, StoresTyped, InCallOrder
<1> QED  BY <1>10, <1>11, <1>14, <1>15, <1>16

LEMMA AssistantKeepsInv == ASSUME Inv, NEW threw \in BOOLEAN, AssistantStep(threw) PROVE Inv'
<1> USE DEF Inv
<1> PICK m : m = Current
  OBVIOUS
<1> PICK n : n = Job(Current, Rest, threw)
  OBVIOUS
<1>1. jobs # <<>> /\ Head(Head(jobs).steps) = "assistant"
  BY DEF AssistantStep, Running
<1>2. /\ 1 \in DOMAIN jobs /\ jobs[1].mission = m /\ m \in Missions /\ Ready(jobs[1])
      /\ Door(m) \in Doors /\ PathOK(Door(m), jobs[1].steps)
      /\ StepOf(1) = "assistant" /\ Head(jobs[1].steps) = "assistant"
      /\ Rest = Tail(jobs[1].steps)
  BY <1>1, FirstJob DEF StepOf
<1>3. m \in Nat /\ \A x \in ToSet(builds) : x < m
  BY <1>2 DEF QueueTyped, Missions, Behind, Waits
<1>4. /\ Ours(m) /\ Stated(m) /\ m \in Remembered
      /\ Rest # <<>> => Door(m) = "self" /\ Rest = <<"self">>
      /\ Rest = <<>> => Door(m) # "self"
  <2>1. Ours(m) /\ jobs[1].steps # <<"self">>
    BY <1>2 DEF PathOK, Ours
  <2> QED  BY <1>2, <2>1 DEF Ready, PathOK
<1>5. /\ builds' = Append(builds, m) /\ project' = IF threw THEN project ELSE Append(project, m)
      /\ UNCHANGED <<calls, goals, decisions, memory, knowledge, history>>
      /\ Resume(m, Rest, threw)
  BY DEF AssistantStep, RecordProject
<1>6. /\ builds' \in Seq(Nat) /\ ToSet(builds') = ToSet(builds) \cup {m}
      /\ InCallOrder(builds) => InCallOrder(builds')
  <2>1. builds \in Seq(Nat)
    BY DEF StoresTyped
  <2> QED  BY <1>3, <1>5, <2>1, AppendedTo
<1>7. /\ project' \in Seq(Nat) /\ ToSet(project) \subseteq ToSet(project')
      /\ ToSet(project') \subseteq ToSet(project) \cup {m}
      /\ m \in ToSet(project') <=> ~threw
      /\ InCallOrder(project) => InCallOrder(project')
  <2>1. project \in Seq(Nat) /\ \A x \in ToSet(project) : x < m
    BY <1>3 DEF StoresTyped, Written
  <2>2. m \notin ToSet(project)
    BY <1>3, <2>1
  <2>3. CASE threw
    BY <1>5, <2>1, <2>2, <2>3
  <2>4. CASE ~threw
    BY <1>3, <1>5, <2>1, <2>4, AppendedTo
  <2> QED  BY <2>3, <2>4
<1>8. Served(threw)
  BY <1>1, <1>2, <1>5, <1>6, <1>7 DEF Served, Grows
<1>9. StoresTyped'
  BY <1>5, <1>6, <1>7 DEF StoresTyped
<1>10. Written'
  <2>1. ToSet(project') \subseteq ToSet(builds')
    BY <1>6, <1>7 DEF Written
  <2> QED  BY <1>8, <2>1, ServedKeepsWritten
<1>11. outcome'[m] = IF Rest = <<>> THEN IF threw THEN "rejected" ELSE "fulfilled" ELSE "pending"
  BY <1>1, <1>5, Shift
<1>12. Rest # <<>> => Ready(n)'
  <2> SUFFICES ASSUME Rest # <<>> PROVE Ready(n)'
    OBVIOUS
  <2>1. n.mission = m /\ n.steps = <<"self">> /\ n.rejected = threw
    BY <1>4 DEF Job
  <2>2. m \in Missions' /\ Door(m)' = Door(m) /\ (Stated(m)' <=> Stated(m)) /\ (Ours(m)' <=> Ours(m))
    BY <1>2, <1>5 DEF Missions, Door, Stated, Goal, Ours
  <2>3. Head(<<"self">>) = "self" /\ <<"self">> \in Paths(Door(m))
    BY <1>4, OneStage DEF Paths
  <2>4. m \in ToSet(decisions'["intake"])
    BY <1>2, <1>4, <1>5 DEF Ready
  <2> QED  BY <1>4, <1>6, <1>7, <1>11, <2>1, <2>2, <2>3, <2>4 DEF Ready
<1>13. QueueTyped' /\ Queue' /\ Behind'
  BY <1>8, <1>12, ServedKeepsQueue
<1>14. LostOnlyByDaemon'
  <2>1. m \in ToSet(knowledge'["assistant"]) \cap ToSet(builds')
    BY <1>4, <1>5, <1>6 DEF Remembered
  <2> QED  BY <1>4, <1>7, <1>8, <2>1, ServedKeepsLost
<1>15. OneOrderEverywhere'
  <2>1. \A x : Stated(x)' <=> Stated(x)
    BY <1>5 DEF Stated, Goal
  <2> QED  BY <1>5, <1>6, <1>7, <2>1 DEF OneOrderEverywhere, InCallOrder
<1> QED  BY <1>9, <1>10, <1>13, <1>14, <1>15

LEMMA SelfKeepsInv == ASSUME Inv, SelfStep PROVE Inv'
<1> USE DEF Inv
<1> PICK m : m = Current
  OBVIOUS
<1> PICK rejected : rejected = Head(jobs).rejected
  OBVIOUS
<1>1. jobs # <<>> /\ Head(Head(jobs).steps) = "self"
  BY DEF SelfStep, Running
<1>2. /\ 1 \in DOMAIN jobs /\ jobs[1].mission = m /\ m \in Missions /\ Ready(jobs[1])
      /\ Door(m) \in Doors /\ PathOK(Door(m), jobs[1].steps) /\ StepOf(1) = "self"
      /\ Head(jobs[1].steps) = "self" /\ Rest = Tail(jobs[1].steps)
      /\ rejected = jobs[1].rejected /\ rejected \in BOOLEAN
  BY <1>1, FirstJob DEF StepOf, JobSet
<1>3. m \in Nat /\ (Stated(m) => \A x \in ToSet(history) : Stated(x) => x < m)
  BY <1>2 DEF QueueTyped, Missions, Behind, Waits
<1>4. /\ Rest = <<>> /\ Door(m) = "self"
      /\ Stated(m) => m \in ToSet(builds) /\ (m \in ToSet(project) <=> ~rejected)
  BY <1>2 DEF Ready, PathOK
<1>5. /\ history' = IF rejected THEN history ELSE Append(history, m)
      /\ UNCHANGED <<calls, goals, decisions, memory, knowledge, project, builds>>
      /\ Resume(m, Rest, rejected)
  BY DEF SelfStep, RecordHistory
<1>6. history \in Seq(Nat)
  BY DEF StoresTyped
<1>7. /\ history' \in Seq(Nat) /\ ToSet(history) \subseteq ToSet(history')
      /\ ToSet(history') \subseteq ToSet(history) \cup {m}
      /\ ~rejected => m \in ToSet(history')
      /\ rejected => history' = history
  BY <1>2, <1>3, <1>5, <1>6, AppendedTo
<1>8. Served(rejected)
  BY <1>1, <1>2, <1>5, <1>7 DEF Served, Grows
<1>9. StoresTyped'
  BY <1>5, <1>7 DEF StoresTyped
<1>10. Written'
  <2>1. ToSet(project') \subseteq ToSet(builds')
    BY <1>5 DEF Written
  <2> QED  BY <1>2, <1>8, <2>1, ServedKeepsWritten
<1>11. QueueTyped' /\ Queue' /\ Behind'
  BY <1>2, <1>4, <1>8, ServedKeepsQueue
<1>12. LostOnlyByDaemon'
  <2>1. Stated(m) => m \in ToSet(knowledge["assistant"]) \cap ToSet(builds)
    BY <1>4 DEF Written, Remembered
  <2>2. Stated(m) => m \notin ToSet(history)
    BY <1>3
  <2>3. Stated(m) => (m \in ToSet(history') <=> ~rejected)
    BY <1>2, <1>7, <2>2
  <2> QED  BY <1>2, <1>4, <1>5, <1>8, <2>1, <2>3, ServedKeepsLost
<1>13. OneOrderEverywhere'
  <2>1. \A x : Stated(x)' <=> Stated(x)
    BY <1>5 DEF Stated, Goal
  <2>2. ASSUME NEW i \in DOMAIN history', NEW j \in DOMAIN history', i < j,
               Stated(history'[i]), Stated(history'[j])
        PROVE  history'[i] < history'[j]
    <3>1. CASE rejected
      BY <1>5, <2>2, <3>1 DEF OneOrderEverywhere
    <3>2. CASE ~rejected
      <4>1. /\ history' = Append(history, m) /\ DOMAIN history' = DOMAIN history \cup {Len(history) + 1}
            /\ \A k \in DOMAIN history : history'[k] = history[k] /\ k \in Nat /\ k < Len(history) + 1
            /\ history'[Len(history) + 1] = m
        BY <1>3, <1>5, <1>6, <3>2
      <4>2. i \in DOMAIN history /\ history[i] \in ToSet(history)
        BY <2>2, <4>1 DEF ToSet
      <4>3. CASE j \in DOMAIN history
        BY <2>2, <4>1, <4>2, <4>3 DEF OneOrderEverywhere
      <4>4. CASE j = Len(history) + 1
        BY <1>3, <2>2, <4>1, <4>2, <4>4
      <4> QED  BY <4>1, <4>3, <4>4
    <3> QED  BY <3>1, <3>2
  <2> QED  BY <1>5, <2>1, <2>2 DEF OneOrderEverywhere, InCallOrder, Stated
<1> QED  BY <1>9, <1>10, <1>11, <1>12, <1>13

LEMMA PassKeepsInv == ASSUME Inv, PassStep PROVE Inv'
<1> USE DEF Inv
<1> PICK m : m = Current
  OBVIOUS
<1> PICK n : n = Job(Current, Rest, FALSE)
  OBVIOUS
<1>1. jobs # <<>> /\ Head(Head(jobs).steps) \in {"core", "orchestrator", "platform"}
  BY DEF PassStep, Running
<1>2. /\ jobs[1].mission = m /\ m \in Missions /\ PathOK(Door(m), jobs[1].steps)
      /\ Head(jobs[1].steps) \in {"core", "orchestrator", "platform"}
      /\ Rest = Tail(jobs[1].steps)
  BY <1>1, FirstJob
<1>3. ~Ours(m) /\ (Rest # <<>> => Rest \in Paths(Door(m)) /\ Head(Rest) = "platform")
  BY <1>2 DEF PathOK, Ours
<1>4. UNCHANGED <<calls, stores>> /\ Resume(m, Rest, FALSE)
  BY DEF PassStep
<1>5. Served(FALSE)
  BY <1>1, <1>4 DEF Served, Grows, stores
<1>6. StoresTyped'
  BY <1>4 DEF StoresTyped, stores
<1>7. Written'
  <2>1. ToSet(project') \subseteq ToSet(builds')
    BY <1>4 DEF Written, stores
  <2> QED  BY <1>5, <2>1, ServedKeepsWritten
<1>8. Rest # <<>> => Ready(n)'
  <2> SUFFICES ASSUME Rest # <<>> PROVE Ready(n)'
    OBVIOUS
  <2>1. n.mission = m /\ n.steps = Rest
    BY DEF Job
  <2>2. m \in Missions' /\ Door(m)' = Door(m) /\ ~Ours(m)'
    BY <1>2, <1>3, <1>4 DEF Missions, Door, Ours
  <2>3. outcome'[m] = "pending"
    BY <1>1, <1>4, Shift
  <2> QED  BY <1>3, <2>1, <2>2, <2>3 DEF Ready
<1>9. QueueTyped' /\ Queue' /\ Behind'
  BY <1>5, <1>8, ServedKeepsQueue
<1>10. LostOnlyByDaemon'
  BY <1>3, <1>5, ServedKeepsLost
<1>11. OneOrderEverywhere'
  BY <1>4 DEF OneOrderEverywhere, InCallOrder, Stated, Goal, stores
<1> QED  BY <1>6, <1>7, <1>9, <1>10, <1>11

-----------------------------------------------------------------------------
LEMMA InvInit == Init => Inv
<1> SUFFICES ASSUME Init PROVE Inv
  OBVIOUS
<1>1. /\ calls = <<>> /\ jobs = <<>> /\ outcome = <<>>
      /\ goals = <<>> /\ project = <<>> /\ history = <<>> /\ builds = <<>>
      /\ decisions = [c \in Owners \cup {"intake"} |-> <<>>]
      /\ memory = [o \in Owners |-> <<>>] /\ knowledge = [o \in Owners |-> <<>>]
  BY DEF Init
<1>2. \A S : <<>> \in Seq(S)
  OBVIOUS
<1>3. DOMAIN <<>> = {} /\ ToSet(<<>>) = {}
  BY DEF ToSet
<1>4. QueueTyped /\ Queue /\ Behind
  BY <1>1, <1>2, <1>3 DEF QueueTyped, Queue, Behind
<1>5. StoresTyped
  BY <1>1, <1>2 DEF StoresTyped
<1>6. Written
  BY <1>1, <1>3 DEF Written
<1>7. OneOrderEverywhere
  <2>1. InCallOrder(<<>>)
    BY <1>3 DEF InCallOrder
  <2> QED  BY <1>1, <1>3, <2>1 DEF OneOrderEverywhere
<1>8. LostOnlyByDaemon
  BY <1>1, <1>3 DEF LostOnlyByDaemon, Missions
<1> QED  BY <1>4, <1>5, <1>6, <1>7, <1>8 DEF Inv

LEMMA AsideKeepsInv ==
    ASSUME Inv, UNCHANGED <<calls, jobs, outcome, stores>>
    PROVE  Inv'
<1>1. UNCHANGED <<calls, jobs, outcome, goals, decisions, memory, knowledge, project, history, builds>>
  BY DEF stores
<1>2. /\ Missions' = Missions
      /\ \A x : Door(x)' = Door(x) /\ (Stated(x)' <=> Stated(x)) /\ (Ours(x)' <=> Ours(x))
  BY <1>1 DEF Missions, Door, Stated, Goal, Ours
<1>3. QueueTyped' /\ StoresTyped'
  BY <1>1 DEF Inv, QueueTyped, StoresTyped
<1>4. Remembered' = Remembered
  BY <1>1 DEF Remembered
<1>5. \A j : Ready(j)' <=> Ready(j)
  BY <1>1, <1>2, <1>4 DEF Ready
<1>6. \A i, stage : Waits(i, stage)' <=> Waits(i, stage)
  BY <1>1, <1>2 DEF Waits, StepOf
<1>7. Queue'
  <2>1. \A i \in DOMAIN jobs' : Ready(jobs[i])'
    <3> SUFFICES ASSUME NEW i \in DOMAIN jobs' PROVE Ready(jobs[i])'
      OBVIOUS
    <3> PICK j : j = jobs[i]
      OBVIOUS
    <3>1. Ready(j)'
      BY <1>1, <1>5 DEF Inv, Queue
    <3> QED  BY <1>1, <3>1 DEF Ready
  <2> QED  BY <1>1, <1>6, <2>1 DEF Inv, Queue
<1>8. Behind'
  BY <1>1, <1>2, <1>6 DEF Inv, Behind
<1>9. Written'
  BY <1>1, <1>2, <1>4 DEF Inv, Written
<1>10. OneOrderEverywhere'
  BY <1>1, <1>2 DEF Inv, OneOrderEverywhere, InCallOrder
<1>11. LostOnlyByDaemon'
  BY <1>1, <1>2 DEF Inv, LostOnlyByDaemon, Ours
<1> QED  BY <1>3, <1>7, <1>8, <1>9, <1>10, <1>11 DEF Inv

LEMMA InvStep == Inv /\ [Next]_vars => Inv'
<1> SUFFICES ASSUME Inv, [Next]_vars PROVE Inv'
  OBVIOUS
<1>1. ASSUME NEW goal \in Goals, RunMission(goal) PROVE Inv'
  <2>1. "self" \in Doors /\ Owner("self") = "assistant"
    BY DEF Doors, Owner
  <2> QED  BY <1>1, <2>1, CallKeepsInv DEF RunMission
<1>2. ASSUME NEW goal \in Goals, ExecuteAssistant(goal) PROVE Inv'
  <2>1. "assistant" \in Doors /\ Owner("assistant") = "assistant"
    BY DEF Doors, Owner
  <2> QED  BY <1>2, <2>1, CallKeepsInv DEF ExecuteAssistant
<1>3. ASSUME NEW goal \in Goals, ExecuteCore(goal) PROVE Inv'
  <2>1. "core" \in Doors /\ Owner("core") # "assistant"
    BY DEF Doors, Owner
  <2> QED  BY <1>3, <2>1, CallKeepsInv DEF ExecuteCore, stores
<1>4. ASSUME NEW goal \in Goals, BootPlatform(goal) PROVE Inv'
  <2>1. "platform" \in Doors /\ Owner("platform") # "assistant"
    BY DEF Doors, Owner
  <2> QED  BY <1>4, <2>1, CallKeepsInv DEF BootPlatform, stores
<1>5. ASSUME NEW f \in Feedback, Learn(f) PROVE Inv'
  BY <1>5, AsideKeepsInv DEF Learn
<1>6. ASSUME NEW goal \in Goals, RunOperatingSystem(goal) PROVE Inv'
  BY <1>6, AsideKeepsInv DEF RunOperatingSystem
<1>7. CASE ExecuteChiefEngineer
  BY <1>7, AsideKeepsInv DEF ExecuteChiefEngineer
<1>8. CASE RunJob
  BY <1>8, RuntimeKeepsInv, AssistantKeepsInv, SelfKeepsInv, PassKeepsInv DEF RunJob
<1>9. CASE UNCHANGED vars
  BY <1>9, AsideKeepsInv DEF vars
<1> QED  BY <1>1, <1>2, <1>3, <1>4, <1>5, <1>6, <1>7, <1>8, <1>9 DEF Next

LEMMA Invariance == Spec => []Inv
BY InvInit, InvStep, PTL DEF Spec

(* However many missions overlap, every store has them in the order of     *)
(* their calls: each stage of the queue is passed in that order.           *)
THEOREM StoresKeepCallOrder == Spec => []OneOrderEverywhere
<1>1. Inv => OneOrderEverywhere
  BY DEF Inv
<1> QED  BY <1>1, Invariance, PTL

(* The daemon is run at most once for a mission, and for none that was     *)
(* turned away or that the runtime has not learned of.                     *)
THEOREM DaemonRunsAreEarned == Spec => []BuildsAreEarned
<1>1. ASSUME Inv PROVE BuildsAreEarned
  <2>1. builds \in Seq(Nat) /\ InCallOrder(builds)
    BY <1>1 DEF Inv, StoresTyped, OneOrderEverywhere
  <2>2. ASSUME NEW i \in DOMAIN builds, NEW j \in DOMAIN builds, builds[i] = builds[j]
        PROVE  i = j
    <3>1. i \in Nat /\ j \in Nat /\ builds[i] \in Nat /\ builds[j] \in Nat
      BY <2>1
    <3> QED  BY <2>1, <2>2, <3>1 DEF InCallOrder
  <2>3. IsInjective(builds)
    BY <2>2 DEF IsInjective
  <2> QED  BY <1>1, <2>3 DEF BuildsAreEarned, Inv, Written, Remembered
<1> QED  BY <1>1, Invariance, PTL

(* A mission the caller has an answer to is in every store, or the daemon  *)
(* threw and it is missing from project memory and history alone.          *)
THEOREM OnlyTheDaemonLosesMissions == Spec => []LostOnlyByDaemon
<1>1. Inv => LostOnlyByDaemon
  BY DEF Inv
<1> QED  BY <1>1, Invariance, PTL

-----------------------------------------------------------------------------
(* Lessons: where in the feedback a capability is, and where it fails.     *)
About(c) == {i \in DOMAIN feedback : feedback[i].capability = c}
Failed(c) == {i \in About(c) : ~feedback[i].ok}

Lesson == [failureCount : Nat, lastFailureCode : {"none", "generation", "verify"},
           preferredRecovery : Recoveries \cup {"unsaid"}]

Summary(c) ==
    /\ lessons[c].failureCount = Cardinality(Failed(c))
    /\ \A i \in Failed(c) : (\A j \in Failed(c) : j <= i) =>
            lessons[c].lastFailureCode = feedback[i].code
    /\ \A i \in About(c) : (\A j \in About(c) : j <= i) =>
            (lessons[c].preferredRecovery = "NONE" <=> feedback[i].ok)

Learned ==
    /\ feedback \in Seq(Feedback) /\ lessons \in [Capabilities -> Lesson]
    /\ \A c \in Capabilities : Summary(c)

LEMMA LearnKeepsLearned == ASSUME Learned, NEW f \in Feedback, Learn(f) PROVE Learned'
<1> PICK c : c = f.capability
  OBVIOUS
<1> PICK new : new = LessonAfter(lessons[c], f)
  OBVIOUS
<1> PICK k : k = Len(feedback) + 1
  OBVIOUS
<1>1. /\ f.capability \in Capabilities /\ f.ok \in BOOLEAN
      /\ f.recovery \in Recoveries \cup {"unsaid"}
      /\ f.code \in {"none", "generation", "verify"}
  BY DEF Feedback
<1>2. /\ feedback' = Append(feedback, f)
      /\ lessons' = [lessons EXCEPT ![c] = new]
  BY DEF Learn
<1>3. /\ feedback' \in Seq(Feedback) /\ DOMAIN feedback' = DOMAIN feedback \cup {k}
      /\ k \notin DOMAIN feedback /\ k \in Nat /\ feedback'[k] = f
      /\ \A i \in DOMAIN feedback : feedback'[i] = feedback[i] /\ i \in Nat /\ i <= k
  BY <1>2 DEF Learned
<1>4. /\ new.failureCount = lessons[c].failureCount + (IF f.ok THEN 0 ELSE 1)
      /\ new.lastFailureCode = IF f.ok THEN lessons[c].lastFailureCode ELSE f.code
      /\ new.preferredRecovery = "NONE" <=> f.ok
      /\ new.preferredRecovery \in Recoveries \cup {"unsaid"}
      /\ new = [failureCount |-> new.failureCount, lastFailureCode |-> new.lastFailureCode,
                preferredRecovery |-> new.preferredRecovery]
  BY <1>1 DEF LessonAfter, Recoveries
<1>5. lessons' \in [Capabilities -> Lesson] /\ lessons'[c] = new
      /\ \A d \in Capabilities \ {c} : lessons'[d] = lessons[d]
  <2>1. lessons[c] \in Lesson
    BY <1>1 DEF Learned
  <2>2. new \in Lesson
    BY <1>1, <1>4, <2>1 DEF Lesson
  <2> QED  BY <1>1, <1>2, <2>2 DEF Learned
<1>6. ASSUME NEW d \in Capabilities, d # c PROVE Summary(d)'
  <2>1. About(d)' = About(d)
    BY <1>3, <1>6 DEF About
  <2>2. Failed(d)' = Failed(d) /\ About(d) \subseteq DOMAIN feedback /\ Failed(d) \subseteq About(d)
    BY <1>3, <2>1 DEF Failed, About
  <2>3. Summary(d)
    BY DEF Learned
  <2> QED  BY <1>3, <1>5, <1>6, <2>1, <2>2, <2>3 DEF Summary
<1>7. Summary(c)'
  <2>1. About(c)' = About(c) \cup {k}
    BY <1>3 DEF About
  <2>2. /\ Failed(c)' = IF f.ok THEN Failed(c) ELSE Failed(c) \cup {k}
        /\ About(c) \subseteq DOMAIN feedback /\ Failed(c) \subseteq About(c)
    BY <1>3, <2>1 DEF Failed, About
  <2>3. Summary(c)
    BY <1>1 DEF Learned
  <2>4. new.failureCount = Cardinality(Failed(c)')
    <3>1. IsFiniteSet(Failed(c)) /\ k \notin Failed(c)
      <4>1. IsFiniteSet(DOMAIN feedback)
        BY FS_Interval DEF Learned
      <4> QED  BY <1>3, <2>2, <4>1, FS_Subset
    <3>2. Cardinality(Failed(c) \cup {k}) = Cardinality(Failed(c)) + 1
      BY <3>1, FS_AddElement
    <3>3. Cardinality(Failed(c)) \in Nat
      BY <3>1, FS_CardinalityType
    <3> QED  BY <1>1, <1>4, <2>2, <2>3, <3>2, <3>3 DEF Summary
  <2>5. ASSUME NEW i \in Failed(c)', \A j \in Failed(c)' : j <= i
        PROVE  new.lastFailureCode = feedback'[i].code
    <3>1. CASE f.ok
      <4>1. i \in Failed(c) /\ \A j \in Failed(c) : j <= i
        BY <2>2, <2>5, <3>1
      <4> QED  BY <1>3, <1>4, <2>2, <2>3, <3>1, <4>1 DEF Summary
    <3>2. CASE ~f.ok
      <4>1. k <= i /\ i \in DOMAIN feedback \cup {k}
        BY <2>2, <2>5, <3>2
      <4>2. i = k
        BY <1>3, <4>1
      <4> QED  BY <1>3, <1>4, <3>2, <4>2
    <3> QED  BY <3>1, <3>2
  <2>6. ASSUME NEW i \in About(c)', \A j \in About(c)' : j <= i
        PROVE  new.preferredRecovery = "NONE" <=> feedback'[i].ok
    <3>1. k <= i /\ i \in DOMAIN feedback \cup {k}
      BY <2>1, <2>2, <2>6
    <3>2. i = k
      BY <1>3, <3>1
    <3> QED  BY <1>3, <1>4, <3>2
  <2> QED  BY <1>5, <2>4, <2>5, <2>6 DEF Summary
<1> QED  BY <1>3, <1>5, <1>6, <1>7 DEF Learned

(* Lessons never disagree with the feedback, in any order it comes in.     *)
THEOREM LessonsFollowFeedback == Spec => []LessonsSummarise
<1>1. Init => Learned
  <2> SUFFICES ASSUME Init PROVE Learned
    OBVIOUS
  <2>1. feedback = <<>> /\ lessons = [c \in Capabilities |-> NoLesson]
    BY DEF Init
  <2>2. NoLesson \in Lesson /\ NoLesson.failureCount = 0
    BY DEF NoLesson, Lesson
  <2>3. \A c : About(c) = {} /\ Failed(c) = {}
    BY <2>1 DEF About, Failed
  <2>4. Cardinality({}) = 0
    BY FS_EmptySet
  <2>5. \A c \in Capabilities : Summary(c)
    BY <2>1, <2>2, <2>3, <2>4 DEF Summary
  <2> QED  BY <2>1, <2>2, <2>5 DEF Learned
<1>2. Learned /\ [Next]_vars => Learned'
  <2> SUFFICES ASSUME Learned, [Next]_vars PROVE Learned'
    OBVIOUS
  <2>1. CASE \E f \in Feedback : Learn(f)
    BY <2>1, LearnKeepsLearned
  <2>2. CASE UNCHANGED learning
    <3>1. feedback' = feedback /\ lessons' = lessons
      BY <2>2 DEF learning
    <3>2. \A c : About(c)' = About(c) /\ Failed(c)' = Failed(c)
      BY <3>1 DEF About, Failed
    <3> QED  BY <3>1, <3>2 DEF Learned, Summary
  <2>3. (\E f \in Feedback : Learn(f)) \/ UNCHANGED learning
    BY DEF Next, RunMission, ExecuteAssistant, ExecuteCore, BootPlatform, RunOperatingSystem,
           ExecuteChiefEngineer, RunJob, RuntimeStep, AssistantStep, SelfStep, PassStep, vars
  <2> QED  BY <2>1, <2>2, <2>3
<1>3. Learned => LessonsSummarise
  BY DEF Learned, Summary, About, Failed, LessonsSummarise
<1> QED  BY <1>1, <1>2, <1>3, PTL DEF Spec

-----------------------------------------------------------------------------
(* Nobody waits for ever, as far as safety says it.  A job that is run     *)
(* leaves the queue, the others move up, and what is left of it goes last. *)
LEMMA JobsResume ==
    ASSUME Inv, RunJob
    PROVE  /\ jobs # <<>> /\ UNCHANGED calls
           /\ \E rejected \in BOOLEAN : Resume(Current, Rest, rejected)
<1>1. CASE RuntimeStep
    BY <1>1 DEF RuntimeStep, Running
<1>2. CASE \E threw \in BOOLEAN : AssistantStep(threw)
    BY <1>2 DEF AssistantStep, Running
<1>3. CASE SelfStep
  <2>1. jobs # <<>> /\ UNCHANGED calls /\ Resume(Current, Rest, Head(jobs).rejected)
      BY <1>3 DEF SelfStep, Running
  <2>2. Head(jobs) \in JobSet
      BY <2>1, FirstJob DEF Inv
  <2> QED
      BY <2>1, <2>2 DEF JobSet
<1>4. CASE PassStep
    BY <1>4 DEF PassStep, Running
<1> QED
    BY <1>1, <1>2, <1>3, <1>4 DEF RunJob

LEMMA JobsMoveUp ==
    ASSUME Inv, RunJob
    PROVE  /\ \A i \in DOMAIN jobs : i # 1 => i - 1 \in DOMAIN jobs' /\ jobs'[i - 1] = jobs[i]
           /\ Rest = <<>> => outcome'[Current] # "pending"
           /\ Rest # <<>> =>
                /\ outcome'[Current] = "pending"
                /\ Len(jobs) \in DOMAIN jobs'
                /\ jobs'[Len(jobs)].mission = Current /\ jobs'[Len(jobs)].steps = Rest
           /\ \A x \in Missions \ {Current} : outcome'[x] = outcome[x]
           /\ \A i \in DOMAIN jobs' :
                \/ i + 1 \in DOMAIN jobs /\ jobs'[i] = jobs[i + 1]
                \/ i = Len(jobs) /\ Rest # <<>> /\ jobs'[i].mission = Current
<1> PICK rejected \in BOOLEAN : Resume(Current, Rest, rejected)
    BY JobsResume
<1> PICK j : j = Job(Current, Rest, rejected)
    OBVIOUS
<1>1. jobs # <<>> /\ UNCHANGED calls /\ jobs \in Seq(JobSet)
    BY JobsResume DEF Inv, QueueTyped
<1>2. /\ \A x \in Missions \ {Current} : outcome'[x] = outcome[x]
      /\ outcome'[Current] = IF Rest = <<>>
                             THEN IF rejected THEN "rejected" ELSE "fulfilled"
                             ELSE "pending"
      /\ \A i \in DOMAIN jobs' :
            \/ i + 1 \in DOMAIN jobs /\ jobs'[i] = jobs[i + 1]
            \/ i = Len(jobs) /\ Rest # <<>> /\ jobs'[i] = j
      /\ jobs' \in Seq(JobSet)
    BY <1>1, Shift DEF Inv, QueueTyped
<1>3. j.mission = Current /\ j.steps = Rest
    BY DEF Job
<1>4. /\ Tail(jobs) \in Seq(JobSet) /\ Len(Tail(jobs)) = Len(jobs) - 1
      /\ \A i \in 1 .. Len(Tail(jobs)) : Tail(jobs)[i] = jobs[i + 1]
    BY <1>1, HeadTailProperties
<1>5. \/ jobs' = Tail(jobs) /\ Rest = <<>>
      \/ jobs' = Append(Tail(jobs), j) /\ Rest # <<>>
    BY DEF Resume, Enqueue
<1>6. \A i \in 1 .. Len(Tail(jobs)) : i \in DOMAIN jobs' /\ jobs'[i] = jobs[i + 1]
  <2>1. CASE jobs' = Tail(jobs)
      BY <1>4, <2>1
  <2>2. CASE jobs' = Append(Tail(jobs), j)
    <3>1. DOMAIN jobs' = 1 .. Len(Tail(jobs)) + 1
        BY <1>4, <2>2
    <3>2. \A i \in 1 .. Len(Tail(jobs)) : jobs'[i] = Tail(jobs)[i]
        BY <1>4, <2>2
    <3> QED
        BY <1>4, <3>1, <3>2
  <2> QED
      BY <1>5, <2>1, <2>2
<1>7. \A i \in DOMAIN jobs : i # 1 => i - 1 \in DOMAIN jobs' /\ jobs'[i - 1] = jobs[i]
  <2> SUFFICES ASSUME NEW i \in DOMAIN jobs, i # 1
               PROVE  i - 1 \in DOMAIN jobs' /\ jobs'[i - 1] = jobs[i]
      OBVIOUS
  <2>1. i - 1 \in 1 .. Len(Tail(jobs)) /\ (i - 1) + 1 = i
      BY <1>1, <1>4
  <2> QED
      BY <1>6, <2>1
<1>8. Rest # <<>> => Len(jobs) \in DOMAIN jobs' /\ jobs'[Len(jobs)] = j
  <2> SUFFICES ASSUME jobs' = Append(Tail(jobs), j)
               PROVE  Len(jobs) \in DOMAIN jobs' /\ jobs'[Len(jobs)] = j
      BY <1>5
  <2>1. Len(jobs) = Len(Tail(jobs)) + 1 /\ Len(Tail(jobs)) \in Nat
      BY <1>1, <1>4
  <2>2. /\ DOMAIN jobs' = 1 .. Len(Tail(jobs)) + 1
        /\ jobs'[Len(Tail(jobs)) + 1] = j
      BY <1>4
  <2> QED
      BY <2>1, <2>2
<1> QED
    BY <1>2, <1>3, <1>7, <1>8

(* What a call adds.                                                       *)
LEMMA CallsQueueUp ==
    ASSUME Inv, NobodyIsDropped, NEW door \in Doors, NEW goal \in Goals,
           BeginMission(door, goal)
    PROVE  NobodyIsDropped' /\ \A i \in DOMAIN jobs : i \in DOMAIN jobs' /\ jobs'[i] = jobs[i]
<1> PICK m : m = Len(calls) + 1
    OBVIOUS
<1>1. /\ m \in Nat /\ m \notin Missions /\ Missions' = Missions \cup {m}
      /\ \A x \in Missions : outcome'[x] = outcome[x]
      /\ QueueTyped /\ jobs \in Seq(JobSet)
      /\ outcome \in Seq({"pending", "fulfilled", "rejected"}) /\ Len(outcome) = Len(calls)
    BY Beginning DEF Inv, QueueTyped
<1>2. \A i \in DOMAIN jobs : jobs[i].mission \in Missions
    BY DEF Inv, Queue, Ready
<1>3. \/ jobs' = jobs /\ outcome' = Append(outcome, "fulfilled")
      \/ \E j : /\ j.mission = m
                /\ jobs' = Append(jobs, j) /\ outcome' = Append(outcome, "pending")
    BY DEF BeginMission, Enqueue, Job
<1>4. CASE jobs' = jobs /\ outcome' = Append(outcome, "fulfilled")
  <2>1. outcome'[m] = "fulfilled"
      BY <1>1, <1>4
  <2>2. ASSUME NEW x \in Missions'
        PROVE  outcome'[x] = "pending" <=> \E i \in DOMAIN jobs' : jobs'[i].mission = x
    <3>1. CASE x = m
        BY <1>1, <1>2, <1>4, <2>1, <3>1
    <3>2. CASE x # m
      <4>1. x \in Missions /\ outcome'[x] = outcome[x]
          BY <1>1, <3>2
      <4> QED
          BY <1>4, <4>1 DEF NobodyIsDropped
    <3> QED
        BY <3>1, <3>2
  <2> QED
      BY <1>4, <2>2 DEF NobodyIsDropped
<1>5. CASE \E j : /\ j.mission = m
                  /\ jobs' = Append(jobs, j) /\ outcome' = Append(outcome, "pending")
  <2> PICK j : /\ j.mission = m
               /\ jobs' = Append(jobs, j) /\ outcome' = Append(outcome, "pending")
      BY <1>5
  <2>1. outcome'[m] = "pending"
      BY <1>1
  <2>2. /\ DOMAIN jobs' = DOMAIN jobs \cup {Len(jobs) + 1}
        /\ jobs'[Len(jobs) + 1] = j /\ Len(jobs) + 1 \notin DOMAIN jobs
        /\ \A i \in DOMAIN jobs : jobs'[i] = jobs[i]
      BY <1>1
  <2>3. \A i \in DOMAIN jobs' :
            \/ i \in DOMAIN jobs /\ jobs'[i].mission = jobs[i].mission
            \/ i = Len(jobs) + 1 /\ jobs'[i].mission = m
    <3>1. \A i \in DOMAIN jobs : jobs'[i].mission = jobs[i].mission
        BY <2>2
    <3>2. jobs'[Len(jobs) + 1].mission = m
        BY <2>2
    <3> QED
        BY <2>2, <3>1, <3>2
  <2>4. ASSUME NEW x \in Missions'
        PROVE  outcome'[x] = "pending" <=> \E i \in DOMAIN jobs' : jobs'[i].mission = x
    <3>1. CASE x = m
        BY <2>1, <2>2, <3>1
    <3>2. CASE x # m
      <4>1. x \in Missions /\ outcome'[x] = outcome[x]
          BY <1>1, <3>2
      <4>2. (\E i \in DOMAIN jobs' : jobs'[i].mission = x)
                <=> \E i \in DOMAIN jobs : jobs[i].mission = x
          BY <2>2, <2>3, <3>2
      <4> QED
          BY <4>1, <4>2 DEF NobodyIsDropped
    <3> QED
        BY <3>1, <3>2
  <2>5. \A i, k \in DOMAIN jobs' : jobs'[i].mission = jobs'[k].mission => i = k
    <3>1. \A i \in DOMAIN jobs : jobs[i].mission # m
        BY <1>1, <1>2
    <3> QED
        BY <2>3, <3>1 DEF NobodyIsDropped
  <2> QED
      BY <2>2, <2>4, <2>5 DEF NobodyIsDropped
<1> QED
    BY <1>3, <1>4, <1>5

LEMMA TurnsCount ==
    ASSUME Inv, NobodyIsDropped, RunJob
    PROVE  NobodyIsDropped' /\ \A i \in DOMAIN jobs : Advances(i)
<1>1. /\ jobs \in Seq(JobSet) /\ 1 \in DOMAIN jobs
      /\ jobs[1].mission = Current /\ Tail(jobs[1].steps) = Rest
      /\ Missions' = Missions
    BY JobsResume, FirstJob DEF Inv, QueueTyped, Missions
<1>2. \A i \in DOMAIN jobs : i \in Nat /\ 1 <= i /\ i <= Len(jobs)
    BY <1>1
<1>3. \A i \in DOMAIN jobs : Advances(i)
  <2>1. Advances(1)
      BY <1>1, JobsMoveUp DEF Advances
  <2>2. \A i \in DOMAIN jobs : i # 1 => Advances(i)
      BY JobsMoveUp DEF Advances
  <2> QED
      BY <2>1, <2>2
<1>4. \A i \in DOMAIN jobs' : i \in Nat /\ 1 <= i
  <2>1. jobs' \in Seq(JobSet)
      BY JobsResume, Shift DEF Inv, QueueTyped
  <2> QED
      BY <2>1
<1>5. \A i \in DOMAIN jobs' : \A k \in DOMAIN jobs' :
          jobs'[i].mission = jobs'[k].mission => i = k
  <2> SUFFICES ASSUME NEW i \in DOMAIN jobs', NEW k \in DOMAIN jobs',
                      jobs'[i].mission = jobs'[k].mission
               PROVE  i = k
      OBVIOUS
  <2> DEFINE MovedUp(n) == n + 1 \in DOMAIN jobs /\ jobs'[n] = jobs[n + 1]
             Requeued(n) == n = Len(jobs) /\ jobs'[n].mission = Current
  <2>1. (MovedUp(i) \/ Requeued(i)) /\ (MovedUp(k) \/ Requeued(k))
      BY JobsMoveUp
  <2>2. i \in Nat /\ 1 <= i /\ k \in Nat /\ 1 <= k
      BY <1>4
  <2>3. \A n \in DOMAIN jobs : jobs[n].mission = Current => n = 1
      BY <1>1 DEF NobodyIsDropped
  <2>4. CASE MovedUp(i) /\ MovedUp(k)
    <3>1. i + 1 = k + 1
        BY <2>4 DEF NobodyIsDropped
    <3> QED
        BY <2>2, <3>1
  <2>5. CASE Requeued(i) /\ Requeued(k)
      BY <2>5
  <2>6. CASE MovedUp(i) /\ Requeued(k)
      BY <2>2, <2>3, <2>6
  <2>7. CASE Requeued(i) /\ MovedUp(k)
      BY <2>2, <2>3, <2>7
  <2> QED
      BY <2>1, <2>4, <2>5, <2>6, <2>7
<1>6. ASSUME NEW m \in Missions
      PROVE  outcome'[m] = "pending" <=> \E i \in DOMAIN jobs' : jobs'[i].mission = m
  <2>1. CASE m = Current
    <3>1. CASE Rest # <<>>
        BY <2>1, <3>1, JobsMoveUp
    <3>2. CASE Rest = <<>>
      <4>1. \A i \in DOMAIN jobs' : i + 1 \in DOMAIN jobs /\ jobs'[i] = jobs[i + 1]
          BY <3>2, JobsMoveUp
      <4>2. \A i \in DOMAIN jobs' : jobs'[i].mission # Current
        <5> SUFFICES ASSUME NEW i \in DOMAIN jobs', jobs'[i].mission = Current PROVE FALSE
            OBVIOUS
        <5>1. i + 1 = 1
            BY <1>1, <4>1 DEF NobodyIsDropped
        <5> QED
            BY <1>4, <5>1
      <4> QED
          BY <2>1, <3>2, <4>2, JobsMoveUp
    <3> QED
        BY <3>1, <3>2
  <2>2. CASE m # Current
    <3>1. outcome'[m] = "pending" <=> \E i \in DOMAIN jobs : jobs[i].mission = m
        BY <2>2, JobsMoveUp DEF NobodyIsDropped
    <3>2. ASSUME NEW i \in DOMAIN jobs, jobs[i].mission = m
          PROVE  \E k \in DOMAIN jobs' : jobs'[k].mission = m
      <4>1. i # 1
          BY <1>1, <2>2, <3>2
      <4> QED
          BY <3>2, <4>1, JobsMoveUp
    <3>3. ASSUME NEW i \in DOMAIN jobs', jobs'[i].mission = m
          PROVE  \E k \in DOMAIN jobs : jobs[k].mission = m
        BY <2>2, <3>3, JobsMoveUp
    <3> QED
        BY <3>1, <3>2, <3>3
  <2> QED
      BY <2>1, <2>2
<1> QED
    BY <1>1, <1>3, <1>5, <1>6 DEF NobodyIsDropped

(* However many missions overlap and whatever the daemon throws, nobody's  *)
(* promise is dropped, and every job that is run brings everybody closer   *)
(* to an answer: a mission at place i settles after at most three rounds   *)
(* of the queue.                                                           *)
THEOREM EverybodyMovesOn == Spec => []NobodyIsDropped /\ EveryTurnCounts
<1> DEFINE Turn == \A i \in DOMAIN jobs :
                       IF RunJob THEN Advances(i)
                       ELSE i \in DOMAIN jobs' /\ jobs'[i] = jobs[i]
<1>1. Init => NobodyIsDropped
    BY DEF Init, NobodyIsDropped, Missions
<1>2. Inv /\ NobodyIsDropped /\ [Next]_vars => NobodyIsDropped' /\ [Turn]_vars
  <2> SUFFICES ASSUME Inv, NobodyIsDropped, [Next]_vars
               PROVE  NobodyIsDropped' /\ (vars' # vars => Turn)
      OBVIOUS
  <2>1. CASE RunJob
      BY <2>1, TurnsCount
  <2>2. CASE ~RunJob /\ \E door \in Doors, goal \in Goals : BeginMission(door, goal)
      BY <2>2, CallsQueueUp
  <2>3. CASE ~RunJob /\ UNCHANGED <<calls, jobs, outcome>>
      BY <2>3 DEF NobodyIsDropped, Missions
  <2>4. ASSUME NEW goal \in Goals,
               RunMission(goal) \/ ExecuteAssistant(goal) \/ ExecuteCore(goal)
                   \/ BootPlatform(goal)
        PROVE  \E door \in Doors : BeginMission(door, goal)
      BY <2>4 DEF RunMission, ExecuteAssistant, ExecuteCore, BootPlatform, Doors
  <2> QED
      BY <2>1, <2>2, <2>3, <2>4
      DEF Next, vars, Learn, RunOperatingSystem, ExecuteChiefEngineer
<1> QED
    BY <1>1, <1>2, Invariance, PTL DEF Spec, EveryTurnCounts
=============================================================================
