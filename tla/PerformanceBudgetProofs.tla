---------------------- MODULE PerformanceBudgetProofs ----------------------
(***************************************************************************)
(* Proofs about PerformanceBudget, for every deadline and every clock.     *)
(***************************************************************************)
EXTENDS PerformanceBudget, TLAPS

(* The bounded counter of completed cycles makes the type invariant rest   *)
(* on one more fact: a cycle that was begun is one of MaxCycles.           *)
TypeInv ==
    /\ TypeOK
    /\ phase \in {"starting", "running"} => completed < MaxCycles

(* A state as the constructor reads it, and as a cycle leaves it.          *)
LEMMA LoadedIsState == TypeOK => Loaded \in States
BY DEF TypeOK, Loaded, NoState, States, Instants

LEMMA CycleAddedIsState == TypeOK => CycleAdded \in States
<1> SUFFICES ASSUME TypeOK PROVE CycleAdded \in States
    OBVIOUS
<1>1. Elapsed(cycleStart, clock) \in Nat
  BY DEF TypeOK, Elapsed, Instants
<1>2. budget \in [startedAt : Instants, cycleCount : Nat, totalCycleElapsed : Nat]
  BY DEF TypeOK, States
<1>3. /\ budget.cycleCount + 1 \in Nat
      /\ budget.totalCycleElapsed + Elapsed(cycleStart, clock) \in Nat
  BY <1>1, <1>2
<1> QED  BY <1>2, <1>3 DEF CycleAdded, States

LEMMA NothingIsState == NoState \in States
BY ClockAssumption DEF NoState, States, Instants

LEMMA FileIsTyped ==
    ASSUME NEW s \in {"absent", "corrupt", "valid"}, NEW b \in States
    PROVE  File(s, b) \in [state : {"absent", "corrupt", "valid"}, content : States]
BY DEF File

(* Whatever becomes of a write, the file is one a file may be.             *)
LEMMA PersistIsTyped ==
    ASSUME TypeOK, NEW b \in States, Persist(b)
    PROVE  /\ file' \in [state : {"absent", "corrupt", "valid"}, content : States]
           /\ lost' \in BOOLEAN
<1>1. CASE file' = File("valid", b) /\ UNCHANGED lost
  BY <1>1, FileIsTyped DEF TypeOK
<1>2. CASE file' \in {file, Corrupt} /\ lost' = TRUE
  BY <1>2, FileIsTyped, NothingIsState DEF TypeOK, Corrupt
<1> QED  BY <1>1, <1>2 DEF Persist

LEMMA DyingIsTyped ==
    ASSUME DiesWriting
    PROVE  /\ file' \in [state : {"absent", "corrupt", "valid"}, content : States]
           /\ lost' \in BOOLEAN
           /\ phase' = "down"
           /\ budget' \in States
BY NothingIsState DEF DiesWriting, File, Corrupt

LEMMA TypeHoldsInitially == Init => TypeInv
<1> SUFFICES ASSUME Init PROVE TypeInv
    OBVIOUS
<1>1. file \in [state : {"absent", "corrupt", "valid"}, content : States]
  BY FileIsTyped, NothingIsState DEF Init, Absent
<1>2. 0 \in Instants /\ 0 \in 0 .. MaxCycles
  BY ClockAssumption DEF Instants
<1> QED  BY <1>1, <1>2, NothingIsState DEF Init, TypeInv, TypeOK

LEMMA TypeIsPreserved == TypeInv /\ [Next]_vars => TypeInv'
<1> SUFFICES ASSUME TypeInv, [Next]_vars PROVE TypeInv'
    OBVIOUS
<1> USE ClockAssumption, NothingIsState
<1>0. TypeOK  BY DEF TypeInv
<1>1. ASSUME Construct PROVE TypeInv'
  <2>1. firstStart' \in Instants \cup {-1}  BY <1>0, <1>1 DEF Construct, TypeOK
  <2>2. CASE budget' = Loaded /\ Persist(Loaded) /\ phase' = "between"
    BY <1>0, <1>1, <2>1, <2>2, LoadedIsState, PersistIsTyped
       DEF Construct, TypeInv, TypeOK
  <2>3. CASE DiesWriting
    BY <1>0, <1>1, <2>1, <2>3, DyingIsTyped DEF Construct, TypeInv, TypeOK
  <2> QED  BY <1>1, <2>2, <2>3 DEF Construct
<1>2. ASSUME BeginCycle PROVE TypeInv'
  BY <1>2 DEF BeginCycle, TypeInv, TypeOK
<1>3. ASSUME Admit PROVE TypeInv'
  BY <1>3 DEF Admit, TypeInv, TypeOK
<1>4. ASSUME Refuse PROVE TypeInv'
  BY <1>4 DEF Refuse, TypeInv, TypeOK
<1>5. ASSUME CompleteCycle PROVE TypeInv'
  <2>1. completed' \in 0 .. MaxCycles
    BY <1>5 DEF CompleteCycle, TypeInv, TypeOK
  <2>2. CASE budget' = CycleAdded /\ Persist(CycleAdded) /\ phase' = "between"
    BY <1>0, <1>5, <2>1, <2>2, CycleAddedIsState, PersistIsTyped
       DEF CompleteCycle, TypeInv, TypeOK
  <2>3. CASE DiesWriting
    BY <1>0, <1>5, <2>1, <2>3, DyingIsTyped DEF CompleteCycle, TypeInv, TypeOK
  <2> QED  BY <1>5, <2>2, <2>3 DEF CompleteCycle
<1>6. ASSUME Leave PROVE TypeInv'
  BY <1>6 DEF Leave, TypeInv, TypeOK
<1>7. ASSUME Tick PROVE TypeInv'
  BY <1>7 DEF Tick, TypeInv, TypeOK, Instants
<1>8. ASSUME SetBack PROVE TypeInv'
  BY <1>8 DEF SetBack, TypeInv, TypeOK, Instants
<1>9. CASE UNCHANGED vars
  BY <1>9 DEF vars, TypeInv, TypeOK
<1> QED  BY <1>1, <1>2, <1>3, <1>4, <1>5, <1>6, <1>7, <1>8, <1>9 DEF Next

LEMMA TypeInvariant == Spec => []TypeInv
BY TypeHoldsInitially, TypeIsPreserved, PTL DEF Spec

(* The fields of the budget and of its file have their types: no time it   *)
(* counts is ever negative, however the clock is set.                      *)
THEOREM TypeCorrect == Spec => []TypeOK
<1>1. TypeInv => TypeOK  BY DEF TypeInv
<1> QED  BY <1>1, TypeInvariant, PTL

-----------------------------------------------------------------------------
(* As long as no write was lost, file and memory both hold the first start *)
(* and the number of completed cycles, and there is a file from the first  *)
(* start on.                                                               *)
MemoryInv ==
    ~lost =>
        /\ file.state = "valid" =>
              /\ file.content.startedAt = firstStart
              /\ file.content.cycleCount = completed
        /\ file.state # "valid" =>
              phase = "down" /\ firstStart = -1 /\ completed = 0
        /\ phase # "down" =>
              /\ budget.startedAt = firstStart
              /\ budget.cycleCount = completed
        /\ phase = "running" => admittedAt < firstStart + DeadlineMs

LEMMA MemoryHoldsInitially == Init => MemoryInv
BY DEF Init, MemoryInv, Absent, File

(* A write that is not lost puts what it wrote into the file.              *)
LEMMA PersistWrites ==
    ASSUME NEW b, Persist(b), ~lost'
    PROVE  ~lost /\ file' = [state |-> "valid", content |-> b]
BY DEF Persist, File

LEMMA MemoryIsPreserved == TypeOK /\ MemoryInv /\ [Next]_vars => MemoryInv'
<1> SUFFICES ASSUME TypeOK, MemoryInv, [Next]_vars, ~lost'
             PROVE  MemoryInv'
    BY DEF MemoryInv
<1>1. ASSUME Construct PROVE MemoryInv'
  <2>1. budget' = Loaded /\ Persist(Loaded) /\ phase' = "between"
    BY <1>1 DEF Construct, DiesWriting
  <2>2. ~lost /\ file' = [state |-> "valid", content |-> Loaded]
    BY <2>1, PersistWrites
  <2>3. Loaded.startedAt = firstStart' /\ Loaded.cycleCount = completed
    <3>1. CASE file.state = "valid"
      BY <1>1, <2>2, <3>1
         DEF Construct, MemoryInv, Loaded, TypeOK, States, Instants
    <3>2. CASE file.state # "valid"
      BY <1>1, <2>2, <3>2 DEF Construct, MemoryInv, Loaded, NoState
    <3> QED  BY <3>1, <3>2
  <2> QED  BY <1>1, <2>1, <2>2, <2>3 DEF Construct, MemoryInv
<1>2. ASSUME BeginCycle PROVE MemoryInv'
  BY <1>2 DEF BeginCycle, MemoryInv
<1>3. ASSUME Admit PROVE MemoryInv'
  <2>1. clock < budget.startedAt + DeadlineMs
    BY <1>3, DeadlineAssumption
       DEF Admit, DeadlineExceeded, Elapsed, TypeOK, States, Instants
  <2> QED  BY <1>3, <2>1 DEF Admit, MemoryInv
<1>4. ASSUME Refuse PROVE MemoryInv'
  BY <1>4 DEF Refuse, MemoryInv
<1>5. ASSUME CompleteCycle PROVE MemoryInv'
  <2>1. budget' = CycleAdded /\ Persist(CycleAdded) /\ phase' = "between"
    BY <1>5 DEF CompleteCycle, DiesWriting
  <2>2. ~lost /\ file' = [state |-> "valid", content |-> CycleAdded]
    BY <2>1, PersistWrites
  <2>3. /\ CycleAdded.startedAt = budget.startedAt
        /\ CycleAdded.cycleCount = budget.cycleCount + 1
    BY DEF CycleAdded, TypeOK, States
  <2> QED  BY <1>5, <2>1, <2>2, <2>3 DEF CompleteCycle, MemoryInv
<1>6. ASSUME Leave PROVE MemoryInv'
  BY <1>6 DEF Leave, MemoryInv
<1>7. ASSUME Tick \/ SetBack PROVE MemoryInv'
  BY <1>7 DEF Tick, SetBack, MemoryInv
<1>8. CASE UNCHANGED vars
  BY <1>8 DEF vars, MemoryInv
<1> QED  BY <1>1, <1>2, <1>3, <1>4, <1>5, <1>6, <1>7, <1>8 DEF Next

LEMMA MemoryInvariant == Spec => []MemoryInv
<1>1. TypeInv => TypeOK  BY DEF TypeInv
<1> QED
  BY <1>1, MemoryHoldsInitially, MemoryIsPreserved, TypeInvariant, PTL DEF Spec

(* No cycle is let through DeadlineMs after the first start, over restarts,*)
(* crashes and clocks set back, as long as no write of the file is lost.   *)
THEOREM BudgetIsKept == Spec => []CyclesWithinBudget
<1>1. MemoryInv => CyclesWithinBudget  BY DEF MemoryInv, CyclesWithinBudget
<1> QED  BY <1>1, MemoryInvariant, PTL

(* As long as no write is lost, every completed cycle is accounted for.    *)
THEOREM TelemetryIsComplete == Spec => []TelemetryComplete
<1>1. MemoryInv => TelemetryComplete  BY DEF MemoryInv, TelemetryComplete
<1> QED  BY <1>1, MemoryInvariant, PTL

-----------------------------------------------------------------------------
(* On a clock that was never set back the cycles fit into the time since   *)
(* the start, in memory and in the file, and one that is running began     *)
(* after the others had ended.                                             *)
ElapsedInv ==
    ~slipped =>
        /\ phase # "down" => budget.startedAt + budget.totalCycleElapsed <= clock
        /\ phase \in {"starting", "running"} =>
              /\ cycleStart <= clock
              /\ budget.startedAt + budget.totalCycleElapsed <= cycleStart
        /\ file.state = "valid" =>
              file.content.startedAt + file.content.totalCycleElapsed <= clock

LEMMA ElapsedHoldsInitially == Init => ElapsedInv
BY DEF Init, ElapsedInv, Absent, File

(* After a write, done or failed, the file holds what was written or what  *)
(* it held before, if it holds anything.                                   *)
LEMMA PersistedContent ==
    ASSUME NEW b, Persist(b), file'.state = "valid"
    PROVE  file'.content = b \/ file' = file
BY DEF Persist, File, Corrupt

LEMMA ElapsedIsPreserved == TypeOK /\ ElapsedInv /\ [Next]_vars => ElapsedInv'
<1> SUFFICES ASSUME TypeOK, ElapsedInv, [Next]_vars, ~slipped'
             PROVE  ElapsedInv'
    BY DEF ElapsedInv
<1>1. ASSUME Construct PROVE ElapsedInv'
  <2>1. UNCHANGED <<clock, slipped>>  BY <1>1 DEF Construct
  <2>2. Loaded.startedAt + Loaded.totalCycleElapsed <= clock
    BY <2>1 DEF ElapsedInv, Loaded, NoState, TypeOK, Instants, States
  <2>3. CASE budget' = Loaded /\ Persist(Loaded) /\ phase' = "between"
    BY <2>1, <2>2, <2>3, PersistedContent DEF ElapsedInv
  <2>4. CASE DiesWriting
    BY <2>4 DEF ElapsedInv, DiesWriting, Corrupt, File
  <2> QED  BY <1>1, <2>3, <2>4 DEF Construct
<1>2. ASSUME BeginCycle PROVE ElapsedInv'
  BY <1>2 DEF BeginCycle, ElapsedInv, TypeOK, Instants
<1>3. ASSUME Admit PROVE ElapsedInv'
  BY <1>3 DEF Admit, ElapsedInv
<1>4. ASSUME Refuse \/ Leave PROVE ElapsedInv'
  BY <1>4 DEF Refuse, Leave, ElapsedInv
<1>5. ASSUME CompleteCycle PROVE ElapsedInv'
  <2>1. UNCHANGED <<clock, slipped>>  BY <1>5 DEF CompleteCycle
  <2>2. CycleAdded.startedAt + CycleAdded.totalCycleElapsed <= clock
    BY <1>5, <2>1
       DEF CompleteCycle, ElapsedInv, CycleAdded, Elapsed, TypeOK, Instants, States
  <2>3. CASE budget' = CycleAdded /\ Persist(CycleAdded) /\ phase' = "between"
    BY <2>1, <2>2, <2>3, PersistedContent DEF ElapsedInv
  <2>4. CASE DiesWriting
    BY <2>4 DEF ElapsedInv, DiesWriting, Corrupt, File
  <2> QED  BY <1>5, <2>3, <2>4 DEF CompleteCycle
<1>6. ASSUME Tick PROVE ElapsedInv'
  BY <1>6 DEF Tick, ElapsedInv, TypeOK, Instants, States
<1>7. ASSUME SetBack PROVE ElapsedInv'
  BY <1>7 DEF SetBack
<1>8. CASE UNCHANGED vars
  BY <1>8 DEF vars, ElapsedInv
<1> QED  BY <1>1, <1>2, <1>3, <1>4, <1>5, <1>6, <1>7, <1>8 DEF Next

(* The time the cycles took never exceeds the time since the start, on a   *)
(* clock that is not set back, whatever becomes of the writes.             *)
THEOREM ElapsedFits == Spec => []CyclesFitElapsedTime
<1>1. TypeOK /\ ElapsedInv => CyclesFitElapsedTime
  BY DEF ElapsedInv, CyclesFitElapsedTime, TypeOK, Instants, States
<1>2. TypeInv => TypeOK  BY DEF TypeInv
<1> QED
  BY <1>1, <1>2, ElapsedHoldsInitially, ElapsedIsPreserved, TypeInvariant, PTL
     DEF Spec
=============================================================================
