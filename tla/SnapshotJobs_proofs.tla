-------------------------- MODULE SnapshotJobs_proofs --------------------------
(***************************************************************************)
(* Safety of SnapshotJobs for any number of tickers, jobs, days, daily     *)
(* updates, exceptions and restarts.                                       *)
(*                                                                         *)
(*  1. TypeOK is inductive: every step of the program keeps the types.     *)
(*  2. LockHeld is inductive: whoever is inside the snapshot section holds *)
(*     the mutex, so there is one writer at a time.                        *)
(*  3. Every step has one of seven effects on the rows and the threads     *)
(*     (Effect), and each effect keeps JobInv, which relates the rows of   *)
(*     backfill_job to the threads that work for them.  Exclusion of       *)
(*     revalidations, finality of terminal states and the refinement of    *)
(*     JobBoard are read off the effects.                                  *)
(*  4. Books is inductive with JobInv and LockHeld: what a runner has      *)
(*     counted and what it still has before it make up total_days, and an  *)
(*     onboarding without a failed day has every hole of its ticker before *)
(*     it, which only holds because nobody else writes meanwhile.          *)
(***************************************************************************)
EXTENDS SnapshotJobs, NumberLemmas

-----------------------------------------------------------------------------
(* Types *)

\* What the repository's three updates write is a row again.
LEMMA RowTypes ==
    ASSUME jobs \in [JobIds -> JobRow], NEW j \in JobIds
    PROVE  /\ \A s \in States : UpdateState(j, s) \in [JobIds -> JobRow]
           /\ RequestCancel(j) \in [JobIds -> JobRow]
           /\ \A p, f \in Nat : IncrementProgress(j, p, f) \in [JobIds -> JobRow]
           /\ \A n \in Nat : [jobs EXCEPT ![j].total = n] \in [JobIds -> JobRow]
           /\ \A s \in States, n \in Nat :
                 [UpdateState(j, s) EXCEPT ![j].total = n] \in [JobIds -> JobRow]
<1>1. \A s \in States : UpdateState(j, s) \in [JobIds -> JobRow]
  BY DEF JobRow, UpdateState
<1>2. RequestCancel(j) \in [JobIds -> JobRow]
  BY DEF JobRow, RequestCancel
<1>3. \A p, f \in Nat : IncrementProgress(j, p, f) \in [JobIds -> JobRow]
  <2> TAKE p, f \in Nat
  <2> DEFINE first == [jobs EXCEPT ![j].processed = @ + p]
  <2>1. first \in [JobIds -> JobRow]
    BY DEF JobRow
  <2>2. [first EXCEPT ![j].failed = @ + f] \in [JobIds -> JobRow]
    <3> HIDE DEF first
    <3>. QED BY <2>1 DEF JobRow
  <2>3. IncrementProgress(j, p, f) = [first EXCEPT ![j].failed = @ + f]
    BY DEF IncrementProgress
  <2>. QED BY <2>2, <2>3
<1>4. \A n \in Nat : [jobs EXCEPT ![j].total = n] \in [JobIds -> JobRow]
  BY DEF JobRow
<1>5. \A s \in States, n \in Nat :
        [UpdateState(j, s) EXCEPT ![j].total = n] \in [JobIds -> JobRow]
  <2> TAKE s \in States, n \in Nat
  <2> DEFINE moved == UpdateState(j, s)
  <2>1. moved \in [JobIds -> JobRow]
    BY <1>1
  <2> HIDE DEF moved
  <2>2. [moved EXCEPT ![j].total = n] \in [JobIds -> JobRow]
    BY <2>1 DEF JobRow
  <2>. QED BY <2>2 DEF moved
<1>. QED BY <1>1, <1>2, <1>3, <1>4, <1>5

\* Moving one runner, or replacing its locals, keeps the types of all.
LEMMA ThreadTypes ==
    ASSUME pc \in [JobIds -> Locations], todo \in [JobIds -> SUBSET Days],
           target \in [JobIds -> SUBSET Symbols], NEW j
    PROVE  /\ \A l \in Locations : [pc EXCEPT ![j] = l] \in [JobIds -> Locations]
           /\ \A D \in SUBSET Days : [todo EXCEPT ![j] = D] \in [JobIds -> SUBSET Days]
           /\ \A T \in SUBSET Symbols : [target EXCEPT ![j] = T] \in [JobIds -> SUBSET Symbols]
  OBVIOUS

\* Spending one of the bounds.
LEMMA SpendTypes ==
    ASSUME used \in [dailies : Nat, restarts : Nat, faults : Nat],
           NEW b \in {"dailies", "restarts", "faults"}
    PROVE  [used EXCEPT ![b] = @ + 1] \in [dailies : Nat, restarts : Nat, faults : Nat]
  OBVIOUS

\* "No daily update in flight" is a value of daily.
LEMMA NoDailyType ==
    NoDaily \in [at : {"idle", "fetch", "persisted", "waiting", "composing"},
                 day : Days, syms : SUBSET Symbols]
  BY ConstantsAssumption DEF NoDaily, Days

\* BackfillJobRepository.create inserts a well-formed row.
LEMMA NewJobType ==
    ASSUME jobs \in [JobIds -> JobRow],
           NEW kind \in {"onboarding", "revalidation"}, NEW s \in Symbols \cup {NoOne},
           NEW range \in SUBSET Days
    PROVE  NewJob(kind, s, range) \in [JobIds -> JobRow]
  BY DEF NewJob, JobRow, States

\* Sets of trading days are finite, so the counts the jobs record are numbers.
LEMMA CountOfDays ==
    ASSUME NEW D \in SUBSET Days
    PROVE  IsFiniteSet(D) /\ Cardinality(D) \in Nat
<1>1. IsFiniteSet(Days)
  BY ConstantsAssumption, FS_Interval DEF Days
<1>. QED BY <1>1, FS_Subset, FS_CardinalityType

\* The oldest day of a non-empty set of days, which the day loops visit next.
LEMMA LeastDay ==
    ASSUME NEW D \in SUBSET Days, D # {}
    PROVE  Min(D) \in D /\ \A d \in D : Min(D) <= d
<1>1. D \in SUBSET Nat
  BY DEF Days
<1>. QED BY <1>1, MinIsLeast

\* Every step of every process keeps every variable in its type.
THEOREM TypeCorrect == Spec => []TypeOK
<1>1. Init => TypeOK
  BY ConstantsAssumption
  DEF Init, TypeOK, JobRow, States, Statuses, Locations, NoRemoval, NoDaily, Days
<1>2. TypeOK /\ [Next]_vars => TypeOK'
  <2> SUFFICES ASSUME TypeOK, [Next]_vars PROVE TypeOK'
    OBVIOUS
  <2> USE ConstantsAssumption
  <2>1. ASSUME NEW s \in Symbols, AddToWatchlist(s) PROVE TypeOK'
    BY <2>1 DEF AddToWatchlist, TypeOK, Statuses
  <2>2. ASSUME NEW s \in Symbols, RemoveRead(s) PROVE TypeOK'
    <3>1. ActiveOf(s) \in SUBSET JobIds
      BY DEF ActiveOf
    <3>2. ActiveOf(s) # {} => Max(ActiveOf(s)) \in JobIds
      BY <3>1, MaxIsGreatest, SMTT(20) DEF JobIds
    <3>3. removal' \in [sym : Symbols \cup {NoOne}, job : JobIds \cup {0}]
      BY <2>2, <3>2 DEF RemoveRead
    <3>. QED BY <2>2, <3>3 DEF RemoveRead, TypeOK, db
  <2>3. ASSUME NEW j \in JobIds, CancelJob(j) PROVE TypeOK'
    BY <2>3, RowTypes DEF CancelJob, TypeOK, db, process, States
  <2>4. ASSUME NEW j \in JobIds, Acquire(j) PROVE TypeOK'
    BY <2>4, ThreadTypes DEF Acquire, TypeOK, db, process, Goto, Locations, Holding
  <2>5. ASSUME NEW j \in JobIds, RunnerRaises(j) PROVE TypeOK'
    <3>1. used' \in [dailies : Nat, restarts : Nat, faults : Nat]
      BY <2>5, SpendTypes DEF RunnerRaises, Spend, TypeOK
    <3>. QED BY <2>5, <3>1, ThreadTypes DEF RunnerRaises, TypeOK, db, Goto, Forget, Locations
  <2>6. ASSUME NEW j \in JobIds, RecordFailure(j) PROVE TypeOK'
    <3>1. used' \in [dailies : Nat, restarts : Nat, faults : Nat]
      BY <2>6, SpendTypes DEF RecordFailure, Spend, TypeOK
    <3>. QED BY <2>6, <3>1, RowTypes, ThreadTypes DEF RecordFailure, TypeOK, Goto, Locations, States
  <2>7. ASSUME NEW j \in JobIds, Complete(j) PROVE TypeOK'
    BY <2>7, RowTypes, ThreadTypes DEF Complete, TypeOK, db, process, States, Goto, Locations, Leave, Forget
  <2>8. ASSUME NEW j \in JobIds, OnboardingBegin(j) PROVE TypeOK'
    <3>1. CASE jobs[j].state \in TerminalStates
      BY <2>8, <3>1, ThreadTypes DEF OnboardingBegin, TypeOK, Goto, Leave, Forget, Locations
    <3>2. CASE jobs[j].state \notin TerminalStates
      BY <2>8, <3>2, RowTypes, ThreadTypes
      DEF OnboardingBegin, TypeOK, Goto, Locations, Holding, States
    <3>. QED BY <3>1, <3>2
  <2>9. ASSUME NEW j \in JobIds, ColdStartRead(j) PROVE TypeOK'
    BY <2>9, ThreadTypes DEF ColdStartRead, TypeOK, db, process, Goto, Locations, Holding
  <2>10. ASSUME NEW j \in JobIds, ColdStartFetched(j) PROVE TypeOK'
    BY <2>10, ThreadTypes DEF ColdStartFetched, TypeOK, Goto, Locations, Holding, Statuses
  <2>11. ASSUME NEW j \in JobIds, ColdStartAbort(j) PROVE TypeOK'
    BY <2>11, RowTypes, ThreadTypes DEF ColdStartAbort, TypeOK, db, process, States, Goto, Locations, Holding, Leave, Forget
  <2>12. ASSUME NEW j \in JobIds, FindGaps(j) PROVE TypeOK'
    <3> DEFINE G == market \ ticker[Sym(j)]
    <3>1. G \in SUBSET Days /\ Cardinality(G) \in Nat
      BY CountOfDays DEF TypeOK
    <3>2. jobs' \in [JobIds -> JobRow]
      BY <2>12, <3>1, RowTypes DEF FindGaps, TypeOK
    <3>. QED BY <2>12, <3>1, <3>2, ThreadTypes DEF FindGaps, TypeOK, Goto, Locations, Holding
  <2>13. ASSUME NEW j \in JobIds, OnboardingCancelled(j) PROVE TypeOK'
    BY <2>13, RowTypes, ThreadTypes DEF OnboardingCancelled, TypeOK, db, process, States, Goto, Locations, Holding, Leave, Forget
  <2>14. ASSUME NEW j \in JobIds, OnboardingDay(j) PROVE TypeOK'
    <3>1. todo' \in [JobIds -> SUBSET Days]
      BY <2>14 DEF OnboardingDay, TypeOK
    <3>2. ticker' \in [Symbols -> SUBSET Days]
      BY <2>14 DEF OnboardingDay, TypeOK, Priced
    <3>. QED BY <2>14, <3>1, <3>2, ThreadTypes DEF OnboardingDay, TypeOK, Goto, Locations, Holding
  <2>15. ASSUME NEW j \in JobIds, CountDay(j) PROVE TypeOK'
    BY <2>15, RowTypes, ThreadTypes DEF CountDay, TypeOK, db, process, States, Goto, Locations, Holding
  <2>16. ASSUME NEW j \in JobIds, MarkWatchlistReady(j) PROVE TypeOK'
    <3>1. status' \in [Symbols -> Statuses]
      BY <2>16 DEF MarkWatchlistReady, TypeOK, Statuses
    <3>. QED BY <2>16, <3>1, ThreadTypes DEF MarkWatchlistReady, TypeOK, Goto, Locations, Holding
  <2>17. ASSUME NEW j \in JobIds, RevalidationBegin(j) PROVE TypeOK'
    <3>1. CASE jobs[j].state \in TerminalStates
      BY <2>17, <3>1, ThreadTypes DEF RevalidationBegin, TypeOK, Goto, Leave, Forget, Locations
    <3>2. CASE jobs[j].state \notin TerminalStates
      <4>1. jobs[j].range \in SUBSET Days
        BY DEF TypeOK, JobRow
      <4>2. Cardinality(jobs[j].range) \in Nat /\ "running" \in States
        BY <4>1, CountOfDays DEF States
      <4>3. jobs' = [UpdateState(j, "running") EXCEPT ![j].total = Cardinality(jobs[j].range)]
        BY <2>17, <3>2 DEF RevalidationBegin
      <4>4. jobs' \in [JobIds -> JobRow]
        BY <4>2, <4>3, RowTypes DEF TypeOK
      <4>. QED BY <2>17, <3>2, <4>1, <4>4, ThreadTypes
               DEF RevalidationBegin, TypeOK, Goto, Locations, Holding
    <3>. QED BY <3>1, <3>2
  <2>18. ASSUME NEW j \in JobIds, RevalidationSymbols(j) PROVE TypeOK'
    BY <2>18, ThreadTypes
    DEF RevalidationSymbols, TypeOK, db, Goto, Locations, Holding, Watched
  <2>19. ASSUME NEW j \in JobIds, RevalidationCancelled(j) PROVE TypeOK'
    BY <2>19, RowTypes, ThreadTypes DEF RevalidationCancelled, TypeOK, db, process, States, Goto, Locations, Holding, Leave, Forget
  <2>20. ASSUME NEW j \in JobIds, RevalidationDayFails(j) PROVE TypeOK'
    BY <2>20, RowTypes DEF RevalidationDayFails, TypeOK, db, process, States
  <2>21. ASSUME NEW j \in JobIds, RevalidationDay(j) PROVE TypeOK'
    <3>1. todo' \in [JobIds -> SUBSET Days]
      BY <2>21 DEF RevalidationDay, TypeOK
    <3>2. Min(todo[j]) \in Days
      BY <2>21, LeastDay DEF RevalidationDay, TypeOK
    <3>3. market' \in SUBSET Days /\ ticker' \in [Symbols -> SUBSET Days]
      BY <2>21, <3>2 DEF RevalidationDay, TypeOK
    <3>. QED BY <2>21, <3>1, <3>3, ThreadTypes DEF RevalidationDay, TypeOK, Goto, Locations, Holding
  <2>22. ASSUME NEW j \in JobIds, RevalidationCount(j) PROVE TypeOK'
    BY <2>22, RowTypes, ThreadTypes DEF RevalidationCount, TypeOK, db, process, States, Goto, Locations, Holding
  <2>23. ASSUME NEW j \in JobIds, RevalidationRebuild(j) PROVE TypeOK'
    BY <2>23, ThreadTypes DEF RevalidationRebuild, TypeOK, db, process, Goto, Locations, Holding
  <2>24. CASE OnboardingDeferred
    BY <2>24 DEF OnboardingDeferred, TypeOK, db, process
  <2>25. CASE StartOnboarding
    <3>1. adding \in Symbols
      BY <2>25 DEF StartOnboarding, TypeOK
    <3>2. jobs' \in [JobIds -> JobRow]
      BY <2>25, <3>1, NewJobType DEF StartOnboarding, TypeOK
    <3>. QED BY <2>25, <3>2, ThreadTypes DEF StartOnboarding, TypeOK, Goto, Locations
  <2>26. CASE RevalidateAllSnapshots
    <3>1. ASSUME NEW range \in RevalidationRanges PROVE range \in SUBSET Days
      <4>1. CASE market = {}
        BY <3>1, <4>1 DEF RevalidationRanges, TypeOK
      <4>2. CASE market # {}
        <5>1. Min(market) \in Days
          BY <4>2, LeastDay DEF TypeOK
        <5>. QED BY <3>1, <4>2, <5>1 DEF RevalidationRanges, TypeOK, Days
      <4>. QED BY <4>1, <4>2
    <3>2. jobs' \in [JobIds -> JobRow]
      BY <2>26, <3>1, NewJobType DEF RevalidateAllSnapshots, TypeOK
    <3>. QED BY <2>26, <3>2, ThreadTypes DEF RevalidateAllSnapshots, TypeOK, Goto, Locations
  <2>27. CASE RemoveCommit
    <3>1. jobs' \in [JobIds -> JobRow]
      BY <2>27, RowTypes DEF RemoveCommit, TypeOK
    <3>. QED BY <2>27, <3>1 DEF RemoveCommit, TypeOK, Statuses, NoRemoval
  <2>28. CASE DailyStart
    <3>1. used' \in [dailies : Nat, restarts : Nat, faults : Nat]
      BY <2>28, SpendTypes DEF DailyStart, Spend, TypeOK
    <3>. QED BY <2>28, <3>1 DEF DailyStart, TypeOK, db, Watched
  <2>29. CASE DailyPersist
    BY <2>29 DEF DailyPersist, TypeOK, Statuses
  <2>30. CASE DailyWait
    BY <2>30 DEF DailyWait, TypeOK, db, process
  <2>31. CASE DailyAcquire
    BY <2>31 DEF DailyAcquire, TypeOK, db, process
  <2>32. CASE DailyCompose
    <3>1. market' \in SUBSET Days /\ ticker' \in [Symbols -> SUBSET Days]
      BY <2>32 DEF DailyCompose, TypeOK
    <3>. QED BY <2>32, <3>1, NoDailyType DEF DailyCompose, TypeOK
  <2>33. CASE DailyRaises
    <3>1. used' \in [dailies : Nat, restarts : Nat, faults : Nat]
      BY <2>33, SpendTypes DEF DailyRaises, Spend, TypeOK
    <3>. QED BY <2>33, <3>1, NoDailyType DEF DailyRaises, TypeOK, db
  <2>34. CASE NextTradingDay
    BY <2>34 DEF NextTradingDay, TypeOK, db, process, Days
  <2>35. CASE Crash
    <3>1. used' \in [dailies : Nat, restarts : Nat, faults : Nat]
      BY <2>35, SpendTypes DEF Crash, Spend, TypeOK
    <3>. QED BY <2>35, <3>1, NoDailyType DEF Crash, TypeOK, db, Locations, NoRemoval
  <2>36. CASE Boot
    <3>1. OrphanSweep \in [JobIds -> JobRow]
      <4>1. \A r \in JobRow : [r EXCEPT !.state = "failed"] \in JobRow
        BY DEF JobRow, States
      <4>. QED BY <4>1 DEF OrphanSweep, TypeOK
    <3>. QED BY <2>36, <3>1 DEF Boot, TypeOK
  <2>37. CASE UNCHANGED vars
    BY <2>37 DEF vars, db, process, TypeOK
  <2>38. QED
    BY <2>1, <2>2, <2>3, <2>4, <2>5, <2>6, <2>7, <2>8, <2>9, <2>10, <2>11, <2>12, <2>13, <2>14, <2>15, <2>16, <2>17, <2>18, <2>19, <2>20, <2>21, <2>22, <2>23, <2>24, <2>25, <2>26, <2>27, <2>28, <2>29, <2>30, <2>31, <2>32, <2>33, <2>34, <2>35, <2>36, <2>37 DEF Next, Handlers, OnboardingStep, RevalidationStep, RunnerStep, DailyStep
<1>3. QED
  BY <1>1, <1>2, PTL DEF Spec

-----------------------------------------------------------------------------
(* The snapshot mutex *)

\* The snapshot lock is a mutual exclusion: whoever is inside holds it.
LockHeld ==
    /\ \A j \in JobIds : pc[j] \in Holding => mutex = j
    /\ daily.at = "composing" => mutex = Daily

\* No step lets a second process into the snapshot section, and whoever leaves
\* it, by an end, an exception or a crash, gives the mutex back.
LEMMA LockStep ==
    ASSUME TypeOK, LockHeld, [Next]_vars
    PROVE  LockHeld'
<1> USE ConstantsAssumption DEF LockHeld
<1>1. ASSUME NEW j \in JobIds, Acquire(j) PROVE LockHeld'
  BY <1>1 DEF Acquire, TypeOK, Goto, Holding, MutexFree
<1>2. ASSUME NEW j \in JobIds, RunnerRaises(j) PROVE LockHeld'
  BY <1>2 DEF RunnerRaises, TypeOK, Goto, Holding
<1>3. ASSUME NEW j \in JobIds, OnboardingStep(j) PROVE LockHeld'
  <2>1. CASE OnboardingBegin(j)
    BY <2>1 DEF OnboardingBegin, TypeOK, Goto, Leave, Holding
  <2>2. CASE ColdStartRead(j)
    BY <2>2 DEF ColdStartRead, TypeOK, Goto, Holding
  <2>3. CASE ColdStartFetched(j)
    BY <2>3 DEF ColdStartFetched, TypeOK, Goto, Holding
  <2>4. CASE ColdStartAbort(j)
    BY <2>4 DEF ColdStartAbort, TypeOK, Goto, Leave, Holding
  <2>5. CASE FindGaps(j)
    BY <2>5 DEF FindGaps, TypeOK, Goto, Holding
  <2>6. CASE OnboardingCancelled(j)
    BY <2>6 DEF OnboardingCancelled, TypeOK, Goto, Leave, Holding
  <2>7. CASE OnboardingDay(j)
    BY <2>7 DEF OnboardingDay, TypeOK, Goto, Holding
  <2>8. CASE CountDay(j)
    BY <2>8 DEF CountDay, TypeOK, Goto, Holding
  <2>9. CASE MarkWatchlistReady(j)
    BY <2>9 DEF MarkWatchlistReady, TypeOK, Goto, Holding
  <2>. QED BY <1>3, <2>1, <2>2, <2>3, <2>4, <2>5, <2>6, <2>7, <2>8, <2>9 DEF OnboardingStep
<1>4. ASSUME NEW j \in JobIds, RevalidationStep(j) PROVE LockHeld'
  <2>1. CASE RevalidationBegin(j)
    BY <2>1 DEF RevalidationBegin, TypeOK, Goto, Leave, Holding
  <2>2. CASE RevalidationSymbols(j)
    BY <2>2 DEF RevalidationSymbols, TypeOK, Goto, Holding
  <2>3. CASE RevalidationCancelled(j)
    BY <2>3 DEF RevalidationCancelled, TypeOK, Goto, Leave, Holding
  <2>4. CASE RevalidationDayFails(j)
    BY <2>4 DEF RevalidationDayFails
  <2>5. CASE RevalidationDay(j)
    BY <2>5 DEF RevalidationDay, TypeOK, Goto, Holding
  <2>6. CASE RevalidationCount(j)
    BY <2>6 DEF RevalidationCount, TypeOK, Goto, Holding
  <2>7. CASE RevalidationRebuild(j)
    BY <2>7 DEF RevalidationRebuild, TypeOK, Goto, Holding
  <2>. QED BY <1>4, <2>1, <2>2, <2>3, <2>4, <2>5, <2>6, <2>7 DEF RevalidationStep
<1>5. ASSUME NEW j \in JobIds, Complete(j) \/ RecordFailure(j) PROVE LockHeld'
  BY <1>5 DEF Complete, RecordFailure, TypeOK, Goto, Leave, Holding
<1>6. CASE StartOnboarding \/ RevalidateAllSnapshots
  BY <1>6 DEF StartOnboarding, RevalidateAllSnapshots, TypeOK, Goto, Holding
<1>7. CASE DailyStart \/ DailyStep \/ DailyRaises
  BY <1>7 DEF DailyStart, DailyStep, DailyPersist, DailyWait, DailyAcquire, DailyCompose,
              DailyRaises, NoDaily, MutexFree, TypeOK
<1>8. CASE Crash
  BY <1>8 DEF Crash, NoDaily, Holding
<1>9. ASSUME UNCHANGED <<pc, mutex, daily>> PROVE LockHeld'
  BY <1>9
<1>10. ASSUME Handlers, ~StartOnboarding, ~RevalidateAllSnapshots
       PROVE  UNCHANGED <<pc, mutex, daily>>
  BY <1>10 DEF Handlers, AddToWatchlist, RemoveRead, OnboardingDeferred, RemoveCommit,
               CancelJob, process
<1>11. ASSUME NextTradingDay \/ Boot \/ UNCHANGED vars PROVE UNCHANGED <<pc, mutex, daily>>
  BY <1>11 DEF NextTradingDay, Boot, vars, process
<1>. QED
  BY <1>1, <1>2, <1>3, <1>4, <1>5, <1>6, <1>7, <1>8, <1>9, <1>10, <1>11 DEF Next, RunnerStep

\* The effects a step can have on job i that keep its invariants.
Works(i) == pc[i] \in Holding \ {"entered"}

SameRow(i) ==
    /\ jobs'[i].state = jobs[i].state
    /\ jobs'[i].kind = jobs[i].kind
    /\ jobs'[i].cancel = jobs[i].cancel

Undisturbed(i) ==
    /\ SameRow(i)
    /\ pc'[i] = "idle" <=> pc[i] = "idle"
    /\ Works(i)' => Works(i)

Quiet ==
    /\ up' = up /\ nextJob' = nextJob
    /\ \A i \in JobIds : Undisturbed(i)

Requested(j) ==
    /\ up' = up /\ nextJob' = nextJob /\ pc' = pc
    /\ \A i \in JobIds \ {j} : SameRow(i)
    /\ jobs[j].state # "none"
    /\ jobs'[j].state = jobs[j].state /\ jobs'[j].kind = jobs[j].kind /\ jobs'[j].cancel

Begun(j) ==
    /\ up /\ up' /\ nextJob' = nextJob
    /\ \A i \in JobIds \ {j} : Undisturbed(i)
    /\ jobs[j].state \notin TerminalStates /\ jobs'[j].state = "running"
    /\ jobs'[j].kind = jobs[j].kind /\ jobs'[j].cancel = jobs[j].cancel
    /\ pc[j] # "idle" /\ pc'[j] # "idle"

Ended(j) ==
    /\ up /\ up' /\ nextJob' = nextJob
    /\ \A i \in JobIds \ {j} : Undisturbed(i)
    /\ pc[j] # "idle" /\ pc'[j] = "idle"
    /\ \/ jobs'[j].state = "failed"
       \/ jobs'[j].state = "completed" /\ Works(j)
       \/ jobs'[j].state = "cancelled" /\ Works(j) /\ jobs[j].cancel
       \/ jobs'[j].state = jobs[j].state /\ jobs[j].state \in TerminalStates
    /\ jobs'[j].kind = jobs[j].kind /\ jobs'[j].cancel = jobs[j].cancel

Created(kind) ==
    /\ up /\ up' /\ nextJob' = nextJob + 1
    /\ kind \in {"onboarding", "revalidation"}
    /\ \A i \in JobIds \ {nextJob} : Undisturbed(i)
    /\ nextJob \in JobIds =>
          /\ jobs'[nextJob].state = "pending" /\ jobs'[nextJob].kind = kind
          /\ ~jobs'[nextJob].cancel
          /\ pc'[nextJob] = "queued"
    /\ \A i \in JobIds : Active(i) => kind = "onboarding" /\ jobs[i].kind = "onboarding"

Crashed ==
    /\ ~up' /\ nextJob' = nextJob /\ jobs' = jobs
    /\ \A i \in JobIds : pc'[i] = "idle"

Swept ==
    /\ ~up /\ up' /\ nextJob' = nextJob /\ pc' = pc
    /\ jobs' = OrphanSweep

Effect ==
    \/ Quiet \/ Crashed \/ Swept
    \/ \E j \in JobIds : Requested(j) \/ Begun(j) \/ Ended(j)
    \/ \E kind : Created(kind)

\* Rows are numbered in the order they are inserted.
RowsInOrder == \A j \in JobIds : /\ jobs[j].state = "none" <=> j >= nextJob
                                 /\ jobs[j].state = "none" => ~jobs[j].cancel

\* The part of the state a crash takes with it.
NoThreadWhileDown == ~up => \A j \in JobIds : pc[j] = "idle"

\* A runner past its first transaction works for a job that is running.
WorkIsRunning == \A j \in JobIds : Works(j) => jobs[j].state = "running"

\* A DELETE in flight names a job that exists.
RemovalNamesJob == removal.job \in JobIds => jobs[removal.job].state # "none"

JobInv ==
    /\ TypeOK
    /\ RowsInOrder /\ NoThreadWhileDown /\ JobsMatchThreads /\ WorkIsRunning
    /\ RemovalNamesJob /\ RevalidationRunsAlone

\* update_state writes one field of one row.
LEMMA StateWritten ==
    ASSUME TypeOK, NEW j \in JobIds, NEW s, jobs' = UpdateState(j, s)
    PROVE  /\ \A i \in JobIds \ {j} : SameRow(i)
           /\ jobs'[j].state = s /\ jobs'[j].kind = jobs[j].kind /\ jobs'[j].cancel = jobs[j].cancel
<1>1. jobs[j] \in JobRow
  BY DEF TypeOK
<1>. QED BY <1>1 DEF UpdateState, JobRow, SameRow, TypeOK

\* The first transaction of a revalidation writes the state and total_days.
LEMMA StateAndTotalWritten ==
    ASSUME TypeOK, NEW j \in JobIds, NEW s, NEW n,
           jobs' = [UpdateState(j, s) EXCEPT ![j].total = n]
    PROVE  /\ \A i \in JobIds \ {j} : SameRow(i)
           /\ jobs'[j].state = s /\ jobs'[j].kind = jobs[j].kind /\ jobs'[j].cancel = jobs[j].cancel
<1>1. jobs[j] \in JobRow
  BY DEF TypeOK
<1>. QED BY <1>1 DEF UpdateState, JobRow, SameRow, TypeOK

\* total_days alone.
LEMMA TotalWritten ==
    ASSUME TypeOK, NEW j \in JobIds, NEW n, jobs' = [jobs EXCEPT ![j].total = n]
    PROVE  \A i \in JobIds : SameRow(i)
<1>1. jobs[j] \in JobRow
  BY DEF TypeOK
<1>. QED BY <1>1 DEF JobRow, SameRow, TypeOK

\* increment_progress writes counters only.
LEMMA ProgressWritten ==
    ASSUME TypeOK, NEW j \in JobIds, NEW p, NEW f, jobs' = IncrementProgress(j, p, f)
    PROVE  \A i \in JobIds : SameRow(i)
<1>1. jobs[j] \in JobRow
  BY DEF TypeOK
<1>. QED BY <1>1 DEF IncrementProgress, JobRow, SameRow, TypeOK

\* request_cancel raises one flag and leaves the state alone.
LEMMA CancelWritten ==
    ASSUME TypeOK, NEW j \in JobIds, jobs' = RequestCancel(j)
    PROVE  /\ \A i \in JobIds \ {j} : SameRow(i)
           /\ jobs'[j].state = jobs[j].state /\ jobs'[j].kind = jobs[j].kind /\ jobs'[j].cancel
<1>1. jobs[j] \in JobRow
  BY DEF TypeOK
<1>. QED BY <1>1 DEF RequestCancel, JobRow, SameRow, TypeOK

\* A thread that ends disturbs no other.
LEMMA ThreadEnded ==
    ASSUME TypeOK, NEW j \in JobIds, Goto(j, "idle")
    PROVE  /\ pc'[j] = "idle"
           /\ \A i \in JobIds \ {j} : pc'[i] = pc[i]
  BY DEF Goto, TypeOK

\* The HTTP handlers create rows, raise cancel flags, and nothing else.
LEMMA HandlerEffect ==
    ASSUME JobInv, Handlers
    PROVE  Effect
<1> USE ConstantsAssumption DEF JobInv
<1>1. CASE \E s \in Symbols : AddToWatchlist(s) \/ RemoveRead(s)
  BY <1>1 DEF AddToWatchlist, RemoveRead, Effect, Quiet, Undisturbed, SameRow, Works, db
<1>2. CASE OnboardingDeferred
  BY <1>2 DEF OnboardingDeferred, Effect, Quiet, Undisturbed, SameRow, Works, db
<1>3. CASE StartOnboarding
  <2>1. \A i \in JobIds : Active(i) => jobs[i].kind = "onboarding"
    BY <1>3 DEF StartOnboarding, RevalidationActive, TypeOK, JobRow
  <2>2. Created("onboarding")
    BY <1>3, <2>1 DEF StartOnboarding, NewJob, Goto, Created, Undisturbed, SameRow, Works, TypeOK
  <2>. QED BY <2>2 DEF Effect
<1>4. CASE RevalidateAllSnapshots
  <2>1. \A i \in JobIds : ~Active(i)
    BY <1>4 DEF RevalidateAllSnapshots, NoActiveJob
  <2>2. Created("revalidation")
    BY <1>4, <2>1 DEF RevalidateAllSnapshots, LoopFree, NewJob, Goto, Created, Undisturbed,
                      SameRow, Works, TypeOK
  <2>. QED BY <2>2 DEF Effect
<1>5. CASE RemoveCommit
  <2>1. CASE removal.job = 0
    BY <1>5, <2>1 DEF RemoveCommit, Effect, Quiet, Undisturbed, SameRow, Works
  <2>2. CASE removal.job # 0
    <3>1. removal.job \in JobIds
      BY <2>2 DEF TypeOK
    <3>2. Requested(removal.job)
      BY <1>5, <2>2, <3>1, CancelWritten DEF RemoveCommit, Requested, RemovalNamesJob
    <3>. QED BY <3>1, <3>2 DEF Effect
  <2>. QED BY <2>1, <2>2
<1>6. ASSUME NEW j \in JobIds, CancelJob(j) PROVE Effect
  <2>1. Requested(j)
    BY <1>6, CancelWritten DEF CancelJob, Requested, process, Active, ActiveStates
  <2>. QED BY <2>1 DEF Effect
<1>. QED BY <1>1, <1>2, <1>3, <1>4, <1>5, <1>6 DEF Handlers

\* A runner begins its job, ends it together with its thread, or leaves its
\* state alone.
LEMMA RunnerEffect ==
    ASSUME JobInv, NEW j \in JobIds, RunnerStep(j) \/ RunnerRaises(j)
    PROVE  Quiet \/ Begun(j) \/ Ended(j)
<1> USE DEF JobInv
<1>1. CASE Acquire(j)
  BY <1>1 DEF Acquire, Goto, db, Quiet, Undisturbed, SameRow, Works, TypeOK
<1>2. CASE RunnerRaises(j)
  BY <1>2 DEF RunnerRaises, Goto, db, Quiet, Undisturbed, SameRow, Works, Holding, TypeOK
<1>3. CASE RecordFailure(j)
  <2>1. CASE jobs' = UpdateState(j, "failed") /\ Goto(j, "idle")
    BY <1>3, <2>1, StateWritten, ThreadEnded DEF RecordFailure, Ended, Undisturbed, Works
  <2>2. CASE UNCHANGED jobs /\ Goto(j, "lost")
    BY <1>3, <2>2 DEF RecordFailure, Goto, Quiet, Undisturbed, SameRow, Works, Holding, TypeOK
  <2>. QED BY <1>3, <2>1, <2>2 DEF RecordFailure
<1>4. CASE Complete(j)
  BY <1>4, StateWritten, ThreadEnded DEF Complete, Leave, Ended, Undisturbed, Works, Holding
<1>5. CASE OnboardingBegin(j)
  <2>1. CASE jobs[j].state \in TerminalStates
    BY <1>5, <2>1 DEF OnboardingBegin, Leave, Goto, Ended, Undisturbed, SameRow, Works, TypeOK
  <2>2. CASE jobs[j].state \notin TerminalStates
    <3>1. \A i \in JobIds \ {j} : pc'[i] = pc[i]
      BY <1>5, <2>2 DEF OnboardingBegin, Goto, TypeOK
    <3>. QED BY <1>5, <2>2, <3>1, StateWritten
             DEF OnboardingBegin, Goto, Begun, Undisturbed, Works, TypeOK
  <2>. QED BY <2>1, <2>2
<1>6. CASE ColdStartRead(j)
  BY <1>6 DEF ColdStartRead, Goto, db, Quiet, Undisturbed, SameRow, Works, Holding, TypeOK
<1>7. CASE ColdStartFetched(j)
  BY <1>7 DEF ColdStartFetched, Goto, Quiet, Undisturbed, SameRow, Works, Holding, TypeOK
<1>8. CASE ColdStartAbort(j)
  BY <1>8, StateWritten, ThreadEnded DEF ColdStartAbort, Leave, Ended, Undisturbed, Works
<1>9. CASE FindGaps(j)
  <2>1. \A i \in JobIds : SameRow(i)
    BY <1>9, TotalWritten DEF FindGaps
  <2>. QED BY <1>9, <2>1 DEF FindGaps, Goto, Quiet, Undisturbed, Works, Holding, TypeOK
<1>10. CASE OnboardingCancelled(j)
  BY <1>10, StateWritten, ThreadEnded
  DEF OnboardingCancelled, Leave, Ended, Undisturbed, Works, Holding
<1>11. CASE OnboardingDay(j)
  BY <1>11 DEF OnboardingDay, Goto, Quiet, Undisturbed, SameRow, Works, Holding, TypeOK
<1>12. CASE CountDay(j)
  <2>1. \A i \in JobIds : SameRow(i)
    BY <1>12, ProgressWritten DEF CountDay
  <2>. QED BY <1>12, <2>1 DEF CountDay, Goto, Quiet, Undisturbed, Works, Holding, TypeOK
<1>13. CASE MarkWatchlistReady(j)
  BY <1>13 DEF MarkWatchlistReady, Goto, Quiet, Undisturbed, SameRow, Works, Holding, TypeOK
<1>14. CASE RevalidationBegin(j)
  <2>1. CASE jobs[j].state \in TerminalStates
    BY <1>14, <2>1 DEF RevalidationBegin, Leave, Goto, Ended, Undisturbed, SameRow, Works, TypeOK
  <2>2. CASE jobs[j].state \notin TerminalStates
    <3> DEFINE n == Cardinality(jobs[j].range)
    <3>1. jobs' = [UpdateState(j, "running") EXCEPT ![j].total = n] /\ Goto(j, "symbols")
      BY <1>14, <2>2 DEF RevalidationBegin
    <3>2. /\ \A i \in JobIds \ {j} : SameRow(i)
          /\ jobs'[j].state = "running" /\ jobs'[j].kind = jobs[j].kind
          /\ jobs'[j].cancel = jobs[j].cancel
      BY <3>1, StateAndTotalWritten
    <3>3. pc'[j] # "idle" /\ \A i \in JobIds \ {j} : pc'[i] = pc[i]
      BY <3>1 DEF Goto, TypeOK
    <3>. QED BY <1>14, <2>2, <3>2, <3>3 DEF RevalidationBegin, Begun, Undisturbed, Works
  <2>. QED BY <2>1, <2>2
<1>15. CASE RevalidationSymbols(j)
  BY <1>15 DEF RevalidationSymbols, Goto, db, Quiet, Undisturbed, SameRow, Works, Holding, TypeOK
<1>16. CASE RevalidationCancelled(j)
  BY <1>16, StateWritten, ThreadEnded
  DEF RevalidationCancelled, Leave, Ended, Undisturbed, Works, Holding
<1>17. CASE RevalidationDayFails(j)
  BY <1>17, ProgressWritten DEF RevalidationDayFails, Quiet, Undisturbed, Works
<1>18. CASE RevalidationDay(j)
  BY <1>18 DEF RevalidationDay, Goto, Quiet, Undisturbed, SameRow, Works, Holding, TypeOK
<1>19. CASE RevalidationCount(j)
  <2>1. \A i \in JobIds : SameRow(i)
    BY <1>19, ProgressWritten DEF RevalidationCount
  <2>. QED BY <1>19, <2>1 DEF RevalidationCount, Goto, Quiet, Undisturbed, Works, Holding, TypeOK
<1>20. CASE RevalidationRebuild(j)
  BY <1>20 DEF RevalidationRebuild, Goto, db, Quiet, Undisturbed, SameRow, Works, Holding, TypeOK
<1>. QED
  BY <1>1, <1>2, <1>3, <1>4, <1>5, <1>6, <1>7, <1>8, <1>9, <1>10, <1>11, <1>12, <1>13, <1>14,
     <1>15, <1>16, <1>17, <1>18, <1>19, <1>20
  DEF RunnerStep, OnboardingStep, RevalidationStep

\* Every step has one of the effects.
LEMMA StepEffect ==
    ASSUME JobInv, [Next]_vars
    PROVE  Effect
<1>1. ASSUME UNCHANGED <<jobs, nextJob, up, pc>> PROVE Effect
  BY <1>1 DEF Effect, Quiet, Undisturbed, SameRow, Works
<1>2. CASE Handlers
  BY <1>2, HandlerEffect
<1>3. CASE \E j \in JobIds : RunnerStep(j) \/ RunnerRaises(j)
  BY <1>3, RunnerEffect DEF Effect
<1>4. CASE DailyStart \/ DailyStep \/ DailyRaises
  BY <1>1, <1>4 DEF DailyStart, DailyStep, DailyPersist, DailyWait, DailyAcquire, DailyCompose,
                    DailyRaises, db
<1>5. CASE NextTradingDay \/ UNCHANGED vars
  BY <1>1, <1>5 DEF NextTradingDay, vars, db, process
<1>6. CASE Crash
  BY <1>6 DEF Crash, Crashed, Effect, db
<1>7. CASE Boot
  BY <1>7 DEF Boot, Swept, Effect
<1>. QED BY <1>2, <1>3, <1>4, <1>5, <1>6, <1>7 DEF Next

\* A DELETE only ever remembers a job that was active when it looked.
LEMMA RemovalStep ==
    ASSUME JobInv, [Next]_vars
    PROVE  removal' = removal \/ removal'.job = 0 \/ Active(removal'.job)
<1> USE ConstantsAssumption
<1>1. CASE Handlers
  <2>1. ASSUME NEW s \in Symbols, RemoveRead(s)
        PROVE  removal'.job = 0 \/ Active(removal'.job)
    <3>1. ActiveOf(s) \in SUBSET JobIds
      BY DEF ActiveOf
    <3>2. ActiveOf(s) # {} => Max(ActiveOf(s)) \in ActiveOf(s)
      BY <3>1, MaxIsGreatest, SMTT(20) DEF JobIds
    <3>. QED BY <2>1, <3>2 DEF RemoveRead, ActiveOf
  <2>2. ASSUME RemoveCommit PROVE removal'.job = 0
    BY <2>2 DEF RemoveCommit, NoRemoval
  <2>. QED
    BY <1>1, <2>1, <2>2
    DEF Handlers, AddToWatchlist, OnboardingDeferred, StartOnboarding, RevalidateAllSnapshots,
        CancelJob, process
<1>2. ASSUME NEW j \in JobIds, RunnerStep(j) \/ RunnerRaises(j) PROVE removal' = removal
  BY <1>2 DEF RunnerStep, Acquire, RunnerRaises, RecordFailure, Complete, OnboardingStep,
     OnboardingBegin, ColdStartRead, ColdStartFetched, ColdStartAbort, FindGaps,
     OnboardingCancelled, OnboardingDay, CountDay, MarkWatchlistReady, RevalidationStep,
     RevalidationBegin, RevalidationSymbols, RevalidationCancelled, RevalidationDayFails,
     RevalidationDay, RevalidationCount, RevalidationRebuild
<1>3. CASE DailyStart \/ DailyStep \/ DailyRaises \/ NextTradingDay \/ Boot \/ UNCHANGED vars
  BY <1>3 DEF DailyStart, DailyStep, DailyPersist, DailyWait, DailyAcquire, DailyCompose,
              DailyRaises, NextTradingDay, Boot, vars, process
<1>4. CASE Crash
  BY <1>4 DEF Crash, NoRemoval
<1>. QED BY <1>1, <1>2, <1>3, <1>4 DEF Next

\* The startup sweep, row by row.
LEMMA SweptRows ==
    ASSUME TypeOK, Swept, NEW i \in JobIds
    PROVE  /\ jobs'[i].state = IF Active(i) THEN "failed" ELSE jobs[i].state
           /\ jobs'[i].kind = jobs[i].kind
           /\ jobs'[i].cancel = jobs[i].cancel
<1>1. jobs[i] \in JobRow
  BY DEF TypeOK
<1>. QED BY <1>1 DEF Swept, OrphanSweep, JobRow

\* A row once written stays.
LEMMA RowStays ==
    ASSUME JobInv, Effect, NEW i \in JobIds, jobs[i].state # "none"
    PROVE  jobs'[i].state # "none"
<1>1. i # nextJob
  BY ConstantsAssumption DEF JobInv, RowsInOrder, TypeOK, JobIds
<1>. QED
  BY <1>1, SweptRows
  DEF JobInv, Effect, Quiet, Undisturbed, SameRow, Crashed, Requested, Begun, Ended, Created,
      TerminalStates

\* Each effect keeps the rows and the threads in step.
LEMMA JobInvStep ==
    ASSUME JobInv, TypeOK', [Next]_vars
    PROVE  JobInv'
<1> USE ConstantsAssumption DEF JobInv
<1>1. Effect
  BY StepEffect
<1>2. (RowsInOrder /\ NoThreadWhileDown /\ JobsMatchThreads /\ WorkIsRunning
         /\ RevalidationRunsAlone)'
  <2> USE DEF RowsInOrder, NoThreadWhileDown, JobsMatchThreads, WorkIsRunning,
              RevalidationRunsAlone, Active, ActiveStates, TerminalStates
  <2>1. CASE Quiet
    BY <2>1 DEF Quiet, Undisturbed, SameRow
  <2>2. CASE Crashed
    BY <2>2 DEF Crashed, Works, Holding
  <2>3. CASE Swept
    <3>1. \A i \in JobIds : pc'[i] = "idle"
      BY <2>3 DEF Swept
    <3>. QED BY <2>3, <3>1, SweptRows DEF Swept, Works, Holding
  <2>4. ASSUME NEW j \in JobIds, Requested(j)
        PROVE  (RowsInOrder /\ NoThreadWhileDown /\ JobsMatchThreads /\ WorkIsRunning
                  /\ RevalidationRunsAlone)'
    BY <2>4 DEF Requested, SameRow, Works
  <2>5. ASSUME NEW j \in JobIds, Begun(j)
        PROVE  (RowsInOrder /\ NoThreadWhileDown /\ JobsMatchThreads /\ WorkIsRunning
                  /\ RevalidationRunsAlone)'
    BY <2>5 DEF Begun, Undisturbed, SameRow, Works
  <2>6. ASSUME NEW j \in JobIds, Ended(j)
        PROVE  (RowsInOrder /\ NoThreadWhileDown /\ JobsMatchThreads /\ WorkIsRunning
                  /\ RevalidationRunsAlone)'
    BY <2>6 DEF Ended, Undisturbed, SameRow, Works, Holding
  <2>7. ASSUME NEW kind, Created(kind)
        PROVE  (RowsInOrder /\ NoThreadWhileDown /\ JobsMatchThreads /\ WorkIsRunning
                  /\ RevalidationRunsAlone)'
    <3>1. RowsInOrder'
      <4>1. nextJob \in Nat /\ nextJob' = nextJob + 1 /\ JobIds \in SUBSET Nat
        BY <2>7 DEF Created, TypeOK, JobIds
      <4>2. ASSUME NEW i \in JobIds, i # nextJob
            PROVE  /\ jobs'[i].state = "none" <=> i >= nextJob'
                   /\ jobs'[i].state = "none" => ~jobs'[i].cancel
        <5>1. jobs'[i].state = jobs[i].state /\ jobs'[i].cancel = jobs[i].cancel
          BY <2>7, <4>2 DEF Created, Undisturbed, SameRow
        <5>2. i >= nextJob <=> i >= nextJob'
          BY <4>1, <4>2
        <5>. QED BY <4>2, <5>1, <5>2
      <4>3. nextJob \in JobIds => jobs'[nextJob].state # "none" /\ ~(nextJob >= nextJob')
        BY <2>7, <4>1 DEF Created
      <4>. QED BY <4>2, <4>3
    <3>2. (NoThreadWhileDown /\ WorkIsRunning)'
      BY <2>7 DEF Created, Undisturbed, SameRow, Works, Holding
    <3>3. JobsMatchThreads'
      BY <2>7 DEF Created, Undisturbed, SameRow
    <3>4. RevalidationRunsAlone'
      BY <2>7 DEF Created, Undisturbed, SameRow
    <3>. QED BY <3>1, <3>2, <3>3, <3>4
  <2>. QED BY <1>1, <2>1, <2>2, <2>3, <2>4, <2>5, <2>6, <2>7 DEF Effect
<1>3. RemovalNamesJob'
  <2>1. \A i \in JobIds : Active(i) => jobs[i].state # "none"
    BY DEF Active, ActiveStates
  <2>2. 0 \notin JobIds
    BY DEF JobIds
  <2>. QED BY <1>1, <2>1, <2>2, RemovalStep, RowStays DEF RemovalNamesJob
<1>. QED BY <1>2, <1>3

-----------------------------------------------------------------------------
(* The theorems *)

\* Nobody touches snapshot rows while somebody else does, for any number of
\* jobs, tickers, updates, exceptions and restarts.
THEOREM SnapshotWritersExclude == Spec => []OneSnapshotWriter
<1>1. Init => LockHeld
  BY DEF Init, LockHeld, Holding, NoDaily
<1>2. LockHeld => OneSnapshotWriter
  BY ConstantsAssumption DEF LockHeld, OneSnapshotWriter, Writers
<1>3. TypeOK /\ LockHeld /\ [Next]_vars => LockHeld'
  BY LockStep
<1>. QED BY TypeCorrect, <1>1, <1>2, <1>3, PTL DEF Spec

\* The rows and the threads agree in every reachable state.
LEMMA JobInvHolds == Spec => []JobInv
<1>1. Init /\ TypeOK => JobInv
  <2> SUFFICES ASSUME Init, TypeOK PROVE JobInv
    OBVIOUS
  <2>1. \A j \in JobIds : jobs[j].state = "none" /\ ~jobs[j].cancel /\ pc[j] = "idle" /\ j >= nextJob
    BY ConstantsAssumption DEF Init, JobIds
  <2>2. removal.job = 0
    BY DEF Init, NoRemoval
  <2>. QED
    BY <2>1, <2>2 DEF Init, JobInv, RowsInOrder, NoThreadWhileDown, JobsMatchThreads, Works,
       WorkIsRunning, RemovalNamesJob, RevalidationRunsAlone, Active, ActiveStates, JobIds, Holding
<1>2. JobInv /\ TypeOK' /\ [Next]_vars => JobInv'
  BY JobInvStep
<1>. QED BY TypeCorrect, <1>1, <1>2, PTL DEF Spec

\* A revalidation is never active beside another job (the guards of
\* revalidate_all_snapshots and SymbolOnboardingService.start together).
THEOREM RevalidationExcludes == Spec => []RevalidationRunsAlone
<1>1. JobInv => RevalidationRunsAlone
  BY DEF JobInv
<1>. QED BY JobInvHolds, <1>1, PTL

\* While the process serves, an active row has a thread and a thread an
\* active row, across exceptions, restarts and the startup sweep.
THEOREM NoOrphanBlocksTheBoard == Spec => []JobsMatchThreads
<1>1. JobInv => JobsMatchThreads
  BY DEF JobInv
<1>. QED BY JobInvHolds, <1>1, PTL

\* No effect rewrites the state of a finished job.
LEMMA FinishedStep ==
    ASSUME JobInv, Effect, NEW j \in JobIds, jobs[j].state \in TerminalStates
    PROVE  jobs'[j].state = jobs[j].state
<1>1. j # nextJob /\ ~Active(j)
  BY ConstantsAssumption
  DEF JobInv, RowsInOrder, TypeOK, JobIds, Active, ActiveStates, TerminalStates
<1>2. up => pc[j] = "idle"
  BY <1>1 DEF JobInv, JobsMatchThreads
<1>. QED
  BY <1>1, <1>2, SweptRows
  DEF JobInv, Effect, Quiet, Undisturbed, SameRow, Crashed, Requested, Begun, Ended, Created

\* A job that completed, failed or was cancelled keeps that state for ever.
THEOREM TerminalStatesAreFinal == Spec => FinishedJobsStayFinished
<1>1. JobInv /\ [Next]_vars =>
        [\A j \in JobIds : jobs[j].state \in TerminalStates => jobs'[j].state = jobs[j].state]_vars
  BY StepEffect, FinishedStep
<1>. QED BY JobInvHolds, <1>1, PTL DEF Spec, FinishedJobsStayFinished

-----------------------------------------------------------------------------
(* The rows of backfill_job implement the job board *)

\* Every effect is a step of the job board or leaves it alone.
LEMMA BoardStep ==
    ASSUME JobInv, TypeOK', Effect
    PROVE  [Board!Next]_(Board!boardVars)
<1> USE ConstantsAssumption DEF JobInv
<1>1. CASE Quiet \/ Crashed
  BY <1>1 DEF Quiet, Undisturbed, SameRow, Crashed, Board!boardVars
<1>2. CASE Swept
  <2>1. Board!Restart
    BY <1>2, SweptRows DEF Board!Restart, Board!Live, Active, ActiveStates
  <2>. QED BY <2>1 DEF Board!Next
<1>3. ASSUME NEW j \in JobIds, Requested(j) PROVE Board!RequestCancel(j)
  BY <1>3 DEF Requested, SameRow, Board!RequestCancel
<1>4. ASSUME NEW j \in JobIds, Begun(j) PROVE Board!Start(j) \/ UNCHANGED Board!boardVars
  <2>1. Active(j)
    BY <1>4 DEF Begun, JobsMatchThreads
  <2>2. CASE jobs[j].state = "pending"
    BY <1>4, <2>2 DEF Begun, Undisturbed, SameRow, Board!Start
  <2>3. CASE jobs[j].state = "running"
    BY <1>4, <2>3 DEF Begun, Undisturbed, SameRow, Board!boardVars
  <2>. QED BY <2>1, <2>2, <2>3 DEF Active, ActiveStates
<1>5. ASSUME NEW j \in JobIds, Ended(j) PROVE Board!End(j)
  <2>1. Active(j)
    BY <1>5 DEF Ended, JobsMatchThreads
  <2>2. /\ [i \in JobIds |-> jobs'[i].kind] = [i \in JobIds |-> jobs[i].kind]
        /\ [i \in JobIds |-> jobs'[i].cancel] = [i \in JobIds |-> jobs[i].cancel]
    BY <1>5 DEF Ended, Undisturbed, SameRow
  <2>3. [i \in JobIds |-> jobs'[i].state] =
          [[i \in JobIds |-> jobs[i].state] EXCEPT ![j] = jobs'[j].state]
    BY <1>5 DEF Ended, Undisturbed, SameRow
  <2>4. \/ jobs'[j].state = "failed"
        \/ jobs'[j].state = "completed" /\ jobs[j].state = "running"
        \/ jobs'[j].state = "cancelled" /\ jobs[j].state = "running" /\ jobs[j].cancel
    BY <1>5, <2>1 DEF Ended, WorkIsRunning, Active, ActiveStates, TerminalStates
  <2>. QED BY <2>1, <2>2, <2>3, <2>4 DEF Board!End, Board!Live, Active, ActiveStates
<1>6. ASSUME NEW kind, Created(kind)
      PROVE  (\E j \in JobIds : Board!Create(j, kind)) \/ UNCHANGED Board!boardVars
  <2>1. CASE nextJob \in JobIds
    <3>1. jobs[nextJob].state = "none" /\ ~jobs[nextJob].cancel
      BY <2>1 DEF RowsInOrder, TypeOK
    <3>2. jobs[nextJob].cancel \in BOOLEAN /\ jobs'[nextJob].cancel \in BOOLEAN
      BY <2>1 DEF TypeOK, JobRow
    <3>3. [i \in JobIds |-> jobs'[i].cancel] = [i \in JobIds |-> jobs[i].cancel]
      BY <1>6, <2>1, <3>1, <3>2 DEF Created, Undisturbed, SameRow
    <3>4. /\ [i \in JobIds |-> jobs'[i].state] =
               [[i \in JobIds |-> jobs[i].state] EXCEPT ![nextJob] = "pending"]
          /\ [i \in JobIds |-> jobs'[i].kind] =
               [[i \in JobIds |-> jobs[i].kind] EXCEPT ![nextJob] = kind]
      BY <1>6, <2>1 DEF Created, Undisturbed, SameRow
    <3>. QED BY <1>6, <2>1, <3>1, <3>3, <3>4 DEF Created, Board!Create, Board!Live, Active, ActiveStates
  <2>2. CASE nextJob \notin JobIds
    BY <1>6, <2>2 DEF Created, Undisturbed, SameRow, Board!boardVars
  <2>. QED BY <2>1, <2>2
<1>7. ASSUME NEW kind, Created(kind) PROVE kind \in {"onboarding", "revalidation"}
  BY <1>7 DEF Created
<1>. QED BY <1>1, <1>2, <1>3, <1>4, <1>5, <1>6, <1>7 DEF Effect, Board!Next

\* The two services, the handlers and the startup sweep together keep every
\* promise of the job board, whatever interleaves and wherever it crashes.
THEOREM JobsImplementBoard == Spec => ImplementsJobBoard
<1>1. Init => Board!Init
  BY DEF Init, Board!Init
<1>2. JobInv /\ TypeOK' /\ [Next]_vars => [Board!Next]_(Board!boardVars)
  BY StepEffect, BoardStep
<1>. QED BY TypeCorrect, JobInvHolds, <1>1, <1>2, PTL DEF Spec, ImplementsJobBoard, Board!Spec
-----------------------------------------------------------------------------
(* The counts a client polls, and what a finished onboarding leaves behind *)

\* The days counted so far.
Tally(i) == jobs[i].processed + jobs[i].failed

\* Between the start and the end of its loop a runner has counted the days it
\* no longer has before it, except for the day it has just worked on.
Counted(i) ==
    /\ pc[i] \in {"queued", "entered", "cold", "fetch", "abort", "gaps"} =>
          Tally(i) = 0 /\ jobs[i].total = 0
    /\ pc[i] \in {"symbols", "recompute", "day"} =>
          Tally(i) + Cardinality(todo[i]) = jobs[i].total
    /\ pc[i] \in {"dayok", "daybad", "recomputed"} =>
          Tally(i) + Cardinality(todo[i]) + 1 = jobs[i].total
    /\ pc[i] = "finish" => Tally(i) = jobs[i].total
    /\ Tally(i) <= jobs[i].total
    /\ jobs[i].state = "completed" => Tally(i) = jobs[i].total

\* Which of the two services a runner's location belongs to.
KindFits(i) ==
    /\ pc[i] \in {"cold", "fetch", "abort", "gaps", "day", "dayok", "daybad"} =>
          jobs[i].kind = "onboarding"
    /\ pc[i] \in {"symbols", "recompute", "recomputed"} => jobs[i].kind = "revalidation"
    /\ jobs[i].state # "none" /\ jobs[i].kind = "onboarding" => jobs[i].symbol \in Symbols

\* The market dates a ticker has prices for and no row.
Holes(i) == (market \cap Priced(Sym(i))) \ ticker[Sym(i)]

\* An onboarding that has failed on no day has all the holes before it.
Covers(i) ==
    jobs[i].kind = "onboarding" /\ jobs[i].failed = 0 =>
        /\ pc[i] \in {"day", "dayok"} => Holes(i) \subseteq todo[i]
        /\ pc[i] = "finish" => Holes(i) = {}

Books == \A i \in JobIds : Counted(i) /\ KindFits(i) /\ Covers(i)

\* The rest of a step leaves job i's counts, location and days alone.
Kept(i) ==
    /\ jobs'[i].kind = jobs[i].kind /\ jobs'[i].symbol = jobs[i].symbol
    /\ jobs'[i].total = jobs[i].total
    /\ jobs'[i].processed = jobs[i].processed /\ jobs'[i].failed = jobs[i].failed
    /\ jobs'[i].state = "completed" => jobs[i].state = "completed"
    /\ jobs'[i].state # "none" => jobs[i].state # "none"
    /\ pc'[i] \in {pc[i], "idle", "unhandled", "lost"}
    /\ pc'[i] \in Holding => todo'[i] = todo[i]
    /\ pc[i] \in Holding => UNCHANGED <<market, ticker>>

\* What a step keeps of a job stays true of it.
LEMMA KeptBooks ==
    ASSUME TypeOK, NEW i \in JobIds, Counted(i), KindFits(i), Covers(i), Kept(i)
    PROVE  (Counted(i) /\ KindFits(i) /\ Covers(i))'
<1> USE DEF Kept
<1>1. Counted(i)'
  BY DEF Counted, Tally, Holding
<1>2. KindFits(i)'
  BY DEF KindFits
<1>3. Covers(i)'
  <2>1. CASE pc[i] \in Holding
    <3>1. Holes(i)' = Holes(i)
      BY <2>1 DEF Holes, Sym, Priced
    <3>. QED BY <3>1 DEF Covers, Holding
  <2>2. CASE pc[i] \notin Holding
    BY <2>2 DEF Covers, Holding
  <2>. QED BY <2>1, <2>2
<1>. QED BY <1>1, <1>2, <1>3

\* A runner never touches another job, and under the mutex no other snapshot.
LEMMA RunnerKeepsOthers ==
    ASSUME TypeOK, LockHeld, NEW k \in JobIds, RunnerStep(k) \/ RunnerRaises(k),
           NEW i \in JobIds, i # k
    PROVE  Kept(i)
<1> USE ConstantsAssumption
<1>1. ASSUME jobs'[i] = jobs[i], pc'[i] = pc[i], todo'[i] = todo[i],
             UNCHANGED <<market, ticker>> \/ pc[k] \in Holding
      PROVE  Kept(i)
  BY <1>1 DEF Kept, LockHeld
<1>2. \A s : jobs' = UpdateState(k, s) => jobs'[i] = jobs[i]
  BY DEF UpdateState, TypeOK
<1>3. \A l : Goto(k, l) => pc'[i] = pc[i]
  BY DEF Goto, TypeOK
<1>4. Forget(k) => todo'[i] = todo[i]
  BY DEF Forget, TypeOK
<1>5. CASE Acquire(k) \/ RunnerRaises(k) \/ RecordFailure(k) \/ Complete(k)
  BY <1>5, <1>1, <1>2, <1>3, <1>4 DEF Acquire, RunnerRaises, RecordFailure, Complete, Leave, db
<1>6. CASE OnboardingStep(k)
  <2>1. CASE OnboardingBegin(k) \/ ColdStartRead(k) \/ ColdStartFetched(k) \/ ColdStartAbort(k)
              \/ OnboardingCancelled(k)
    BY <2>1, <1>1, <1>2, <1>3, <1>4
    DEF OnboardingBegin, ColdStartRead, ColdStartFetched, ColdStartAbort, OnboardingCancelled,
        Leave, db
  <2>2. CASE FindGaps(k)
    <3>1. jobs'[i] = jobs[i] /\ todo'[i] = todo[i]
      BY <2>2 DEF FindGaps, TypeOK
    <3>. QED BY <2>2, <3>1, <1>1, <1>3 DEF FindGaps
  <2>3. CASE OnboardingDay(k)
    <3>1. todo'[i] = todo[i]
      BY <2>3 DEF OnboardingDay, TypeOK
    <3>. QED BY <2>3, <3>1, <1>1, <1>3 DEF OnboardingDay, Holding
  <2>4. CASE CountDay(k)
    <3>1. jobs'[i] = jobs[i]
      BY <2>4 DEF CountDay, IncrementProgress, TypeOK
    <3>. QED BY <2>4, <3>1, <1>1, <1>3 DEF CountDay
  <2>5. CASE MarkWatchlistReady(k)
    BY <2>5, <1>1, <1>3 DEF MarkWatchlistReady
  <2>. QED BY <1>6, <2>1, <2>2, <2>3, <2>4, <2>5 DEF OnboardingStep
<1>7. CASE RevalidationStep(k)
  <2>1. CASE RevalidationBegin(k)
    <3>1. jobs'[i] = jobs[i] /\ todo'[i] = todo[i]
      BY <2>1, <1>4 DEF RevalidationBegin, Leave, UpdateState, TypeOK
    <3>. QED BY <2>1, <3>1, <1>1, <1>3 DEF RevalidationBegin, Leave
  <2>2. CASE RevalidationSymbols(k) \/ RevalidationCancelled(k) \/ RevalidationRebuild(k)
    BY <2>2, <1>1, <1>2, <1>3, <1>4
    DEF RevalidationSymbols, RevalidationCancelled, RevalidationRebuild, Leave, db
  <2>3. CASE RevalidationDayFails(k)
    <3>1. jobs'[i] = jobs[i] /\ todo'[i] = todo[i]
      BY <2>3 DEF RevalidationDayFails, IncrementProgress, TypeOK
    <3>. QED BY <2>3, <3>1, <1>1 DEF RevalidationDayFails
  <2>4. CASE RevalidationDay(k)
    <3>1. todo'[i] = todo[i] /\ jobs' = jobs /\ pc[k] \in Holding /\ Goto(k, "recomputed")
      BY <2>4 DEF RevalidationDay, TypeOK, Holding
    <3>. QED BY <3>1, <1>1, <1>3
  <2>5. CASE RevalidationCount(k)
    <3>1. jobs'[i] = jobs[i]
      BY <2>5 DEF RevalidationCount, IncrementProgress, TypeOK
    <3>. QED BY <2>5, <3>1, <1>1, <1>3 DEF RevalidationCount
  <2>. QED BY <1>7, <2>1, <2>2, <2>3, <2>4, <2>5 DEF RevalidationStep
<1>. QED BY <1>5, <1>6, <1>7 DEF RunnerStep

\* Requests, updates, the calendar, crashes and restarts keep every job but
\* the one a request creates.
LEMMA OthersKeepJobs ==
    ASSUME JobInv, LockHeld, [Next]_vars, NEW i \in JobIds,
           \A k \in JobIds : ~RunnerStep(k) /\ ~RunnerRaises(k),
           ~StartOnboarding /\ ~RevalidateAllSnapshots
    PROVE  Kept(i)
<1> USE ConstantsAssumption DEF JobInv
<1>1. ASSUME UNCHANGED <<jobs, pc, todo>>, UNCHANGED <<market, ticker>> \/ daily.at = "composing"
      PROVE  Kept(i)
  BY <1>1 DEF Kept, LockHeld
<1>2. CASE Handlers
  <2>1. ASSUME NEW j \in JobIds, jobs' = RequestCancel(j), UNCHANGED <<pc, todo, market, ticker>>
        PROVE  Kept(i)
    <3>1. jobs[i] \in JobRow /\ jobs[j] \in JobRow
      BY DEF TypeOK
    <3>2. /\ jobs'[i].kind = jobs[i].kind /\ jobs'[i].symbol = jobs[i].symbol
          /\ jobs'[i].total = jobs[i].total /\ jobs'[i].state = jobs[i].state
          /\ jobs'[i].processed = jobs[i].processed /\ jobs'[i].failed = jobs[i].failed
      BY <2>1, <3>1 DEF RequestCancel, JobRow, TypeOK
    <3>. QED BY <2>1, <3>2 DEF Kept
  <2>2. ASSUME NEW j \in JobIds, CancelJob(j) PROVE Kept(i)
    BY <2>1, <2>2 DEF CancelJob, process
  <2>3. CASE RemoveCommit
    <3>1. removal.job \in JobIds \cup {0}
      BY DEF TypeOK
    <3>. QED BY <1>1, <2>1, <2>3, <3>1 DEF RemoveCommit
  <2>4. CASE OnboardingDeferred \/ \E s \in Symbols : AddToWatchlist(s) \/ RemoveRead(s)
    BY <1>1, <2>4 DEF OnboardingDeferred, AddToWatchlist, RemoveRead, db
  <2>. QED BY <1>2, <2>2, <2>3, <2>4 DEF Handlers
<1>3. CASE DailyStart \/ DailyStep \/ DailyRaises \/ NextTradingDay \/ UNCHANGED vars
  BY <1>1, <1>3 DEF DailyStart, DailyStep, DailyPersist, DailyWait, DailyAcquire, DailyCompose,
                    DailyRaises, NextTradingDay, vars, db, process
<1>4. CASE Crash
  BY <1>4 DEF Crash, Kept, Holding, db
<1>5. CASE Boot
  <2>1. jobs[i] \in JobRow
    BY DEF TypeOK
  <2>2. /\ jobs'[i].kind = jobs[i].kind /\ jobs'[i].symbol = jobs[i].symbol
        /\ jobs'[i].total = jobs[i].total
        /\ jobs'[i].processed = jobs[i].processed /\ jobs'[i].failed = jobs[i].failed
        /\ jobs'[i].state = "completed" => jobs[i].state = "completed"
        /\ jobs'[i].state # "none" => jobs[i].state # "none"
    BY <1>5, <2>1 DEF Boot, OrphanSweep, Active, ActiveStates, JobRow
  <2>. QED BY <1>5, <2>2 DEF Boot, Kept
<1>. QED BY <1>2, <1>3, <1>4, <1>5 DEF Next

\* A request that creates a job starts its counts from nothing.
LEMMA CreationKeepsBooks ==
    ASSUME JobInv, Books, StartOnboarding \/ RevalidateAllSnapshots
    PROVE  Books'
<1> USE ConstantsAssumption DEF JobInv, Books
<1>1. PICK kind, s, range :
        /\ kind \in {"onboarding", "revalidation"} /\ s \in Symbols \cup {NoOne}
        /\ jobs' = NewJob(kind, s, range) /\ Goto(nextJob, "queued")
        /\ kind = "onboarding" => s \in Symbols
        /\ UNCHANGED <<todo, market, ticker>>
  <2>1. CASE StartOnboarding
    BY <2>1 DEF StartOnboarding, TypeOK
  <2>2. CASE RevalidateAllSnapshots
    BY <2>2 DEF RevalidateAllSnapshots
  <2>. QED BY <2>1, <2>2
<1>2. ASSUME NEW i \in JobIds, i # nextJob PROVE (Counted(i) /\ KindFits(i) /\ Covers(i))'
  <2>1. jobs'[i] = jobs[i] /\ pc'[i] = pc[i]
    BY <1>1, <1>2 DEF NewJob, Goto, TypeOK
  <2>2. Kept(i)
    BY <1>1, <2>1 DEF Kept
  <2>. QED BY <2>2, KeptBooks
<1>3. ASSUME NEW i \in JobIds, i = nextJob PROVE (Counted(i) /\ KindFits(i) /\ Covers(i))'
  <2>1. /\ jobs'[i].state = "pending" /\ jobs'[i].kind = kind /\ jobs'[i].symbol = s
        /\ jobs'[i].total = 0 /\ jobs'[i].processed = 0 /\ jobs'[i].failed = 0
        /\ pc'[i] = "queued"
    BY <1>1, <1>3 DEF NewJob, Goto, TypeOK
  <2>2. Tally(i)' = 0
    BY <2>1 DEF Tally
  <2>3. Counted(i)'
    BY <2>1, <2>2 DEF Counted
  <2>4. KindFits(i)' /\ Covers(i)'
    BY <1>1, <2>1 DEF KindFits, Covers
  <2>. QED BY <2>3, <2>4
<1>. QED BY <1>2, <1>3

\* increment_progress adds to the two counters of its row.
LEMMA ProgressCounted ==
    ASSUME TypeOK, NEW j \in JobIds, NEW p, NEW f, jobs' = IncrementProgress(j, p, f)
    PROVE  /\ jobs'[j].processed = jobs[j].processed + p
           /\ jobs'[j].failed = jobs[j].failed + f
           /\ jobs'[j].total = jobs[j].total /\ jobs'[j].state = jobs[j].state
           /\ jobs'[j].kind = jobs[j].kind /\ jobs'[j].symbol = jobs[j].symbol
<1>1. jobs[j] \in JobRow
  BY DEF TypeOK
<1>. QED BY <1>1 DEF IncrementProgress, JobRow, TypeOK

\* update_state leaves the counters of its row alone.
LEMMA StateNotCounted ==
    ASSUME TypeOK, NEW j \in JobIds, NEW s, jobs' = UpdateState(j, s)
    PROVE  /\ jobs'[j].processed = jobs[j].processed /\ jobs'[j].failed = jobs[j].failed
           /\ jobs'[j].total = jobs[j].total /\ jobs'[j].state = s
           /\ jobs'[j].kind = jobs[j].kind /\ jobs'[j].symbol = jobs[j].symbol
<1>1. jobs[j] \in JobRow
  BY DEF TypeOK
<1>. QED BY <1>1 DEF UpdateState, JobRow, TypeOK

\* A day visited is one day less to visit.
LEMMA DayVisited ==
    ASSUME NEW D \in SUBSET Days, D # {}
    PROVE  /\ Cardinality(D) \in Nat /\ Cardinality(D \ {Min(D)}) \in Nat
           /\ Cardinality(D) = Cardinality(D \ {Min(D)}) + 1
<1>1. Min(D) \in D /\ IsFiniteSet(D) /\ Cardinality(D) \in Nat
  BY LeastDay, CountOfDays
<1>2. Cardinality(D \ {Min(D)}) = Cardinality(D) - 1
  BY <1>1, FS_RemoveElement
<1>3. Cardinality(D \ {Min(D)}) \in Nat
  BY CountOfDays
<1>. QED BY <1>1, <1>2, <1>3

\* Each step of a runner keeps its own books: what it counts is what it has
\* stopped having before it, and what it stops having before it is no hole.
LEMMA RunnerKeepsBooks ==
    ASSUME JobInv, TypeOK', Books, NEW j \in JobIds, RunnerStep(j) \/ RunnerRaises(j)
    PROVE  (Counted(j) /\ KindFits(j) /\ Covers(j))'
<1> USE ConstantsAssumption DEF JobInv
<1>1. /\ jobs[j] \in JobRow /\ todo[j] \in SUBSET Days /\ pc[j] \in Locations
      /\ jobs[j].processed \in Nat /\ jobs[j].failed \in Nat /\ jobs[j].total \in Nat
  BY DEF TypeOK, JobRow
<1>2. Counted(j) /\ KindFits(j) /\ Covers(j)
  BY DEF Books
<1>3. Cardinality(todo[j]) \in Nat /\ (todo[j] = {} => Cardinality(todo[j]) = 0)
  BY <1>1, CountOfDays, FS_EmptySet
<1>4. pc[j] \in Holding \ {"entered"} => jobs[j].state = "running"
  BY DEF WorkIsRunning, Works
<1>5. up /\ pc[j] # "idle" => jobs[j].state \in ActiveStates
  BY DEF JobsMatchThreads, Active
<1>6. \A l : Goto(j, l) => pc'[j] = l
  BY DEF Goto, TypeOK
<1>7. ASSUME Kept(j) PROVE (Counted(j) /\ KindFits(j) /\ Covers(j))'
  BY <1>7, <1>2, KeptBooks
<1>8. ASSUME UNCHANGED <<market, ticker>>, pc'[j] \in {"idle", "unhandled", "lost"},
             \/ UNCHANGED jobs
             \/ \E s \in {"failed", "cancelled"} : jobs' = UpdateState(j, s) /\ jobs[j].state # "none"
      PROVE  Kept(j)
  BY <1>8, StateNotCounted DEF Kept, Holding
<1>9. CASE Acquire(j)
  BY <1>9, <1>2, <1>6 DEF Acquire, db, Counted, Tally, KindFits, Covers
<1>10. CASE RunnerRaises(j)
  BY <1>10, <1>6, <1>7, <1>8 DEF RunnerRaises, db
<1>11. CASE RecordFailure(j)
  <2>1. jobs[j].state # "none"
    BY <1>11, <1>5 DEF RecordFailure, ActiveStates
  <2>. QED BY <1>11, <2>1, <1>6, <1>7, <1>8 DEF RecordFailure
<1>12. CASE Complete(j)
  <2>1. /\ pc'[j] = "idle" /\ pc[j] = "finish" /\ jobs' = UpdateState(j, "completed")
    BY <1>12, <1>6 DEF Complete, Leave
  <2>2. Counted(j)'
    BY <2>1, <1>2, StateNotCounted DEF Counted, Tally
  <2>3. KindFits(j)' /\ Covers(j)'
    BY <2>1, <1>2, <1>4, StateNotCounted DEF KindFits, Covers, Holding
  <2>. QED BY <2>2, <2>3
<1>13. CASE OnboardingStep(j)
  <2>1. CASE OnboardingBegin(j)
    <3>1. jobs[j].state \notin TerminalStates /\ jobs[j].state # "none"
      BY <2>1, <1>5 DEF OnboardingBegin, ActiveStates, TerminalStates
    <3>2. /\ jobs' = UpdateState(j, "running") /\ pc'[j] = "cold" /\ pc[j] = "entered"
          /\ jobs[j].kind = "onboarding"
      BY <2>1, <3>1, <1>6 DEF OnboardingBegin
    <3>3. Counted(j)'
      BY <3>2, <1>2, StateNotCounted DEF Counted, Tally
    <3>4. KindFits(j)' /\ Covers(j)'
      BY <3>1, <3>2, <1>2, StateNotCounted DEF KindFits, Covers
    <3>. QED BY <3>3, <3>4
  <2>2. CASE ColdStartRead(j)
    <3>1. pc[j] = "cold" /\ jobs' = jobs /\ pc'[j] \in {"abort", "gaps", "fetch"}
      BY <2>2, <1>6 DEF ColdStartRead, db
    <3>. QED BY <3>1, <1>2 DEF Counted, Tally, KindFits, Covers
  <2>3. CASE ColdStartFetched(j)
    <3>1. pc[j] = "fetch" /\ jobs' = jobs /\ pc'[j] \in {"abort", "gaps"}
      BY <2>3, <1>6 DEF ColdStartFetched
    <3>. QED BY <3>1, <1>2 DEF Counted, Tally, KindFits, Covers
  <2>4. CASE ColdStartAbort(j)
    BY <2>4, <1>4, <1>6, <1>7, <1>8 DEF ColdStartAbort, Leave, Holding
  <2>5. CASE FindGaps(j)
    <3> DEFINE G == market \ ticker[Sym(j)]
    <3>1. /\ pc[j] = "gaps" /\ pc'[j] = "day" /\ todo'[j] = G /\ UNCHANGED <<market, ticker>>
      BY <2>5, <1>6 DEF FindGaps, TypeOK
    <3>2. /\ jobs'[j].processed = jobs[j].processed /\ jobs'[j].failed = jobs[j].failed
          /\ jobs'[j].total = Cardinality(G) /\ jobs'[j].state = jobs[j].state
          /\ jobs'[j].kind = jobs[j].kind /\ jobs'[j].symbol = jobs[j].symbol
      BY <2>5, <1>1 DEF FindGaps, JobRow, TypeOK
    <3>3. G \in SUBSET Days
      BY DEF TypeOK
    <3>4. Cardinality(G) \in Nat
      BY <3>3, CountOfDays
    <3>5. Counted(j)'
      BY <3>1, <3>2, <3>4, <1>1, <1>2, <1>4 DEF Counted, Tally, Holding
    <3>6. KindFits(j)'
      BY <3>1, <3>2, <1>2 DEF KindFits
    <3>7. Holes(j)' \subseteq todo'[j]
      BY <3>1, <3>2 DEF Holes, Sym, Priced
    <3>. QED BY <3>1, <3>5, <3>6, <3>7 DEF Covers
  <2>6. CASE OnboardingCancelled(j)
    BY <2>6, <1>4, <1>6, <1>7, <1>8 DEF OnboardingCancelled, Leave, Holding
  <2>7. CASE OnboardingDay(j)
    <3> DEFINE d == Min(todo[j])
    <3>1. /\ pc[j] = "day" /\ todo[j] # {} /\ jobs' = jobs /\ market' = market
          /\ todo'[j] = todo[j] \ {d}
          /\ \/ /\ pc'[j] = "dayok" /\ d \in market
                /\ ticker' = [ticker EXCEPT ![Sym(j)] = @ \cup ({d} \cap Priced(Sym(j)))]
             \/ pc'[j] = "daybad"
      BY <2>7, <1>6 DEF OnboardingDay, TypeOK
    <3>2. Counted(j)'
      <4>1. Cardinality(todo'[j]) \in Nat /\ Cardinality(todo[j]) = Cardinality(todo'[j]) + 1
        BY <3>1, <1>1, DayVisited
      <4>. QED BY <3>1, <4>1, <1>1, <1>2, <1>4 DEF Counted, Tally, Holding
    <3>3. KindFits(j)'
      BY <3>1, <1>2 DEF KindFits
    <3>4. ASSUME pc'[j] = "dayok", jobs[j].failed = 0 PROVE Holes(j)' \subseteq todo'[j]
      <4>1. jobs[j].kind = "onboarding" /\ jobs[j].symbol \in Symbols
        BY <3>1, <1>2, <1>4 DEF KindFits, Holding
      <4>2. Holes(j) \subseteq todo[j]
        BY <3>1, <3>4, <4>1, <1>2 DEF Covers
      <4>3. ticker'[Sym(j)] = ticker[Sym(j)] \cup ({d} \cap Priced(Sym(j)))
        BY <3>1, <3>4, <4>1 DEF Sym, TypeOK
      <4>4. Sym(j)' = Sym(j) /\ Priced(Sym(j))' = Priced(Sym(j))
        BY <3>1 DEF Sym, Priced
      <4>. QED BY <3>1, <4>2, <4>3, <4>4 DEF Holes
    <3>5. Covers(j)'
      BY <3>1, <3>4 DEF Covers
    <3>. QED BY <3>2, <3>3, <3>5
  <2>8. CASE CountDay(j)
    <3>1. /\ pc[j] \in {"dayok", "daybad"} /\ pc'[j] = "day" /\ todo'[j] = todo[j]
          /\ UNCHANGED <<market, ticker>>
          /\ \/ pc[j] = "dayok" /\ jobs' = IncrementProgress(j, 1, 0)
             \/ pc[j] = "daybad" /\ jobs' = IncrementProgress(j, 0, 1)
      BY <2>8, <1>6 DEF CountDay
    <3>2. /\ Tally(j)' = Tally(j) + 1 /\ jobs'[j].total = jobs[j].total
          /\ jobs'[j].state = jobs[j].state
          /\ jobs'[j].kind = jobs[j].kind /\ jobs'[j].symbol = jobs[j].symbol
          /\ pc[j] = "dayok" => jobs'[j].failed = jobs[j].failed
          /\ pc[j] = "daybad" => jobs'[j].failed # 0
      BY <3>1, <1>1, ProgressCounted DEF Tally
    <3>3. Counted(j)'
      BY <3>1, <3>2, <1>1, <1>2, <1>3, <1>4 DEF Counted, Tally, Holding
    <3>4. KindFits(j)'
      BY <3>1, <3>2, <1>2 DEF KindFits
    <3>5. Holes(j)' = Holes(j)
      BY <3>1, <3>2 DEF Holes, Sym, Priced
    <3>6. Covers(j)'
      BY <3>1, <3>2, <3>5, <1>2 DEF Covers
    <3>. QED BY <3>3, <3>4, <3>6
  <2>9. CASE MarkWatchlistReady(j)
    <3>1. /\ pc[j] = "day" /\ todo[j] = {} /\ pc'[j] = "finish" /\ jobs' = jobs
          /\ UNCHANGED <<market, ticker>>
      BY <2>9, <1>6 DEF MarkWatchlistReady
    <3>2. Counted(j)' /\ KindFits(j)'
      BY <3>1, <1>1, <1>2, <1>3, <1>4 DEF Counted, Tally, KindFits, Holding
    <3>3. Holes(j)' = Holes(j)
      BY <3>1 DEF Holes, Sym, Priced
    <3>4. Covers(j)'
      BY <3>1, <3>3, <1>2 DEF Covers
    <3>. QED BY <3>2, <3>4
  <2>. QED BY <1>13, <2>1, <2>2, <2>3, <2>4, <2>5, <2>6, <2>7, <2>8, <2>9 DEF OnboardingStep
<1>14. CASE RevalidationStep(j)
  <2>1. CASE RevalidationBegin(j)
    <3> DEFINE n == Cardinality(jobs[j].range)
    <3>1. jobs[j].state \notin TerminalStates
      BY <2>1, <1>5 DEF RevalidationBegin, ActiveStates, TerminalStates
    <3>2. /\ jobs' = [UpdateState(j, "running") EXCEPT ![j].total = n]
          /\ pc'[j] = "symbols" /\ pc[j] = "entered" /\ todo'[j] = jobs[j].range
          /\ jobs[j].kind = "revalidation"
      BY <2>1, <3>1, <1>6 DEF RevalidationBegin, TypeOK
    <3>3. /\ jobs'[j].processed = jobs[j].processed /\ jobs'[j].failed = jobs[j].failed
          /\ jobs'[j].total = n /\ jobs'[j].state = "running"
          /\ jobs'[j].kind = jobs[j].kind
      BY <3>2, <1>1 DEF UpdateState, JobRow, TypeOK
    <3>4. n \in Nat
      BY <1>1, CountOfDays DEF JobRow
    <3>5. Counted(j)'
      BY <3>2, <3>3, <3>4, <1>1, <1>2 DEF Counted, Tally
    <3>6. KindFits(j)' /\ Covers(j)'
      BY <3>2, <3>3 DEF KindFits, Covers
    <3>. QED BY <3>5, <3>6
  <2>2. CASE RevalidationSymbols(j) \/ RevalidationRebuild(j)
    <3>1. /\ pc[j] \in {"symbols", "recompute"} /\ jobs' = jobs /\ todo'[j] = todo[j]
          /\ pc'[j] = "recompute" \/ (pc'[j] = "finish" /\ todo[j] = {})
      BY <2>2, <1>6 DEF RevalidationSymbols, RevalidationRebuild, db
    <3>. QED BY <3>1, <1>1, <1>2, <1>3, <1>4 DEF Counted, Tally, KindFits, Covers, Holding
  <2>3. CASE RevalidationCancelled(j)
    BY <2>3, <1>4, <1>6, <1>7, <1>8 DEF RevalidationCancelled, Leave, Holding
  <2>4. CASE RevalidationDayFails(j)
    <3>1. /\ pc[j] = "recompute" /\ pc' = pc /\ jobs' = IncrementProgress(j, 0, 1)
          /\ todo[j] # {} /\ todo'[j] = todo[j] \ {Min(todo[j])}
      BY <2>4 DEF RevalidationDayFails, TypeOK
    <3>2. Cardinality(todo'[j]) \in Nat /\ Cardinality(todo[j]) = Cardinality(todo'[j]) + 1
      BY <3>1, <1>1, DayVisited
    <3>3. /\ Tally(j)' = Tally(j) + 1 /\ jobs'[j].total = jobs[j].total
          /\ jobs'[j].state = jobs[j].state /\ jobs'[j].kind = jobs[j].kind
      BY <3>1, <1>1, ProgressCounted DEF Tally
    <3>4. Counted(j)'
      BY <3>1, <3>2, <3>3, <1>1, <1>2, <1>4 DEF Counted, Tally, Holding
    <3>5. KindFits(j)' /\ Covers(j)'
      BY <3>1, <3>3, <1>2 DEF KindFits, Covers
    <3>. QED BY <3>4, <3>5
  <2>5. CASE RevalidationDay(j)
    <3>1. /\ pc[j] = "recompute" /\ pc'[j] = "recomputed" /\ jobs' = jobs
          /\ todo[j] # {} /\ todo'[j] = todo[j] \ {Min(todo[j])}
      BY <2>5, <1>6 DEF RevalidationDay, TypeOK
    <3>2. Cardinality(todo'[j]) \in Nat /\ Cardinality(todo[j]) = Cardinality(todo'[j]) + 1
      BY <3>1, <1>1, DayVisited
    <3>3. Counted(j)'
      BY <3>1, <3>2, <1>1, <1>2, <1>4 DEF Counted, Tally, Holding
    <3>4. KindFits(j)' /\ Covers(j)'
      BY <3>1, <1>2 DEF KindFits, Covers
    <3>. QED BY <3>3, <3>4
  <2>6. CASE RevalidationCount(j)
    <3>1. /\ pc[j] = "recomputed" /\ pc'[j] = "recompute" /\ jobs' = IncrementProgress(j, 1, 0)
          /\ todo'[j] = todo[j]
      BY <2>6, <1>6 DEF RevalidationCount
    <3>2. /\ Tally(j)' = Tally(j) + 1 /\ jobs'[j].total = jobs[j].total
          /\ jobs'[j].state = jobs[j].state /\ jobs'[j].kind = jobs[j].kind
      BY <3>1, <1>1, ProgressCounted DEF Tally
    <3>3. Counted(j)'
      BY <3>1, <3>2, <1>1, <1>2, <1>3, <1>4 DEF Counted, Tally, Holding
    <3>4. KindFits(j)' /\ Covers(j)'
      BY <3>1, <3>2, <1>2 DEF KindFits, Covers
    <3>. QED BY <3>3, <3>4
  <2>. QED BY <1>14, <2>1, <2>2, <2>3, <2>4, <2>5, <2>6 DEF RevalidationStep
<1>. QED
  BY <1>9, <1>10, <1>11, <1>12, <1>13, <1>14 DEF RunnerStep

\* The books are kept: with the mutex held, with threads and rows in step.
LEMMA BooksStep ==
    ASSUME JobInv, LockHeld, TypeOK', Books, [Next]_vars
    PROVE  Books'
<1>1. CASE StartOnboarding \/ RevalidateAllSnapshots
  BY <1>1, CreationKeepsBooks
<1>2. ASSUME NEW k \in JobIds, RunnerStep(k) \/ RunnerRaises(k) PROVE Books'
  <2>1. ASSUME NEW i \in JobIds PROVE (Counted(i) /\ KindFits(i) /\ Covers(i))'
    <3>1. CASE i = k
      BY <1>2, <3>1, RunnerKeepsBooks
    <3>2. CASE i # k
      <4>1. Kept(i)
        BY <1>2, <3>2, RunnerKeepsOthers DEF JobInv
      <4>. QED BY <4>1, KeptBooks DEF JobInv, Books
    <3>. QED BY <3>1, <3>2
  <2>. QED BY <2>1 DEF Books
<1>3. CASE (\A k \in JobIds : ~RunnerStep(k) /\ ~RunnerRaises(k))
             /\ ~StartOnboarding /\ ~RevalidateAllSnapshots
  <2>1. ASSUME NEW i \in JobIds PROVE (Counted(i) /\ KindFits(i) /\ Covers(i))'
    <3>1. Kept(i)
      BY <1>3, OthersKeepJobs
    <3>. QED BY <3>1, KeptBooks DEF JobInv, Books
  <2>. QED BY <2>1 DEF Books
<1>. QED BY <1>1, <1>2, <1>3

\* The counters and the days left of every job, with the lock they rely on.
LEMMA BooksHold == Spec => [](JobInv /\ LockHeld /\ Books)
<1>1. Init => LockHeld /\ Books
  <2>1. Init => LockHeld
    BY ConstantsAssumption DEF Init, LockHeld, Holding, NoDaily
  <2>2. Init => Books
    BY DEF Init, Books, Counted, Tally, KindFits, Covers
  <2>. QED BY <2>1, <2>2
<1>2. TypeOK /\ LockHeld /\ [Next]_vars => LockHeld'
  BY LockStep
<1>3. JobInv /\ LockHeld /\ TypeOK' /\ Books /\ [Next]_vars => Books'
  BY BooksStep
<1>. QED BY TypeCorrect, JobInvHolds, <1>1, <1>2, <1>3, PTL DEF Spec

\* The progress a client polls adds up: never more days counted than
\* total_days, and a completed job has accounted for every one of them,
\* although the total, the day and its count are three transactions.
THEOREM ProgressIsAccounted == Spec => []ProgressAddsUp
<1>1. JobInv /\ Books => ProgressAddsUp
  <2> SUFFICES ASSUME JobInv, Books, NEW j \in JobIds
               PROVE  /\ jobs[j].processed + jobs[j].failed <= jobs[j].total
                      /\ jobs[j].state = "completed" =>
                            jobs[j].processed + jobs[j].failed = jobs[j].total
    BY DEF ProgressAddsUp
  <2>. QED BY DEF Books, Counted, Tally
<1>. QED BY BooksHold, <1>1, PTL

\* The only way from running to completed is the last transaction of a run.
LEMMA CompletionIsComplete ==
    ASSUME JobInv, [Next]_vars, NEW j \in JobIds,
           jobs[j].state = "running", jobs'[j].state = "completed"
    PROVE  pc[j] = "finish"
<1> USE ConstantsAssumption DEF JobInv
<1>1. \A k \in JobIds : \A s : jobs' = UpdateState(k, s) => s = "completed" /\ k = j
  BY StateWritten DEF SameRow
<1>2. \A k \in JobIds : \A p, f : jobs' # IncrementProgress(k, p, f)
  BY ProgressWritten DEF SameRow
<1>3. \A k \in JobIds : jobs' # RequestCancel(k)
  <2> SUFFICES ASSUME NEW k \in JobIds, jobs' = RequestCancel(k) PROVE FALSE
    OBVIOUS
  <2>. QED BY CancelWritten DEF SameRow
<1>4. jobs' # jobs
  OBVIOUS
<1>5. ASSUME NEW k \in JobIds, RunnerStep(k) \/ RunnerRaises(k) PROVE pc[j] = "finish"
  <2>1. CASE FindGaps(k)
    BY <2>1, TotalWritten DEF FindGaps, SameRow
  <2>2. CASE RevalidationBegin(k)
    <3>1. CASE jobs[k].state \in TerminalStates
      BY <2>2, <3>1, <1>4 DEF RevalidationBegin
    <3>2. CASE jobs[k].state \notin TerminalStates
      <4>1. PICK n : jobs' = [UpdateState(k, "running") EXCEPT ![k].total = n]
        BY <2>2, <3>2 DEF RevalidationBegin
      <4>. QED BY <4>1, StateAndTotalWritten DEF SameRow
    <3>. QED BY <3>1, <3>2
  <2>3. CASE Complete(k)
    BY <2>3, <1>1 DEF Complete
  <2>4. CASE Acquire(k) \/ RunnerRaises(k) \/ RecordFailure(k)
    BY <2>4, <1>1, <1>4 DEF Acquire, RunnerRaises, RecordFailure, db
  <2>5. ASSUME OnboardingStep(k), ~FindGaps(k) PROVE FALSE
    BY <2>5, <1>1, <1>2, <1>4
    DEF OnboardingStep, OnboardingBegin, ColdStartRead, ColdStartFetched, ColdStartAbort,
        OnboardingCancelled, OnboardingDay, CountDay, MarkWatchlistReady, db
  <2>6. ASSUME RevalidationStep(k), ~RevalidationBegin(k) PROVE FALSE
    BY <2>6, <1>1, <1>2, <1>4
    DEF RevalidationStep, RevalidationSymbols, RevalidationCancelled, RevalidationDayFails,
        RevalidationDay, RevalidationCount, RevalidationRebuild, db
  <2>. QED BY <1>5, <2>1, <2>2, <2>3, <2>4, <2>5, <2>6 DEF RunnerStep
<1>6. ASSUME Handlers PROVE FALSE
  <2>1. ASSUME StartOnboarding \/ RevalidateAllSnapshots PROVE FALSE
    BY <2>1 DEF StartOnboarding, RevalidateAllSnapshots, NewJob, TypeOK
  <2>2. ASSUME RemoveCommit PROVE FALSE
    BY <2>2, <1>3, <1>4 DEF RemoveCommit, TypeOK
  <2>. QED
    BY <1>6, <2>1, <2>2, <1>3, <1>4
    DEF Handlers, AddToWatchlist, RemoveRead, OnboardingDeferred, CancelJob, db
<1>7. ~Boot
  BY SweptRows DEF Boot, Swept, OrphanSweep, Active, ActiveStates, TypeOK, JobRow
<1>. QED
  BY <1>4, <1>5, <1>6, <1>7
  DEF Next, DailyStart, DailyStep, DailyPersist, DailyWait, DailyAcquire, DailyCompose,
      DailyRaises, NextTradingDay, Crash, vars, db

\* An onboarding that completes without a failed day leaves no hole: the mutex
\* keeps the daily update from adding a market date between the moment the
\* gaps are listed and the moment the last one is filled.
THEOREM OnboardingLeavesNoHole == Spec => CompletedOnboardingLeavesNoHole
<1> DEFINE Filled ==
      \A j \in JobIds :
          /\ jobs[j].kind = "onboarding" /\ jobs[j].failed = 0
          /\ jobs[j].state = "running" /\ jobs'[j].state = "completed"
          => market \cap Priced(Sym(j)) \subseteq ticker[Sym(j)]
<1>1. JobInv /\ Books /\ [Next]_vars => [Filled]_vars
  <2> SUFFICES ASSUME JobInv, Books, [Next]_vars, NEW j \in JobIds,
                      jobs[j].kind = "onboarding", jobs[j].failed = 0,
                      jobs[j].state = "running", jobs'[j].state = "completed"
               PROVE  market \cap Priced(Sym(j)) \subseteq ticker[Sym(j)]
    OBVIOUS
  <2>1. pc[j] = "finish"
    BY CompletionIsComplete
  <2>. QED BY <2>1 DEF Books, Covers, Holes
<1>. QED BY BooksHold, <1>1, PTL DEF Spec, CompletedOnboardingLeavesNoHole
=============================================================================
