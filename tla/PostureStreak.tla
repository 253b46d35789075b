------------------------------ MODULE PostureStreak ------------------------------
(***************************************************************************)
(* market_posture_streak, the table behind the dashboard's streak badge,   *)
(* next to the market_snapshot rows it is computed from.                   *)
(*                                                                         *)
(* Two writers keep it: whoever composes a day (record_posture, in one     *)
(* savepoint with the day's snapshot) looks back at the row before; the    *)
(* end of a revalidation rebuilds it from the snapshots.  Between the two, *)
(* daily updates may be late and revalidations may end early.  The mutex   *)
(* of SnapshotJobs is taken for granted: a revalidation past "queued"      *)
(* excludes a daily update's compose.                                      *)
(***************************************************************************)
EXTENDS Calendar, FiniteSetsExt

CONSTANTS
    Postures,          \* MarketPosture
    Updates,           \* daily updates that may be under way together
    MaxInterruptions,  \* bound: revalidations that end before their rebuild
    MaxLate            \* bound: days composed out of order

StreakBounds == MaxInterruptions \in Nat /\ MaxLate \in Nat /\ "none" \notin Postures
ASSUME StreakAssumption == StreakBounds

VARIABLES
    market,   \* market_snapshot: [Days -> posture, or "none"]
    streak,   \* market_posture_streak: [Days -> a row, or NoRow]
    today,    \* today_et()
    update,   \* [Updates -> the session_day being fetched, or 0]
    reval,    \* the revalidation: where it is, its range, the days left
    used      \* how much of each bound is spent

streakVars == <<market, streak, today, update, reval, used>>

-----------------------------------------------------------------------------
NoStreak == [posture |-> "none", days |-> 0, start |-> 0]
NoJob == [at |-> "idle", from |-> 0, to |-> 0, todo |-> {}]

Dated == {d \in Days : market[d] # "none"}

SessionDay == Max({d \in Trading : d <= today})

\* A row that continues the streak of the row before it, or starts one.
Extend(prior, d, p) ==
    IF prior.posture = p
    THEN [prior EXCEPT !.days = @ + 1]
    ELSE [posture |-> p, days |-> 1, start |-> d]

\* Mutant: a re-run of a day counts it again.
EarlierOrSame(d) == {e \in Days : e <= d /\ streak[e] # NoStreak}
Earlier(d) == {e \in Days : e < d /\ streak[e] # NoStreak}

Record(d, p) ==
    LET prior == IF Earlier(d) = {} THEN NoStreak ELSE streak[Max(Earlier(d))]
    IN  [streak EXCEPT ![d] = Extend(prior, d, p)]

\* Mutant: without the savepoint a failing streak leaves its snapshot behind.
ComposeLoosely(d, p) ==
    market' = [market EXCEPT ![d] = p] /\ streak' \in {streak, Record(d, p)}

\* The snapshot and the streak row of a day, in one savepoint.
Compose(d, p) ==
    market' = [market EXCEPT ![d] = p] /\ streak' = Record(d, p)

\* The streak that runs into a rebuild: the row of the calendar day before.
StreakBefore == IF reval.from - 1 \in Days THEN streak[reval.from - 1] ELSE NoStreak

\* rebuild_streak_table: what the walk over the snapshots holds after day d.
Replayed[d \in 0 .. MaxDay] ==
    IF d < reval.from THEN StreakBefore
    ELSE IF d \in Dated THEN Extend(Replayed[d - 1], d, market[d])
    ELSE Replayed[d - 1]

\* Mutant: rows after the last day revalidated are left alone.
RebuiltInRange ==
    [d \in Days |-> IF reval.from <= d /\ d <= reval.to /\ d \in Dated THEN Replayed[d] ELSE streak[d]]

\* Rows from the first day on are wiped and written again, earlier ones stay.
Rebuilt ==
    [d \in Days |-> IF d < reval.from THEN streak[d]
                    ELSE IF d \in Dated THEN Replayed[d]
                    ELSE NoStreak]

Spend(bound) == used' = [used EXCEPT ![bound] = @ + 1]

StreakInit ==
    /\ market = [d \in Days |-> "none"]
    /\ streak = [d \in Days |-> NoStreak]
    /\ today = 1
    /\ update = [u \in Updates |-> 0]
    /\ reval = NoJob
    /\ used = [interruptions |-> 0, late |-> 0]

-----------------------------------------------------------------------------
(* run_daily_update *)

\* The session day is read at the start and used after the downloads.
UpdateStart(u) ==
    /\ update[u] = 0
    /\ update' = [update EXCEPT ![u] = SessionDay]
    /\ UNCHANGED <<market, streak, today, reval, used>>

\* A laptop asleep during the download wakes to a day that is no longer the
\* newest: a later one is composed, or due in a revalidation already created.
Late(d) == (\E e \in Dated : e > d) \/ (reval.at = "queued" /\ reval.from > d)

\* The day is composed, or cannot be.
UpdateCompose(u) ==
    /\ update[u] # 0
    /\ reval.at \in {"idle", "queued"}
    /\ update' = [update EXCEPT ![u] = 0]
    /\ \/ /\ \E p \in Postures : Compose(update[u], p)
          /\ IF Late(update[u])
             THEN used.late < MaxLate /\ Spend("late")
             ELSE UNCHANGED used
       \/ UNCHANGED <<market, streak, used>>
    /\ UNCHANGED <<today, reval>>

-----------------------------------------------------------------------------
(* revalidate_all_snapshots and its runner *)

RevalidateAllSnapshots ==
    /\ reval.at = "idle"
    /\ reval' = [at |-> "queued", from |-> IF Dated = {} THEN today ELSE Min(Dated),
                 to |-> today, todo |-> {}]
    /\ UNCHANGED <<market, streak, today, update, used>>

\* Without a trading day in its range the job ends here, with no rebuild.
RevalidationBegin ==
    /\ reval.at = "queued"
    /\ LET days == Trading \cap (reval.from .. reval.to)
       IN  reval' = IF days = {} THEN NoJob ELSE [reval EXCEPT !.at = "walking", !.todo = days]
    /\ UNCHANGED <<market, streak, today, update, used>>

\* A day is recomputed, or rolled back to what it was.
RevalidationDay ==
    /\ reval.at = "walking" /\ reval.todo # {}
    /\ LET d == Min(reval.todo)
       IN  /\ reval' = [reval EXCEPT !.todo = @ \ {d}]
           /\ (\E p \in Postures : Compose(d, p)) \/ UNCHANGED <<market, streak>>
    /\ UNCHANGED <<today, update, used>>

RevalidationRebuild ==
    /\ reval.at = "walking" /\ reval.todo = {}
    /\ streak' = Rebuilt
    /\ reval' = [reval EXCEPT !.at = "rebuilt"]
    /\ UNCHANGED <<market, today, update, used>>

RevalidationComplete ==
    /\ reval.at = "rebuilt"
    /\ reval' = NoJob
    /\ UNCHANGED <<market, streak, today, update, used>>

\* A cancellation, an exception or a restart between two days, or a rebuild
\* rolled back: the days done so far stay.
RevalidationInterrupted ==
    /\ reval.at \in {"queued", "walking"}
    /\ used.interruptions < MaxInterruptions
    /\ Spend("interruptions")
    /\ reval' = NoJob
    /\ UNCHANGED <<market, streak, today, update>>

NextDay ==
    /\ today < MaxDay
    /\ today' = today + 1
    /\ UNCHANGED <<market, streak, update, reval, used>>

-----------------------------------------------------------------------------
StreakNext ==
    \/ \E u \in Updates : UpdateStart(u) \/ UpdateCompose(u)
    \/ RevalidateAllSnapshots \/ RevalidationBegin \/ RevalidationDay
    \/ RevalidationRebuild \/ RevalidationComplete \/ RevalidationInterrupted
    \/ NextDay

StreakSpec == StreakInit /\ [][StreakNext]_streakVars

-----------------------------------------------------------------------------
(* What the runs check *)

Row == [posture : Postures \cup {"none"}, days : 0 .. MaxDay, start : 0 .. MaxDay]

\* Every variable has its type; no streak is longer than the calendar.
StreakTypeOK ==
    /\ market \in [Days -> Postures \cup {"none"}]
    /\ streak \in [Days -> Row]
    /\ today \in Days
    /\ update \in [Updates -> Trading \cup {0}]
    /\ reval \in [at : {"idle", "queued", "walking", "rebuilt"}, from : 0 .. MaxDay,
                  to : 0 .. MaxDay, todo : SUBSET Trading]
    /\ used \in [interruptions : 0 .. MaxInterruptions, late : 0 .. MaxLate]

\* What a streak row should say: the snapshots up to d that share d's posture
\* with every snapshot in between.
Run(d) == {e \in Dated : e <= d /\ \A f \in Dated : e <= f /\ f <= d => market[f] = market[d]}
Truth(d) ==
    IF d \in Dated
    THEN [posture |-> market[d], days |-> Cardinality(Run(d)), start |-> Min(Run(d))]
    ELSE NoStreak

\* compose_and_persist_market, "Both writes MUST succeed together": every
\* snapshot has a streak row of the same posture, and nothing else has,
\* whatever was re-run, rolled back, rebuilt or interrupted.
SnapshotsAndStreaksPair == \A d \in Days : streak[d].posture = market[d]

\* Looking back one row is enough: with days composed in order (each as often
\* as one likes) and revalidations that finish, every row is the truth.
StreaksAddUp ==
    used.interruptions = 0 /\ used.late = 0 /\ reval.at \in {"idle", "queued"}
        => \A d \in Days : streak[d] = Truth(d)

\* The rebuild of a revalidation repairs whatever earlier interruptions and
\* late updates left, in and after its range, if nothing is older than it.
RebuildRestoresTruth ==
    reval.at = "rebuilt" /\ (\A d \in Dated : d >= reval.from)
        => \A d \in Days : streak[d] = Truth(d)

\* models.py, "When posture on day N == posture on day N-1, streak_days is
\* N-1's streak + 1 ... When posture flips, streak_days resets to 1".
StreakFollowsPostures ==
    reval.at \in {"idle", "queued"} => \A d \in Days : streak[d] = Truth(d)
=============================================================================
