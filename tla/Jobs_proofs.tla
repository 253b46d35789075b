---------------------------- MODULE Jobs_proofs -----------------------------
(***************************************************************************)
(* Proofs about the jobs of the night, for any processes, calendar,        *)
(* retention and restarts:                                                 *)
(*                                                                         *)
(* 1. Digest.  That a day's digest is mailed once is not inductive: the    *)
(*    next update decides by a marker that may be unwritten, lost, or of   *)
(*    another day.  Unsent says that only the marker, or the one in the    *)
(*    transaction under way, keeps a day from being mailed; SetBack what   *)
(*    is left when an update that outlasted its day replaces a newer       *)
(*    marker by its own.                                                   *)
(* 2. Backups.  What a rotation leaves is known only relative to what went *)
(*    wrong before it: EnoughAreKept and NewestIsKept count the good files *)
(*    but the one not verified yet, MishapsAreCounted the others.          *)
(***************************************************************************)
EXTENDS Digest, Backups, NumberLemmas

---------------------------------------------------------------------------
(* The digest                                                              *)

\* An unmarked day that is not over has had no digest, but for the mishaps.
Unsent ==
    \A d \in Dates : d >= date /\ marker # d /\ unsaved # d => sent[d] <= lost + late

\* An older marker about to replace a newer one.
SetBack == unsaved # 0 /\ marker > unsaved => sent[marker] <= lost + late

\* Markers and updates are of days that have come, and of digests that went
\* out; a marker is unsaved only inside a transaction.
MarkersAreOfMails ==
    /\ marker <= date /\ unsaved <= date
    /\ unsaved # 0 => sent[unsaved] > 0
    /\ marker # 0 => sent[marker] > 0
    /\ writer = NoOne => unsaved = 0
    /\ \A p \in Procs, s \in Slots : updating[p][s] <= date

AtMostOnce == \A d \in Dates : sent[d] <= 1 + lost + late

MailInv == DigestTypeOK /\ AtMostOnce /\ Unsent /\ SetBack /\ MarkersAreOfMails

\* The last session up to today exists.
LEMMA LastTradingDayIsPast ==
    ASSUME Calendared, date \in Dates
    PROVE  LastTradingDay \in Dates /\ LastTradingDay <= date
  <1> DEFINE S == {d \in Sessions : d <= date}
  <1>1. S \in SUBSET (0 .. MaxDate) /\ S # {} /\ MaxDate \in Nat
    <2>1. 1 \in S
      BY DEF Calendared, Dates
    <2> QED
      <3>1. S \subseteq Sessions /\ Sessions \subseteq 1 .. MaxDate /\ MaxDate \in Nat
        BY DEF Calendared, Dates
      <3>2. 1 .. MaxDate \subseteq 0 .. MaxDate
        BY <3>1
      <3> HIDE DEF S
      <3> QED
        BY <2>1, <3>1, <3>2
  <1>2. Max(S) \in S
    <2> HIDE DEF S
    <2> QED
      BY <1>1, MaxIsGreatest
  <1> QED
    BY <1>2 DEF LastTradingDay, Calendared

\* At the start nothing has been mailed.
LEMMA DigestStarts ==
    ASSUME Calendared, DigestInit
    PROVE  MailInv
  <1>1. DigestTypeOK
    BY DEF Calendared, DigestInit, DigestTypeOK, Dates, Idle
  <1>2. AtMostOnce /\ Unsent /\ SetBack
    BY DEF DigestInit, AtMostOnce, Unsent, SetBack, Dates
  <1>3. MarkersAreOfMails
    BY DEF DigestInit, MarkersAreOfMails, Idle
  <1> QED
    BY <1>1, <1>2, <1>3 DEF MailInv

\* A step that leaves the mails and the markers alone, begins updates of the
\* last session or ends some, keeps the invariant.
LEMMA AsideHolds ==
    ASSUME Calendared, MailInv, DigestTypeOK',
           UNCHANGED <<date, writer, unsaved, marker, sent, lost, late>>,
           \A p \in Procs, s \in Slots : updating'[p][s] \in {updating[p][s], LastTradingDay, 0}
    PROVE  MailInv'
  <1>1. AtMostOnce' /\ Unsent' /\ SetBack'
    BY DEF MailInv, AtMostOnce, Unsent, SetBack
  <1>2. MarkersAreOfMails'
    <2>1. date \in Dates /\ LastTradingDay <= date
      BY LastTradingDayIsPast DEF MailInv, DigestTypeOK
    <2>2. \A p \in Procs, s \in Slots : updating'[p][s] <= date'
      BY <2>1 DEF MailInv, MarkersAreOfMails, Dates
    <2> QED
      BY <2>2 DEF MailInv, MarkersAreOfMails
  <1> QED
    BY <1>1, <1>2 DEF MailInv

\* A process starts, and may begin its catch-up.
LEMMA BootHolds ==
    ASSUME Calendared, MailInv, NEW p \in Procs, Boot(p)
    PROVE  MailInv'
  <1>1. LastTradingDay \in Dates
    BY LastTradingDayIsPast DEF MailInv, DigestTypeOK
  <1>2. DigestTypeOK'
    <2>1. updating' \in [Procs -> [Slots -> Dates \cup {0}]]
      <3>1. updating \in [Procs -> [Slots -> Dates \cup {0}]]
        BY DEF MailInv, DigestTypeOK
      <3>2. updating' = [updating EXCEPT ![p]["startup"] = LastTradingDay] \/ updating' = updating
        BY DEF Boot
      <3> QED
        BY <1>1, <3>1, <3>2 DEF Slots
    <2>2. proc' \in [Procs -> {"down", "serving", "scheduling"}]
      BY DEF Boot, MailInv, DigestTypeOK
    <2>3. spent' \in [updates : Nat, boots : Nat]
      BY DEF Boot, MailInv, DigestTypeOK
    <2> QED
      BY <2>1, <2>2, <2>3 DEF Boot, MailInv, DigestTypeOK
  <1>3. \A q \in Procs, s \in Slots : updating'[q][s] \in {updating[q][s], LastTradingDay, 0}
    BY DEF Boot, MailInv, DigestTypeOK, Slots
  <1> QED
    BY <1>2, <1>3, AsideHolds DEF Boot

\* The cron point.
LEMMA FireHolds ==
    ASSUME Calendared, MailInv, NEW p \in Procs, Fire(p)
    PROVE  MailInv'
  <1>1. LastTradingDay \in Dates
    BY LastTradingDayIsPast DEF MailInv, DigestTypeOK
  <1>2. DigestTypeOK'
    <2>1. CASE date \in Sessions
      <3>1. /\ updating' = [updating EXCEPT ![p]["cron"] = LastTradingDay]
            /\ spent' = [spent EXCEPT !.updates = @ + 1] /\ cronDue' = FALSE
            /\ UNCHANGED <<date, proc, writer, unsaved, marker, lastRun, sent, lost, late>>
        BY <2>1 DEF Fire, Begin
      <3>2. updating' \in [Procs -> [Slots -> Dates \cup {0}]]
        BY <1>1, <3>1 DEF MailInv, DigestTypeOK, Slots
      <3>3. spent' \in [updates : Nat, boots : Nat]
        BY <3>1 DEF MailInv, DigestTypeOK
      <3> QED
        BY <3>1, <3>2, <3>3 DEF MailInv, DigestTypeOK
    <2>2. CASE date \notin Sessions
      BY <2>2 DEF Fire, MailInv, DigestTypeOK
    <2> QED
      BY <2>1, <2>2
  <1>3. \A q \in Procs, s \in Slots : updating'[q][s] \in {updating[q][s], LastTradingDay, 0}
    BY DEF Fire, Begin, MailInv, DigestTypeOK, Slots
  <1> QED
    BY <1>2, <1>3, AsideHolds DEF Fire

\* A user asks for an update.
LEMMA ClickHolds ==
    ASSUME Calendared, MailInv, NEW p \in Procs, NEW s \in Slots, Click(p, s)
    PROVE  MailInv'
  <1>1. LastTradingDay \in Dates
    BY LastTradingDayIsPast DEF MailInv, DigestTypeOK
  <1>2. DigestTypeOK'
    BY <1>1 DEF Click, Begin, MailInv, DigestTypeOK
  <1>3. \A q \in Procs, t \in Slots : updating'[q][t] \in {updating[q][t], LastTradingDay, 0}
    BY DEF Click, Begin, MailInv, DigestTypeOK
  <1> QED
    BY <1>2, <1>3, AsideHolds DEF Click

\* A shutdown.
LEMMA StopHolds ==
    ASSUME Calendared, MailInv, NEW p \in Procs, Stop(p)
    PROVE  MailInv'
  <1>1. DigestTypeOK'
    BY DEF Stop, MailInv, DigestTypeOK, Idle
  <1>2. \A q \in Procs, s \in Slots : updating'[q][s] \in {updating[q][s], LastTradingDay, 0}
    BY DEF Stop, MailInv, DigestTypeOK, Idle
  <1> QED
    BY <1>1, <1>2, AsideHolds DEF Stop

\* A mail of today goes out once, since only the marker kept it back; one of an
\* update that outlasted its day counts as late and pays for every repetition
\* the older marker will allow.
LEMMA SyncAndMailHolds ==
    ASSUME Calendared, MailInv, NEW p \in Procs, NEW s \in Slots, SyncAndMail(p, s)
    PROVE  MailInv'
  <1> DEFINE asOf == updating[p][s]
  <1>1. /\ asOf \in Dates /\ asOf <= date /\ unsaved = 0 /\ writer' # NoOne
        /\ writer' \in (Procs \X Slots) \cup {NoOne}
    BY DEF SyncAndMail, MailInv, DigestTypeOK, MarkersAreOfMails, Calendared
  <1>2. CASE UNCHANGED <<unsaved, sent, late>>
    <2>1. DigestTypeOK' /\ AtMostOnce' /\ Unsent' /\ SetBack'
      BY <1>1, <1>2 DEF SyncAndMail, MailInv, DigestTypeOK, AtMostOnce, Unsent, SetBack
    <2>2. MarkersAreOfMails'
      BY <1>1, <1>2 DEF SyncAndMail, MailInv, MarkersAreOfMails
    <2> QED
      BY <2>1, <2>2 DEF MailInv
  <1>3. CASE /\ MaySend(s, asOf)
             /\ unsaved' = asOf
             /\ sent' = [sent EXCEPT ![asOf] = @ + 1]
             /\ late' = IF asOf < date THEN late + 1 ELSE late
    <2>1. /\ marker # asOf /\ UNCHANGED <<date, proc, cronDue, updating, marker, lastRun, lost, spent>>
          /\ sent \in [Dates -> Nat] /\ lost \in Nat /\ late \in Nat /\ date \in Dates
          /\ marker \in Dates \cup {0} /\ marker <= date /\ Dates \subseteq Nat \ {0}
      BY <1>3 DEF SyncAndMail, MaySend, MailInv, DigestTypeOK, MarkersAreOfMails, Dates
    <2>2. /\ sent'[asOf] = sent[asOf] + 1
          /\ \A d \in Dates : d # asOf => sent'[d] = sent[d]
          /\ sent' \in [Dates -> Nat] /\ late' \in Nat
      BY <1>1, <1>3, <2>1
    <2>3. DigestTypeOK'
      BY <1>1, <1>3, <2>1, <2>2 DEF MailInv, DigestTypeOK
    <2>4. ASSUME asOf < date PROVE AtMostOnce' /\ Unsent' /\ SetBack'
      <3>1. late' = late + 1
        BY <1>3, <2>4
      <3>2. \A d \in Dates : sent[d] <= 1 + lost + late
        BY DEF MailInv, AtMostOnce
      <3>3. \A d \in Dates : sent'[d] \in Nat /\ sent[d] \in Nat
        BY <2>1, <2>2
      <3> HIDE DEF asOf
      <3>4. AtMostOnce'
        BY <1>1, <2>1, <2>2, <3>1, <3>2, <3>3 DEF AtMostOnce
      <3>5. Unsent' /\ SetBack'
        BY <1>1, <1>3, <2>1, <2>2, <2>4, <3>1, <3>2, <3>3 DEF Unsent, SetBack
      <3> QED
        BY <3>4, <3>5
    <2>5. ASSUME asOf = date PROVE AtMostOnce' /\ Unsent' /\ SetBack'
      <3>1. late' = late /\ sent[asOf] <= lost + late
        BY <1>1, <1>3, <2>1, <2>5 DEF MailInv, Unsent
      <3>2. \A d \in Dates : sent[d] <= 1 + lost + late
        BY DEF MailInv, AtMostOnce
      <3>3. \A d \in Dates : sent'[d] \in Nat /\ sent[d] \in Nat
        BY <2>1, <2>2
      <3>4. \A d \in Dates : d >= date /\ marker # d => sent[d] <= lost + late
        BY <1>1, <2>1 DEF MailInv, Unsent
      <3> HIDE DEF asOf
      <3>5. AtMostOnce'
        BY <1>1, <2>1, <2>2, <3>1, <3>2, <3>3 DEF AtMostOnce
      <3>6. Unsent' /\ SetBack'
        BY <1>1, <1>3, <2>1, <2>2, <2>5, <3>1, <3>3, <3>4 DEF Unsent, SetBack
      <3> QED
        BY <3>5, <3>6
    <2>6. AtMostOnce' /\ Unsent' /\ SetBack'
      <3> HIDE DEF asOf
      <3> QED
        BY <1>1, <2>1, <2>4, <2>5
    <2>7. MarkersAreOfMails'
      <3> HIDE DEF asOf
      <3>0. \A d \in Dates : sent[d] \in Nat
        BY <2>1
      <3>1. \A d \in Dates : sent[d] > 0 => sent'[d] > 0
        <4>1. ASSUME NEW d \in Dates, sent[d] > 0 PROVE sent'[d] > 0
          BY <1>1, <2>2, <3>0, <4>1
        <4> QED
          BY <4>1
      <3>2. sent'[asOf] > 0
        BY <1>1, <2>2, <3>0
      <3> QED
        BY <1>1, <1>3, <2>1, <3>1, <3>2 DEF MailInv, MarkersAreOfMails
    <2> QED
      BY <2>3, <2>6, <2>7 DEF MailInv
  <1> QED
    BY <1>2, <1>3 DEF SyncAndMail

\* The commit writes the marker of the digest that went out.
LEMMA CommitHolds ==
    ASSUME Calendared, MailInv, NEW p \in Procs, NEW s \in Slots, Commit(p, s)
    PROVE  MailInv'
  <1>1. /\ date \in Dates /\ Dates \subseteq Nat \ {0} /\ unsaved \in Dates \cup {0}
        /\ marker \in Dates \cup {0} /\ sent \in [Dates -> Nat] /\ lost \in Nat /\ late \in Nat
        /\ unsaved <= date /\ marker <= date
    BY DEF MailInv, DigestTypeOK, MarkersAreOfMails, Dates
  <1>2. /\ UNCHANGED <<date, sent, lost, late>> /\ unsaved' = 0
        /\ marker' = IF unsaved # 0 THEN unsaved ELSE marker
    BY DEF Commit
  <1>3. DigestTypeOK'
    BY <1>1, <1>2 DEF Commit, Finished, MailInv, DigestTypeOK
  <1>4. AtMostOnce' /\ SetBack'
    BY <1>2 DEF MailInv, AtMostOnce, SetBack
  <1>5. Unsent'
    <2> SUFFICES ASSUME NEW d \in Dates, d >= date, marker' # d PROVE sent[d] <= lost + late
      BY <1>2 DEF Unsent
    <2>1. CASE marker # d /\ unsaved # d
      BY <2>1 DEF MailInv, Unsent
    <2>2. CASE unsaved # 0 /\ marker = d
      BY <1>1, <1>2, <2>2 DEF MailInv, SetBack
    <2> QED
      BY <1>1, <1>2, <2>1, <2>2
  <1>6. MarkersAreOfMails'
    <2>1. \A q \in Procs, t \in Slots : updating'[q][t] \in {updating[q][t], 0}
      BY DEF Commit, Finished, MailInv, DigestTypeOK
    <2>2. \A q \in Procs, t \in Slots : updating'[q][t] <= date
      BY <1>1, <2>1 DEF MailInv, MarkersAreOfMails
    <2> QED
      BY <1>1, <1>2, <2>2 DEF MailInv, MarkersAreOfMails
  <1> QED
    BY <1>3, <1>4, <1>5, <1>6 DEF MailInv

\* A transaction that ends without a commit: its marker is lost, and that is
\* one more repetition allowed.
LEMMA ReleasedHolds ==
    ASSUME Calendared, MailInv, Released, UNCHANGED <<date, marker, sent, late>>, DigestTypeOK',
           \A p \in Procs, s \in Slots : updating'[p][s] \in {updating[p][s], 0}
    PROVE  MailInv'
  <1>1. /\ date \in Dates /\ Dates \subseteq Nat \ {0} /\ sent \in [Dates -> Nat]
        /\ lost \in Nat /\ late \in Nat
    BY DEF MailInv, DigestTypeOK, Dates
  <1>2. AtMostOnce' /\ Unsent' /\ SetBack'
    <2>1. \A d \in Dates : sent[d] \in Nat /\ sent[d] <= 1 + lost + late
      BY <1>1 DEF MailInv, AtMostOnce
    <2>2. CASE unsaved = 0
      BY <1>1, <2>1, <2>2 DEF Released, MailInv, AtMostOnce, Unsent, SetBack
    <2>3. CASE unsaved # 0
      BY <1>1, <2>1, <2>3 DEF Released, AtMostOnce, Unsent, SetBack
    <2> QED
      BY <2>2, <2>3
  <1>3. MarkersAreOfMails'
    <2>1. \A p \in Procs, s \in Slots : updating'[p][s] <= date
      BY <1>1 DEF MailInv, MarkersAreOfMails
    <2> QED
      BY <1>1, <2>1 DEF Released, MailInv, MarkersAreOfMails
  <1> QED
    BY <1>2, <1>3 DEF MailInv

\* An update that raises.
LEMMA RaiseHolds ==
    ASSUME Calendared, MailInv, NEW p \in Procs, NEW s \in Slots, Raise(p, s)
    PROVE  MailInv'
  <1>1. DigestTypeOK'
    BY DEF Raise, Released, Finished, MailInv, DigestTypeOK
  <1>2. \A q \in Procs, t \in Slots : updating'[q][t] \in {updating[q][t], 0}
    BY DEF Raise, Finished, MailInv, DigestTypeOK
  <1>3. CASE writer = <<p, s>>
    BY <1>1, <1>2, <1>3, ReleasedHolds DEF Raise
  <1>4. CASE writer # <<p, s>>
    BY <1>1, <1>2, <1>4, AsideHolds DEF Raise
  <1> QED
    BY <1>3, <1>4

\* A process killed in its transaction.
LEMMA CrashHolds ==
    ASSUME Calendared, MailInv, NEW p \in Procs, Crash(p)
    PROVE  MailInv'
  <1>1. DigestTypeOK'
    BY DEF Crash, Released, MailInv, DigestTypeOK, Idle
  <1>2. \A q \in Procs, t \in Slots : updating'[q][t] \in {updating[q][t], 0}
    BY DEF Crash, MailInv, DigestTypeOK, Idle
  <1> QED
    BY <1>1, <1>2, ReleasedHolds DEF Crash

\* Midnight.
LEMMA NextDateHolds ==
    ASSUME Calendared, MailInv, NextDate
    PROVE  MailInv'
  <1>1. /\ date \in Nat /\ MaxDate \in Nat /\ Dates = 1 .. MaxDate
        /\ \A p \in Procs, s \in Slots : updating[p][s] \in Nat
        /\ marker \in Nat /\ unsaved \in Nat
    BY DEF Calendared, MailInv, DigestTypeOK, Dates
  <1>2. DigestTypeOK'
    BY <1>1 DEF NextDate, MailInv, DigestTypeOK
  <1>3. AtMostOnce' /\ Unsent' /\ SetBack'
    BY <1>1 DEF NextDate, MailInv, AtMostOnce, Unsent, SetBack
  <1>4. MarkersAreOfMails'
    BY <1>1 DEF NextDate, MailInv, MarkersAreOfMails
  <1> QED
    BY <1>2, <1>3, <1>4 DEF MailInv

\* The invariant of every behaviour: each action preserves it.
THEOREM MailsAreCounted == DigestSpec => []MailInv
  <1> USE DigestAssumption
  <1>1. DigestInit => MailInv
    BY DigestStarts
  <1>2. MailInv /\ [DigestNext]_digestVars => MailInv'
    <2> SUFFICES ASSUME MailInv, [DigestNext]_digestVars PROVE MailInv'
      OBVIOUS
    <2>1. ASSUME NEW p \in Procs, Boot(p) \/ Fire(p) \/ Stop(p) \/ Crash(p) PROVE MailInv'
      BY <2>1, BootHolds, FireHolds, StopHolds, CrashHolds
    <2>2. ASSUME NEW p \in Procs, NEW s \in Slots,
                 Click(p, s) \/ SyncAndMail(p, s) \/ Commit(p, s) \/ Raise(p, s)
          PROVE  MailInv'
      BY <2>2, ClickHolds, SyncAndMailHolds, CommitHolds, RaiseHolds
    <2>3. CASE NextDate
      BY <2>3, NextDateHolds
    <2>4. CASE UNCHANGED digestVars
      <3>1. DigestTypeOK'
        BY <2>4 DEF digestVars, MailInv, DigestTypeOK
      <3> QED
        BY <2>4, <3>1, AsideHolds DEF digestVars
    <2> QED
      BY <2>1, <2>2, <2>3, <2>4 DEF DigestNext
  <1> QED
    BY <1>1, <1>2, PTL DEF DigestSpec

\* The variables keep their types: an update under way always has a session.
THEOREM DigestTypeCorrect == DigestSpec => []DigestTypeOK
  <1> USE DigestAssumption
  <1>1. MailInv => DigestTypeOK
    BY DEF MailInv
  <1> QED
    BY <1>1, MailsAreCounted, PTL

\* However many processes start, overlap and die, and however updates are asked
\* for, a day's digest is mailed once, but for transactions lost after their
\* mail and updates that outlasted their day; and no day is marked unmailed.
THEOREM DigestIsMailedOnce == DigestSpec => []DigestAtMostOnce
  <1> USE DigestAssumption
  <1>1. MailInv => DigestAtMostOnce
    BY DEF MailInv, AtMostOnce, MarkersAreOfMails, DigestAtMostOnce
  <1> QED
    BY <1>1, MailsAreCounted, PTL

---------------------------------------------------------------------------
(* The nightly backup                                                      *)

\* The file that is named and not verified yet.
Unverified == IF step = "named" THEN {night} ELSE {}
GoodKept == Good \ Unverified
BadKept == {d \in Nights : files[d] = "bad"} \ Unverified

\* The files a rotation left and what came without one since.
Counted == IF step \in {"named", "verified"} THEN Named(files) \ {night} ELSE Named(files)

\* Tonight's file is new.
NightIsNew ==
    /\ \A d \in Nights : d > night => files[d] = "none"
    /\ step \in {"due", "copied"} => files[night] = "none"
    /\ \A d \in verified : d <= night
    /\ step \in {"due", "copied", "named"} => night \notin verified
    /\ noted <= night

\* Verified tonight, and kept if the rotation keeps anything.
TonightIsGood ==
    /\ step = "verified" => files[night] = "good"
    /\ step = "rotated" /\ Retention > mishaps => files[night] = "good"

\* Each file that is no backup, and each file too many, is a mishap.
MishapsAreCounted ==
    /\ Cardinality(BadKept) <= mishaps
    /\ Cardinality(Counted) <= Retention + mishaps

EnoughAreKept ==
    \/ Cardinality(GoodKept) >= Cardinality(verified)
    \/ Cardinality(GoodKept) >= Retention - mishaps

NewestIsKept == noted # 0 /\ Retention > mishaps => \E d \in GoodKept : d >= noted

BackupInv == /\ BackupTypeOK /\ NightIsNew /\ TonightIsGood
             /\ MishapsAreCounted /\ EnoughAreKept /\ NewestIsKept

\* Sets of nights are finite.
LEMMA NightsCount ==
    ASSUME Nightly
    PROVE  \A S \in SUBSET Nights : IsFiniteSet(S) /\ Cardinality(S) \in Nat
  <1>1. IsFiniteSet(Nights)
    BY FS_Interval DEF Nightly, Nights
  <1> QED
    BY <1>1, FS_Subset, FS_CardinalityType

\* The nights of a set after one of them, and those with n after them.
Newer(S, d) == {e \in S : e > d}
Beyond(S, n) == {d \in S : Cardinality(Newer(S, d)) >= n}

\* Of a set of nights those without n newer ones are n, or all of them, and the
\* newest is among them.
LEMMA NewestAreKept ==
    ASSUME Nightly, NEW S \in SUBSET Nights, NEW n \in Nat
    PROVE  /\ Cardinality(S \ Beyond(S, n)) <= n
           /\ Beyond(S, n) = {} \/ Cardinality(S \ Beyond(S, n)) >= n
           /\ n > 0 => \A d \in S : (\A e \in S : e <= d) => d \notin Beyond(S, n)
  <1> DEFINE Old == Beyond(S, n)
  <1>0. \A d : d \in Old <=> d \in S /\ Cardinality(Newer(S, d)) >= n
    BY DEF Beyond
  <1> HIDE DEF Old
  <1>1. Nights \subseteq Nat /\ S \in SUBSET Nat /\ S \in SUBSET (0 .. MaxNight) /\ MaxNight \in Nat
    BY DEF Nights, Nightly
  <1> \A e \in S : e \in Nat
    BY <1>1
  <1>2. \A d : IsFiniteSet(Newer(S, d)) /\ Cardinality(Newer(S, d)) \in Nat
    BY NightsCount DEF Newer
  <1>3. IsFiniteSet(S \ Old) /\ Cardinality(S \ Old) \in Nat
    BY NightsCount
  <1>4. Cardinality(S \ Old) <= n
    <2>1. CASE S \ Old = {}
      BY <2>1, FS_EmptySet
    <2>2. CASE S \ Old # {}
      <3> DEFINE d == Min(S \ Old)
      <3>1. d \in S \ Old /\ \A e \in S \ Old : d <= e
        <4>1. (S \ Old) \in SUBSET Nat
          BY <1>1
        <4> QED
          BY <2>2, <4>1, MinIsLeast
      <3> HIDE DEF d
      <3>2. (S \ Old) \in SUBSET (Newer(S, d) \cup {d})
        <4>1. \A e \in S \ Old : e > d \/ e = d
          BY <3>1
        <4> QED
          BY <4>1 DEF Newer
      <3>3. Cardinality(S \ Old) <= Cardinality(Newer(S, d)) + 1
        BY <1>2, <3>2, OneMoreAtMost
      <3>4. Cardinality(Newer(S, d)) < n
        BY <1>0, <1>2, <3>1
      <3> QED
        BY <1>2, <1>3, <3>3, <3>4
    <2> QED
      BY <2>1, <2>2
  <1>5. Old = {} \/ Cardinality(S \ Old) >= n
    <2> SUFFICES ASSUME Old # {} PROVE Cardinality(S \ Old) >= n
      OBVIOUS
    <2> DEFINE s == Max(Old)
    <2>1. Old \in SUBSET (0 .. MaxNight) /\ Old \in SUBSET S
      BY <1>0, <1>1
    <2>2. s \in Old /\ \A e \in Old : s >= e
      BY <1>1, <2>1, MaxIsGreatest
    <2> HIDE DEF s
    <2>3. Newer(S, s) \in SUBSET (S \ Old)
      <3>1. \A e \in S : e > s => e \notin Old
        BY <2>1, <2>2
      <3> QED
        BY <3>1 DEF Newer
    <2>4. Cardinality(Newer(S, s)) <= Cardinality(S \ Old)
      BY <1>3, <2>3, FS_Subset
    <2> QED
      BY <1>0, <1>2, <1>3, <2>2, <2>4
  <1>6. ASSUME n > 0, NEW d \in S, \A e \in S : e <= d PROVE d \notin Old
    <2>1. Newer(S, d) = {}
      <3>1. \A e \in S : ~(e > d)
        BY <1>6
      <3> QED
        BY <3>1 DEF Newer
    <2>2. Cardinality(Newer(S, d)) = 0
      BY <2>1, FS_EmptySet
    <2> QED
      BY <1>0, <1>6, <2>2
  <1> QED
    BY <1>4, <1>5, <1>6 DEF Old

\* An empty directory is as it should be.
LEMMA BackupInitHolds ==
    ASSUME Nightly, BackupInit
    PROVE  BackupInv
  <1>1. Good = {} /\ GoodKept = {} /\ BadKept = {} /\ Counted = {} /\ verified = {}
    BY DEF BackupInit, Good, GoodKept, BadKept, Counted, Named
  <1>2. Cardinality({}) = 0
    BY FS_EmptySet
  <1>3. BackupTypeOK /\ NightIsNew /\ TonightIsGood
    BY DEF Nightly, Nights, BackupInit, BackupTypeOK, NightIsNew, TonightIsGood
  <1>4. MishapsAreCounted /\ EnoughAreKept /\ NewestIsKept
    BY <1>1, <1>2 DEF Nightly, BackupInit, MishapsAreCounted, EnoughAreKept, NewestIsKept
  <1> QED
    BY <1>3, <1>4 DEF BackupInv

\* What a step that touches no file it has settled owes the invariant: good
\* files stay, and a bad or an uncounted one more is a mishap more.
LEMMA SettledStaysCounted ==
    ASSUME Nightly, BackupInv, BackupTypeOK', verified' = verified, noted' = noted,
           GoodKept \subseteq GoodKept', mishaps' >= mishaps,
           \/ BadKept' \subseteq BadKept
           \/ mishaps' > mishaps /\ (\E x : BadKept' \subseteq BadKept \cup {x}),
           \/ Counted' \subseteq Counted
           \/ mishaps' > mishaps /\ (\E x : Counted' \subseteq Counted \cup {x})
    PROVE  MishapsAreCounted' /\ EnoughAreKept' /\ NewestIsKept'
  <1>1. /\ MishapsAreCounted /\ EnoughAreKept /\ NewestIsKept
        /\ mishaps \in Nat /\ mishaps' \in Nat /\ Retention \in Nat
    BY DEF BackupInv, BackupTypeOK, Nightly
  <1>2. /\ GoodKept \in SUBSET Nights /\ GoodKept' \in SUBSET Nights /\ BadKept \in SUBSET Nights
        /\ BadKept' \in SUBSET Nights /\ Counted \in SUBSET Nights /\ Counted' \in SUBSET Nights
        /\ verified \in SUBSET Nights
    BY DEF GoodKept, BadKept, Counted, Good, Named, BackupInv, BackupTypeOK, Nights
  <1>3. /\ IsFiniteSet(GoodKept') /\ IsFiniteSet(BadKept) /\ IsFiniteSet(Counted)
        /\ Cardinality(GoodKept) \in Nat /\ Cardinality(GoodKept') \in Nat /\ Cardinality(BadKept) \in Nat
        /\ Cardinality(BadKept') \in Nat /\ Cardinality(Counted) \in Nat /\ Cardinality(Counted') \in Nat
        /\ Cardinality(verified) \in Nat
    BY <1>2, NightsCount
  <1>4. Cardinality(GoodKept) <= Cardinality(GoodKept')
    BY <1>3, FS_Subset
  <1>5. ASSUME NEW S, NEW T, IsFiniteSet(S), Cardinality(S) \in Nat, Cardinality(T) \in Nat,
               \/ T \subseteq S
               \/ mishaps' > mishaps /\ \E x : T \subseteq S \cup {x}
        PROVE  Cardinality(T) - Cardinality(S) <= mishaps' - mishaps
    <2>1. CASE T \subseteq S
      <3>1. Cardinality(T) <= Cardinality(S)
        BY <1>5, <2>1, FS_Subset
      <3> QED
        BY <1>1, <1>5, <3>1
    <2>2. CASE mishaps' > mishaps /\ \E x : T \subseteq S \cup {x}
      <3>1. PICK x : T \subseteq S \cup {x}
        BY <2>2
      <3>2. Cardinality(T) <= Cardinality(S) + 1
        BY <1>5, <3>1, OneMoreAtMost
      <3> QED
        BY <1>1, <1>5, <2>2, <3>2
    <2> QED
      BY <1>5, <2>1, <2>2
  <1>6. Cardinality(BadKept') - Cardinality(BadKept) <= mishaps' - mishaps
    BY <1>3, <1>5
  <1>7. Cardinality(Counted') - Cardinality(Counted) <= mishaps' - mishaps
    BY <1>3, <1>5
  <1>8. MishapsAreCounted'
    BY <1>1, <1>3, <1>6, <1>7 DEF MishapsAreCounted
  <1>9. EnoughAreKept'
    BY <1>1, <1>3, <1>4 DEF EnoughAreKept
  <1>10. NewestIsKept'
    BY <1>1 DEF NewestIsKept
  <1> QED
    BY <1>8, <1>9, <1>10

\* Every step keeps the types.
LEMMA BackupStepTyped ==
    ASSUME Nightly, BackupTypeOK, BackupNext
    PROVE  BackupTypeOK'
  <1>1. night \in Nights /\ mishaps \in 0 .. MaxMishaps /\ MaxMishaps \in Nat /\ MaxNight \in Nat
    BY DEF BackupTypeOK, Nightly
  <1>2. \A n \in Nights : n \in Nat
    BY DEF Nights
  <1>3. ASSUME Cleanup PROVE /\ files' \in [Nights -> {"none", "good", "bad"}] /\ tmp' \in SUBSET Nights
                             /\ mishaps' \in 0 .. MaxMishaps /\ step' = "over"
    BY <1>1, <1>3 DEF Cleanup, Cleaned, BackupTypeOK
  <1>4. CASE CopyToTmp
    BY <1>1, <1>4 DEF CopyToTmp, BackupTypeOK
  <1>5. CASE Replace
    BY <1>1, <1>5 DEF Replace, BackupTypeOK
  <1>6. CASE BackupFails
    BY <1>1, <1>3, <1>6 DEF BackupFails, BackupTypeOK
  <1>7. CASE Verify
    BY <1>1, <1>3, <1>7 DEF Verify, BackupTypeOK
  <1>8. CASE RotateBackups
    <2>1. PICK kept \in SUBSET Stale :
            /\ mishaps' = mishaps + Cardinality(kept) /\ mishaps' <= MaxMishaps
            /\ files' = [d \in Nights |-> IF d \in Stale \ kept THEN "none" ELSE files[d]]
      BY <1>8 DEF RotateBackups
    <2>2. kept \in SUBSET Nights
      BY DEF Stale, Named
    <2>3. Cardinality(kept) \in Nat
      BY <2>2, NightsCount
    <2>4. mishaps' \in 0 .. MaxMishaps
      BY <1>1, <2>1, <2>3
    <2>5. files' \in [Nights -> {"none", "good", "bad"}]
      BY <2>1 DEF BackupTypeOK
    <2> QED
      BY <1>8, <2>4, <2>5 DEF RotateBackups, BackupTypeOK
  <1>9. CASE RecordLastBackup
    BY <1>9 DEF RecordLastBackup, BackupTypeOK
  <1>10. CASE CrashInBackup
    BY <1>1, <1>10 DEF CrashInBackup, BackupTypeOK
  <1>11. CASE Vacuum
    BY <1>11 DEF Vacuum, BackupTypeOK
  <1>12. CASE NextNight
    BY <1>1, <1>12 DEF NextNight, BackupTypeOK, Nights
  <1> QED
    BY <1>4, <1>5, <1>6, <1>7, <1>8, <1>9, <1>10, <1>11, <1>12 DEF BackupNext

\* The steps that settle no file, or settle one at the cost of a mishap.
LEMMA PlainStepKeeps ==
    ASSUME Nightly, BackupInv, BackupTypeOK',
           \/ CopyToTmp \/ Replace \/ BackupFails \/ (Verify /\ files[night] # "good")
           \/ CrashInBackup \/ Vacuum \/ NextNight
    PROVE  BackupInv'
  <1>1. /\ BackupTypeOK /\ NightIsNew /\ TonightIsGood /\ night \in Nights /\ night \in Nat
        /\ files \in [Nights -> {"none", "good", "bad"}] /\ mishaps \in Nat
        /\ \A d \in Nights : d \in Nat
    BY DEF BackupInv, BackupTypeOK, Nights
  <1>2. verified' = verified /\ noted' = noted /\ mishaps' >= mishaps
    BY <1>1 DEF CopyToTmp, Replace, BackupFails, Verify, Cleanup, CrashInBackup, Vacuum, NextNight
  <1>3. /\ NightIsNew'
        /\ TonightIsGood'
        /\ GoodKept \subseteq GoodKept'
        /\ \/ BadKept' \subseteq BadKept
           \/ mishaps' > mishaps /\ \E x : BadKept' \subseteq BadKept \cup {x}
        /\ \/ Counted' \subseteq Counted
           \/ mishaps' > mishaps /\ \E x : Counted' \subseteq Counted \cup {x}
    <2> USE DEF NightIsNew, TonightIsGood, GoodKept, BadKept, Counted, Unverified, Good, Named
    <2>1. CASE CopyToTmp
      BY <1>1, <2>1 DEF CopyToTmp
    <2>2. CASE Replace
      BY <1>1, <2>2 DEF Replace
    <2>3. CASE BackupFails
      BY <1>1, <2>3 DEF BackupFails, Cleanup, Cleaned
    <2>4. CASE Verify /\ files[night] # "good"
      <3>1. step = "named" /\ step' = "over" /\ night' = night /\ files[night] # "good"
        BY <2>4 DEF Verify, Cleanup
      <3>2. CASE files' = [files EXCEPT ![night] = "none"] /\ mishaps' = mishaps
        BY <1>1, <1>2, <3>1, <3>2
      <3>3. CASE files' = files /\ mishaps' = mishaps + 1
        <4>1. NightIsNew' /\ TonightIsGood' /\ GoodKept \subseteq GoodKept' /\ mishaps' > mishaps
          BY <1>1, <1>2, <3>1, <3>3
        <4>2. BadKept' \subseteq BadKept \cup {night} /\ Counted' \subseteq Counted \cup {night}
          BY <3>1, <3>3
        <4> QED
          BY <4>1, <4>2
      <3> QED
        BY <2>4, <3>2, <3>3 DEF Verify, Cleanup, Cleaned
    <2>5. CASE CrashInBackup
      BY <1>1, <2>5 DEF CrashInBackup
    <2>6. CASE Vacuum
      BY <1>1, <2>6 DEF Vacuum
    <2>7. CASE NextNight
      <3>1. /\ step \in {"due", "over"} /\ step' = "due" /\ night' = night + 1
            /\ files' = files /\ mishaps' = mishaps
        BY <2>7 DEF NextNight
      <3>2. NightIsNew'
        <4>1. \A d \in Nights : d > night' => d > night
          BY <1>1, <3>1
        <4>2. night' \in Nights /\ night' > night
          BY <1>1, <3>1 DEF BackupTypeOK
        <4>3. \A d \in verified : d <= night /\ d \in Nat
          BY <1>1 DEF BackupTypeOK
        <4>4. noted \in Nat /\ noted <= night
          BY <1>1 DEF BackupTypeOK
        <4> QED
          BY <1>1, <1>2, <3>1, <4>1, <4>2, <4>3, <4>4
      <3>3. GoodKept' = GoodKept /\ BadKept' = BadKept /\ Counted' = Counted
        BY <3>1
      <3> QED
        BY <3>1, <3>2, <3>3
    <2> QED
      BY <2>1, <2>2, <2>3, <2>4, <2>5, <2>6, <2>7
  <1>4. MishapsAreCounted' /\ EnoughAreKept' /\ NewestIsKept'
    BY <1>2, <1>3, SettledStaysCounted
  <1> QED
    BY <1>3, <1>4 DEF BackupInv

\* A backup that passes its verification is one more to keep, and is kept.
LEMMA VerifyKeeps ==
    ASSUME Nightly, BackupInv, BackupTypeOK', Verify, files[night] = "good"
    PROVE  BackupInv'
  <1>1. /\ BackupTypeOK /\ NightIsNew /\ MishapsAreCounted /\ EnoughAreKept /\ NewestIsKept
        /\ night \in Nights /\ night \in Nat /\ mishaps \in Nat /\ Retention \in Nat
        /\ step = "named" /\ step' = "verified" /\ verified' = verified \cup {night}
        /\ UNCHANGED <<files, tmp, mishaps, night, noted, vacuumed>>
    BY DEF BackupInv, BackupTypeOK, Nights, Nightly, Verify
  <1>2. NightIsNew' /\ TonightIsGood'
    BY <1>1 DEF NightIsNew, TonightIsGood
  <1>3. /\ GoodKept' = GoodKept \cup {night} /\ night \notin GoodKept
        /\ BadKept' = BadKept /\ Counted' = Counted
    BY <1>1 DEF GoodKept, BadKept, Counted, Unverified, Good, Named
  <1>4. night \notin verified /\ GoodKept \in SUBSET Nights /\ verified \in SUBSET Nights
    BY <1>1 DEF NightIsNew, GoodKept, Good, BackupTypeOK
  <1>5. /\ IsFiniteSet(GoodKept) /\ IsFiniteSet(verified)
        /\ Cardinality(GoodKept) \in Nat /\ Cardinality(verified) \in Nat
    BY <1>4, NightsCount
  <1>6. Cardinality(GoodKept') = Cardinality(GoodKept) + 1 /\ Cardinality(verified') = Cardinality(verified) + 1
    BY <1>1, <1>3, <1>4, <1>5, FS_AddElement
  <1>7. MishapsAreCounted' /\ EnoughAreKept'
    BY <1>1, <1>3, <1>5, <1>6 DEF MishapsAreCounted, EnoughAreKept
  <1>8. NewestIsKept'
    BY <1>1, <1>3 DEF NewestIsKept
  <1> QED
    BY <1>2, <1>7, <1>8 DEF BackupInv

\* The rotation: of the newest files no more than the mishaps are no backups,
\* and tonight's is the newest.
LEMMA RotateKeeps ==
    ASSUME Nightly, BackupInv, BackupTypeOK', RotateBackups
    PROVE  BackupInv'
  <1>1. /\ BackupTypeOK /\ NightIsNew /\ TonightIsGood /\ MishapsAreCounted /\ EnoughAreKept /\ NewestIsKept
        /\ night \in Nights /\ night \in Nat /\ mishaps \in Nat /\ Retention \in Nat
        /\ files \in [Nights -> {"none", "good", "bad"}] /\ verified \in SUBSET Nights
        /\ \A d \in Nights : d \in Nat
    BY DEF BackupInv, BackupTypeOK, Nights, Nightly
  <1>2. /\ step = "verified" /\ step' = "rotated" /\ files[night] = "good"
        /\ night' = night /\ verified' = verified /\ noted' = noted
    BY <1>1 DEF RotateBackups, TonightIsGood
  <1>3. PICK kept \in SUBSET Stale :
          /\ mishaps' = mishaps + Cardinality(kept)
          /\ files' = [d \in Nights |-> IF d \in Stale \ kept THEN "none" ELSE files[d]]
    BY DEF RotateBackups
  <1> DEFINE N == Named(files)
             Newest == N \ Stale
  <1>4. Stale = Beyond(N, Retention) /\ N \in SUBSET Nights
    BY DEF Stale, Beyond, Newer, Named
  <1>5. /\ Cardinality(Newest) <= Retention /\ (Stale = {} \/ Cardinality(Newest) >= Retention)
        /\ Retention > 0 => \A d \in N : (\A e \in N : e <= d) => d \notin Stale
    <2> HIDE DEF N
    <2> QED
      BY <1>1, <1>4, NewestAreKept
  <1>6. kept \in SUBSET Nights /\ Newest \in SUBSET Nights /\ Stale \in SUBSET N
    BY <1>4 DEF Stale
  <1>7. /\ IsFiniteSet(kept) /\ Cardinality(kept) \in Nat
        /\ IsFiniteSet(Newest) /\ Cardinality(Newest) \in Nat /\ mishaps' \in Nat /\ mishaps' >= mishaps
    <2>1. IsFiniteSet(kept) /\ Cardinality(kept) \in Nat /\ IsFiniteSet(Newest) /\ Cardinality(Newest) \in Nat
      BY <1>6, NightsCount
    <2> QED
      BY <1>1, <1>3, <2>1
  <1>8. night \in N /\ \A e \in N : e <= night
    BY <1>1, <1>2 DEF Named, NightIsNew
  <1>9. Retention > 0 => night \notin Stale
    BY <1>5, <1>8
  <1>10. /\ Counted' = Newest \cup kept
         /\ GoodKept' = {d \in Good : d \notin Stale \ kept} /\ GoodKept = Good
         /\ BadKept = {d \in Nights : files[d] = "bad"}
         /\ BadKept' = {d \in BadKept : d \notin Stale \ kept}
    <2>1. \A d \in Nights : files'[d] = IF d \in Stale \ kept THEN "none" ELSE files[d]
      BY <1>3
    <2>2. Counted' = {d \in Nights : files'[d] # "none"} /\ GoodKept' = {d \in Nights : files'[d] = "good"}
          /\ BadKept' = {d \in Nights : files'[d] = "bad"}
      BY <1>2 DEF Counted, GoodKept, BadKept, Unverified, Named, Good
    <2>3. GoodKept = Good /\ BadKept = {d \in Nights : files[d] = "bad"} /\ Good = {d \in Nights : files[d] = "good"}
      BY <1>2 DEF GoodKept, BadKept, Unverified, Good
    <2>4. {d \in Nights : files'[d] # "none"} = Newest \cup kept
      BY <1>6, <2>1 DEF Named
    <2>5. {d \in Nights : files'[d] = "good"} = {d \in Good : d \notin Stale \ kept}
      BY <2>1, <2>3
    <2>6. {d \in Nights : files'[d] = "bad"} = {d \in BadKept : d \notin Stale \ kept}
      BY <2>1, <2>3
    <2> QED
      BY <2>2, <2>3, <2>4, <2>5, <2>6
  <1>11. BadKept \in SUBSET Nights /\ Good \in SUBSET Nights
    BY <1>10 DEF Good
  <1>12. /\ IsFiniteSet(BadKept) /\ Cardinality(BadKept) \in Nat
         /\ IsFiniteSet(Good) /\ Cardinality(Good) \in Nat
         /\ IsFiniteSet(GoodKept') /\ Cardinality(GoodKept') \in Nat
         /\ Cardinality(BadKept') \in Nat /\ Cardinality(verified) \in Nat
    <2>1. GoodKept' \in SUBSET Nights /\ BadKept' \in SUBSET Nights
      BY <1>10, <1>11
    <2> QED
      BY <1>1, <1>11, <2>1, NightsCount
  <1>13. NightIsNew' /\ TonightIsGood'
    <2>1. files'[night] = IF night \in Stale \ kept THEN "none" ELSE files[night]
      BY <1>1, <1>3
    <2>2. \A d \in Nights : d > night => files'[d] = "none"
      BY <1>1, <1>3 DEF NightIsNew
    <2>3. NightIsNew'
      BY <1>1, <1>2, <2>2 DEF NightIsNew
    <2>4. TonightIsGood'
      BY <1>1, <1>2, <1>7, <1>9, <2>1 DEF TonightIsGood
    <2> QED
      BY <2>3, <2>4
  <1> HIDE DEF Newest, N
  <1>14. MishapsAreCounted'
    <2>1. Cardinality(BadKept') <= Cardinality(BadKept)
      <3>1. BadKept' \in SUBSET BadKept
        BY <1>10
      <3> QED
        BY <1>12, <3>1, FS_Subset
    <2>2. Cardinality(Newest \cup kept) = Cardinality(Newest) + Cardinality(kept)
      <3>1. Newest \cap kept = {}
        BY DEF Newest
      <3> QED
        BY <1>7, <3>1, ApartAddUp
    <2>3. Cardinality(BadKept) <= mishaps
      BY <1>1 DEF MishapsAreCounted
    <2>4. Cardinality(BadKept') <= mishaps'
      BY <1>1, <1>7, <1>12, <2>1, <2>3
    <2>5. Cardinality(Counted') <= Retention + mishaps'
      BY <1>1, <1>3, <1>5, <1>7, <1>10, <2>2
    <2> QED
      BY <2>4, <2>5 DEF MishapsAreCounted
  <1>15. EnoughAreKept'
    <2>1. CASE Stale = {}
      <3>1. GoodKept' = GoodKept
        BY <1>10, <2>1
      <3> QED
        BY <1>1, <1>2, <1>7, <1>10, <1>12, <3>1 DEF EnoughAreKept
    <2>2. CASE Stale # {}
      <3>1. Newest \in SUBSET (GoodKept' \cup BadKept)
        BY <1>1, <1>10 DEF Newest, N, Named, Good
      <3>2. /\ IsFiniteSet(GoodKept' \cup BadKept)
            /\ Cardinality(GoodKept' \cup BadKept) = Cardinality(GoodKept') + Cardinality(BadKept)
        <4>1. GoodKept' \cap BadKept = {}
          BY <1>10 DEF Good
        <4> QED
          BY <1>12, <4>1, ApartAddUp
      <3>3. Cardinality(Newest) <= Cardinality(GoodKept') + Cardinality(BadKept)
        BY <3>1, <3>2, FS_Subset
      <3>4. Cardinality(GoodKept') >= Retention - mishaps'
        BY <1>1, <1>5, <1>7, <1>12, <2>2, <3>3 DEF MishapsAreCounted
      <3> QED
        BY <3>4 DEF EnoughAreKept
    <2> QED
      BY <2>1, <2>2
  <1>16. NewestIsKept'
    <2> SUFFICES ASSUME Retention > mishaps' PROVE night \in GoodKept' /\ night >= noted
      BY <1>2 DEF NewestIsKept
    <2>1. night \notin Stale
      BY <1>1, <1>7, <1>9
    <2>2. night \in Good
      BY <1>1, <1>2 DEF Good
    <2> QED
      BY <1>1, <1>10, <2>1, <2>2 DEF NightIsNew, BackupTypeOK
  <1> QED
    BY <1>13, <1>14, <1>15, <1>16 DEF BackupInv

\* The day noted is that of a backup that is there.
LEMMA RecordKeeps ==
    ASSUME Nightly, BackupInv, BackupTypeOK', RecordLastBackup
    PROVE  BackupInv'
  <1>1. /\ BackupTypeOK /\ NightIsNew /\ TonightIsGood /\ MishapsAreCounted /\ EnoughAreKept /\ NewestIsKept
        /\ step = "rotated" /\ step' = "over" /\ noted' \in {noted, night}
        /\ UNCHANGED <<night, files, tmp, vacuumed, verified, mishaps>>
        /\ night \in Nights /\ night \in Nat
    BY DEF BackupInv, BackupTypeOK, Nights, RecordLastBackup
  <1>2. NightIsNew' /\ TonightIsGood'
    BY <1>1 DEF NightIsNew, TonightIsGood
  <1>3. GoodKept' = GoodKept /\ BadKept' = BadKept /\ Counted' = Counted
    BY <1>1 DEF GoodKept, BadKept, Counted, Unverified, Good, Named
  <1>4. MishapsAreCounted' /\ EnoughAreKept'
    BY <1>1, <1>3 DEF MishapsAreCounted, EnoughAreKept
  <1>5. Retention > mishaps => night \in GoodKept
    BY <1>1 DEF TonightIsGood, GoodKept, Good, Unverified
  <1>6. NewestIsKept'
    BY <1>1, <1>3, <1>5 DEF NewestIsKept
  <1> QED
    BY <1>2, <1>4, <1>6 DEF BackupInv

\* The invariant of the nights, whatever fails and wherever the process stops.
THEOREM BackupsHold == BackupSpec => []BackupInv
  <1> USE BackupAssumption
  <1>1. BackupInit => BackupInv
    BY BackupInitHolds
  <1>2. BackupInv /\ [BackupNext]_backupVars => BackupInv'
    <2> SUFFICES ASSUME BackupInv, [BackupNext]_backupVars PROVE BackupInv'
      OBVIOUS
    <2>1. CASE UNCHANGED backupVars
      BY <2>1 DEF backupVars, BackupInv, BackupTypeOK, NightIsNew, TonightIsGood, MishapsAreCounted,
           EnoughAreKept, NewestIsKept, GoodKept, BadKept, Counted, Unverified, Good, Named
    <2>2. CASE BackupNext
      <3>1. BackupTypeOK'
        BY <2>2, BackupStepTyped DEF BackupInv
      <3> QED
        <4>1. CASE \/ CopyToTmp \/ Replace \/ BackupFails \/ (Verify /\ files[night] # "good")
                   \/ CrashInBackup \/ Vacuum \/ NextNight
          BY <3>1, <4>1, PlainStepKeeps
        <4>2. CASE Verify /\ files[night] = "good"
          BY <3>1, <4>2, VerifyKeeps
        <4>3. CASE RotateBackups
          BY <3>1, <4>3, RotateKeeps
        <4>4. CASE RecordLastBackup
          BY <3>1, <4>4, RecordKeeps
        <4> QED
          BY <2>2, <4>1, <4>2, <4>3, <4>4 DEF BackupNext
    <2> QED
      BY <2>1, <2>2
  <1> QED
    BY <1>1, <1>2, PTL DEF BackupSpec

\* The nightly backup's and the VACUUM's state keeps its type.
THEOREM BackupTypeCorrect == BackupSpec => []BackupTypeOK
  <1> USE BackupAssumption
  <1>1. BackupInv => BackupTypeOK
    BY DEF BackupInv
  <1> QED
    BY <1>1, BackupsHold, PTL

\* For any retention, crashes, stuck files and broken copies: the newest
\* verified backups are there, less one a mishap; what was noted as the last
\* backup is there or a newer one is; files do not pile up.
THEOREM BackupsAreRestorable == BackupSpec => []RestorableBackup
  <1> USE BackupAssumption
  <1>1. BackupInv => RestorableBackup
    <2> SUFFICES ASSUME BackupInv PROVE RestorableBackup
      OBVIOUS
    <2>1. /\ BackupTypeOK /\ MishapsAreCounted /\ EnoughAreKept /\ NewestIsKept
          /\ mishaps \in Nat /\ Retention \in Nat /\ MaxNight \in Nat /\ noted \in Nat
      BY DEF BackupInv, BackupTypeOK, Nightly, Nights
    <2>2. /\ GoodKept \in SUBSET Good /\ Good \in SUBSET Nights /\ verified \in SUBSET Nights
          /\ GoodKept \in SUBSET Nights
      BY <2>1 DEF GoodKept, Good, BackupTypeOK
    <2>3. /\ IsFiniteSet(Good) /\ Cardinality(Good) \in Nat /\ Cardinality(GoodKept) \in Nat
          /\ Cardinality(verified) \in Nat
      BY <2>2, NightsCount
    <2>4. Cardinality(GoodKept) <= Cardinality(Good)
      BY <2>2, <2>3, FS_Subset
    <2>5. Cardinality(Good) >= Min({Cardinality(verified), Retention - mishaps})
      <3>1. Min({Cardinality(verified), Retention - mishaps})
              = IF Cardinality(verified) <= Retention - mishaps THEN Cardinality(verified) ELSE Retention - mishaps
        BY <2>1, <2>3, MinOfTwo
      <3>2. Cardinality(Good) >= Cardinality(verified) \/ Cardinality(Good) >= Retention - mishaps
        BY <2>1, <2>3, <2>4 DEF EnoughAreKept
      <3> QED
        BY <2>1, <2>3, <3>1, <3>2
    <2>6. ASSUME noted # 0, Retention > mishaps PROVE Max(Good) >= noted
      <3>1. PICK d \in GoodKept : d >= noted
        BY <2>1, <2>6 DEF NewestIsKept
      <3>2. Good \in SUBSET (0 .. MaxNight) /\ Good # {}
        BY <2>1, <2>2, <3>1 DEF Nights
      <3>3. Max(Good) \in Good /\ \A y \in Good : Max(Good) >= y
        BY <2>1, <3>2, MaxIsGreatest
      <3>4. Max(Good) >= d /\ Max(Good) \in Nat /\ d \in Nat
        <4>1. d \in Good /\ \A y \in Good : y \in Nat
          BY <2>2, <3>2
        <4> QED
          BY <3>3, <4>1
      <3> QED
        BY <2>1, <3>1, <3>4
    <2>7. step \in {"due", "over"} => Cardinality(Named(files)) <= Retention + mishaps
      BY <2>1 DEF MishapsAreCounted, Counted
    <2> QED
      BY <2>5, <2>6, <2>7 DEF RestorableBackup
  <1> QED
    BY <1>1, BackupsHold, PTL
=============================================================================
