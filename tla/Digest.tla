-------------------------------- MODULE Digest --------------------------------
(***************************************************************************)
(* Who runs the daily update, and how often its catalyst digest is mailed. *)
(*                                                                         *)
(* Processes come and go; the one that holds the scheduler's file lock     *)
(* fires the cron job and a catch-up when it starts.  The digest goes out  *)
(* inside the update's last transaction, before its commit, guarded by a   *)
(* marker row of the same transaction.  The update's prices and indicators *)
(* are the business of PriceBars and PostureStreak.                        *)
(***************************************************************************)
EXTENDS Integers, FiniteSets, FiniteSetsExt

CONSTANTS Procs,        \* server processes on one database
          NoOne,        \* no process writes
          MaxDate,      \* bound: calendar days
          Sessions,     \* the NYSE sessions among them
          MaxUpdates,   \* bound: updates begun
          MaxBoots      \* bound: process starts

(* How an update is asked for.  The two routes differ in their trigger:    *)
(* POST /data/refresh leaves it at its default, "scheduled".               *)
Slots == {"cron", "startup", "refresh", "manual"}
Trigger(s) == IF s \in {"cron", "refresh"} THEN "scheduled" ELSE s
EmailSendingTriggers == {"scheduled"}

(* The first day is a session.                                             *)
Dates == 1..MaxDate
Calendared ==
  /\ MaxDate \in Nat \ {0}
  /\ Sessions \subseteq Dates /\ 1 \in Sessions
  /\ NoOne \notin Procs \X Slots
ASSUME DigestAssumption == Calendared

VARIABLES date,      \* today_et()
          proc,      \* [Procs -> "down", "serving" or "scheduling" (holds the lock)]
          cronDue,   \* today's 06:30 has not come yet
          updating,  \* [Procs -> [Slots -> session_day of the update in progress, or 0]]
          writer,    \* who holds SQLite's write lock: <<process, slot>>, or NoOne
          unsaved,   \* the marker written in that transaction, or 0
          marker,    \* catalyst_digest_last_sent_date, or 0
          lastRun,   \* last_daily_update_at, a day, or 0
          sent,      \* history: digests mailed, [days -> Nat]
          lost,      \* history: transactions lost after their mail
          late,      \* history: mails of an update that outlasted its day
          spent      \* the bounds' use

digestVars == <<date, proc, cronDue, updating, writer, unsaved, marker, lastRun, sent, lost, late, spent>>

LastTradingDay == Max({d \in Sessions : d <= date})
Idle == [s \in Slots |-> 0]
Mine(p) == writer # NoOne /\ writer[1] = p

DigestInit ==
  /\ date = 1 /\ proc = [p \in Procs |-> "down"] /\ cronDue = TRUE
  /\ updating = [p \in Procs |-> Idle]
  /\ writer = NoOne /\ unsaved = 0 /\ marker = 0 /\ lastRun = 0
  /\ sent = [d \in Dates |-> 0] /\ lost = 0 /\ late = 0
  /\ spent = [updates |-> 0, boots |-> 0]

(* Between the reading of the session day and the calendar sync an update  *)
(* only fetches, and commits what it has.                                  *)
Begin(p, s) ==
  /\ updating[p][s] = 0 /\ spent.updates < MaxUpdates
  /\ updating' = [updating EXCEPT ![p][s] = LastTradingDay]
  /\ spent' = [spent EXCEPT !.updates = @ + 1]

(* The lifespan: a process that does not get the lock, or whose scheduler  *)
(* does not start, serves without one and never tries again.               *)
Boot(p) ==
  /\ proc[p] = "down" /\ spent.boots < MaxBoots
  /\ \/ /\ \A q \in Procs : proc[q] # "scheduling"
        /\ proc' = [proc EXCEPT ![p] = "scheduling"]
        /\ updating' = [updating EXCEPT ![p]["startup"] = LastTradingDay]
     \/ proc' = [proc EXCEPT ![p] = "serving"] /\ UNCHANGED updating
  /\ spent' = [spent EXCEPT !.boots = @ + 1]
  /\ UNCHANGED <<date, cronDue, writer, unsaved, marker, lastRun, sent, lost, late>>

(* The cron point, in the process that has the lock; missed if it is down. *)
Fire(p) ==
  /\ proc[p] = "scheduling" /\ cronDue
  /\ cronDue' = FALSE
  /\ IF date \in Sessions THEN Begin(p, "cron") ELSE UNCHANGED <<updating, spent>>
  /\ UNCHANGED <<date, proc, writer, unsaved, marker, lastRun, sent, lost, late>>

Click(p, s) ==
  /\ proc[p] # "down" /\ s \in {"refresh", "manual"}
  /\ Trigger(s) = "scheduled" => date \in Sessions
  /\ Begin(p, s)
  /\ UNCHANGED <<date, proc, cronDue, writer, unsaved, marker, lastRun, sent, lost, late>>

(* The calendar upsert takes the write lock; in the same synchronous       *)
(* stretch the marker is read, the digest mailed and the marker set, unless *)
(* there are no events or the relay fails.                                 *)
(* Mutant: no look at the marker.                                          *)
SendAnyway(s, asOf) == Trigger(s) \in EmailSendingTriggers
MaySend(s, asOf) == Trigger(s) \in EmailSendingTriggers /\ marker # asOf
SyncAndMail(p, s) ==
  /\ updating[p][s] # 0 /\ writer = NoOne
  /\ writer' = <<p, s>>
  /\ \/ UNCHANGED <<unsaved, sent, late>>
     \/ LET asOf == updating[p][s]
        IN  /\ MaySend(s, asOf)
            /\ unsaved' = asOf
            /\ sent' = [sent EXCEPT ![asOf] = @ + 1]
            /\ late' = IF asOf < date THEN late + 1 ELSE late
  /\ UNCHANGED <<date, proc, cronDue, updating, marker, lastRun, lost, spent>>

Finished(p, s) == updating' = [updating EXCEPT ![p][s] = 0]

(* The caller's commit.  Only the cron job notes when it ran, best effort. *)
Commit(p, s) ==
  /\ writer = <<p, s>>
  /\ writer' = NoOne /\ unsaved' = 0
  /\ marker' = IF unsaved # 0 THEN unsaved ELSE marker
  /\ \/ s = "cron" /\ lastRun' = date
     \/ UNCHANGED lastRun
  /\ Finished(p, s)
  /\ UNCHANGED <<date, proc, cronDue, sent, lost, late, spent>>

Released == /\ writer' = NoOne /\ unsaved' = 0
            /\ lost' = IF unsaved # 0 THEN lost + 1 ELSE lost

(* An update that raises, while it fetches or at its commit.               *)
Raise(p, s) ==
  /\ updating[p][s] # 0
  /\ IF writer = <<p, s>> THEN Released ELSE UNCHANGED <<writer, unsaved, lost>>
  /\ Finished(p, s)
  /\ UNCHANGED <<date, proc, cronDue, marker, lastRun, sent, late, spent>>

(* A shutdown cancels the catch-up and the cron job at an await, so never  *)
(* inside the stretch from the upsert to the commit.                       *)
Stop(p) ==
  /\ proc[p] # "down" /\ ~Mine(p)
  /\ proc' = [proc EXCEPT ![p] = "down"]
  /\ updating' = [updating EXCEPT ![p] = Idle]
  /\ UNCHANGED <<date, cronDue, writer, unsaved, marker, lastRun, sent, lost, late, spent>>

Crash(p) ==
  /\ Mine(p)
  /\ proc' = [proc EXCEPT ![p] = "down"]
  /\ updating' = [updating EXCEPT ![p] = Idle]
  /\ Released
  /\ UNCHANGED <<date, cronDue, marker, lastRun, sent, late, spent>>

NextDate ==
  /\ date < MaxDate
  /\ date' = date + 1 /\ cronDue' = TRUE
  /\ UNCHANGED <<proc, updating, writer, unsaved, marker, lastRun, sent, lost, late, spent>>

DigestNext ==
  \/ \E p \in Procs :
       \/ Boot(p) \/ Fire(p) \/ Stop(p) \/ Crash(p)
       \/ \E s \in Slots : Click(p, s) \/ SyncAndMail(p, s) \/ Commit(p, s) \/ Raise(p, s)
  \/ NextDate

DigestSpec == DigestInit /\ [][DigestNext]_digestVars

---------------------------------------------------------------------------
DigestTypeOK ==
  /\ date \in Dates /\ cronDue \in BOOLEAN
  /\ proc \in [Procs -> {"down", "serving", "scheduling"}]
  /\ updating \in [Procs -> [Slots -> Dates \cup {0}]]
  /\ writer \in (Procs \X Slots) \cup {NoOne}
  /\ unsaved \in Dates \cup {0} /\ marker \in Dates \cup {0} /\ lastRun \in Dates \cup {0}
  /\ sent \in [Dates -> Nat] /\ lost \in Nat /\ late \in Nat
  /\ spent \in [updates : Nat, boots : Nat]

(* However many processes, clicks and restarts a day sees, its digest is   *)
(* mailed once; only a transaction lost after its mail, or an update that  *)
(* outlasted its day and set the marker back, may repeat it.  And a day is *)
(* marked only if its digest went out: a relay that fails burns no slot.   *)
DigestAtMostOnce ==
  /\ \A d \in Dates : sent[d] <= 1 + lost + late
  /\ marker # 0 => sent[marker] > 0
=============================================================================
