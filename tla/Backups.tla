-------------------------------- MODULE Backups --------------------------------
(***************************************************************************)
(* The nightly backup (jobs/backup.py) and the monthly VACUUM              *)
(* (jobs/vacuum.py).  Neither awaits anything, so of one process only a    *)
(* crash comes between two of their steps.                                 *)
(***************************************************************************)
EXTENDS Integers, FiniteSets, FiniteSetsExt

CONSTANTS Retention,    \* backups kept (30)
          Cooldown,     \* days between two VACUUMs (25)
          MaxNight,     \* bound: nights
          MaxMishaps    \* bound: crashes and files that cannot be unlinked

Nightly == Retention \in Nat /\ MaxMishaps \in Nat /\ MaxNight \in Nat \ {0}
ASSUME BackupAssumption == Nightly

VARIABLES night,     \* the day
          step,      \* where tonight's backup is
          files,     \* eiswein-<day>.db: [days -> "none", "good" or "bad"]
          tmp,       \* the days with a .tmp file
          noted,     \* last_backup_at, a day, or 0
          vacuumed,  \* last_vacuum_at, a day, or 0
          verified,  \* history: days whose backup passed its verification
          mishaps    \* how many so far

backupVars == <<night, step, files, tmp, noted, vacuumed, verified, mishaps>>

Nights == 1..MaxNight
Named(table) == {d \in Nights : table[d] # "none"}
Good == {d \in Nights : files[d] = "good"}

BackupInit ==
  /\ night = 1 /\ step = "due" /\ files = [d \in Nights |-> "none"] /\ tmp = {}
  /\ noted = 0 /\ vacuumed = 0 /\ verified = {} /\ mishaps = 0

(* The copy goes to the temporary name, over a leftover of the same day.   *)
CopyToTmp ==
  /\ step = "due"
  /\ step' = "copied" /\ tmp' = tmp \cup {night}
  /\ UNCHANGED <<night, files, noted, vacuumed, verified, mishaps>>

(* The rename; the database copied may itself be broken.                   *)
Replace ==
  /\ step = "copied"
  /\ step' = "named" /\ tmp' = tmp \ {night}
  /\ \E quality \in {"good", "bad"} : files' = [files EXCEPT ![night] = quality]
  /\ UNCHANGED <<night, noted, vacuumed, verified, mishaps>>

(* _cleanup_partial takes tonight's file and its .tmp away, unless the     *)
(* unlink fails too.                                                       *)
Cleaned == files' = [files EXCEPT ![night] = "none"] /\ tmp' = tmp \ {night}
Cleanup ==
  /\ step' = "over"
  /\ \/ Cleaned /\ UNCHANGED mishaps
     \/ mishaps < MaxMishaps /\ mishaps' = mishaps + 1 /\ UNCHANGED <<files, tmp>>

BackupFails ==
  /\ step = "copied"
  /\ Cleanup
  /\ UNCHANGED <<night, noted, vacuumed, verified>>

Verify ==
  /\ step = "named"
  /\ IF files[night] = "good"
     THEN step' = "verified" /\ verified' = verified \cup {night} /\ UNCHANGED <<files, tmp, mishaps>>
     ELSE Cleanup /\ UNCHANGED verified
  /\ UNCHANGED <<night, noted, vacuumed>>

(* Mutant: one file too few is kept.                                       *)
StaleEarlier == {d \in Named(files) : Cardinality({e \in Named(files) : e > d}) >= Retention - 1}

(* The files beyond the newest Retention; one that stays is a mishap.      *)
Stale == {d \in Named(files) : Cardinality({e \in Named(files) : e > d}) >= Retention}
RotateBackups ==
  /\ step = "verified"
  /\ step' = "rotated"
  /\ \E kept \in SUBSET Stale :
       /\ mishaps' = mishaps + Cardinality(kept) /\ mishaps' <= MaxMishaps
       /\ files' = [d \in Nights |-> IF d \in Stale \ kept THEN "none" ELSE files[d]]
  /\ UNCHANGED <<night, tmp, noted, vacuumed, verified>>

(* Best effort.                                                            *)
RecordLastBackup ==
  /\ step = "rotated"
  /\ step' = "over" /\ noted' \in {noted, night}
  /\ UNCHANGED <<night, files, tmp, vacuumed, verified, mishaps>>

CrashInBackup ==
  /\ step \notin {"due", "over"} /\ mishaps < MaxMishaps
  /\ step' = "over" /\ mishaps' = mishaps + 1
  /\ UNCHANGED <<night, files, tmp, noted, vacuumed, verified>>

(* VACUUM, unless the last one noted is too recent; noted best effort.     *)
Vacuum ==
  /\ step \in {"due", "over"}
  /\ vacuumed = 0 \/ night - vacuumed >= Cooldown
  /\ vacuumed' = night
  /\ UNCHANGED <<night, step, files, tmp, noted, verified, mishaps>>

(* A night may also pass without a backup: the process was down.           *)
NextNight ==
  /\ step \in {"due", "over"} /\ night < MaxNight
  /\ night' = night + 1 /\ step' = "due"
  /\ UNCHANGED <<files, tmp, noted, vacuumed, verified, mishaps>>

BackupNext == CopyToTmp \/ Replace \/ BackupFails \/ Verify \/ RotateBackups \/ RecordLastBackup \/ CrashInBackup \/ Vacuum \/ NextNight

BackupSpec == BackupInit /\ [][BackupNext]_backupVars

---------------------------------------------------------------------------
BackupTypeOK ==
  /\ night \in Nights /\ step \in {"due", "copied", "named", "verified", "rotated", "over"}
  /\ files \in [Nights -> {"none", "good", "bad"}] /\ tmp \in SUBSET Nights
  /\ noted \in Nights \cup {0} /\ vacuumed \in Nights \cup {0}
  /\ verified \in SUBSET Nights /\ mishaps \in 0..MaxMishaps

(* Of the backups that were ever verified the newest Retention are there,  *)
(* less one for each crash or stuck file that left a file of its own to be *)
(* counted in their place; and no more files pile up than that.            *)
RestorableBackup ==
  /\ Cardinality(Good) >= Min({Cardinality(verified), Retention - mishaps})
  /\ noted # 0 /\ Retention > mishaps => Max(Good) >= noted
  /\ step \in {"due", "over"} => Cardinality(Named(files)) <= Retention + mishaps
=============================================================================
