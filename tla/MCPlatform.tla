----------------------------- MODULE MCPlatform -----------------------------
(* The components that share tables with nobody, for TLC: a behaviour is   *)
(* one part's, the tables of the others stay as they start.  The parts     *)
(* share a run, not a state.                                               *)
EXTENDS Backtest, Accuracy, PostureStreak, Digest, Backups, LoginThrottle, Credentials, Catalysts,
        Shelves, TLC

CONSTANT Parts
VARIABLE part

(* Updates, processes, logins, syncs and requests are the same two values   *)
(* in platform.cfg: no two of them meet, and one exchange serves them all. *)
Alike == Permutations(Updates) \cup Permutations(Postures)

(* A holiday inside the week.                                              *)
HolidayOn == Days \ {3}

DigestSessions == {1} \cup 3..MaxDate
Fair(t, d) == [type |-> "industry", ticker |-> t, on |-> d]
Yaml == {Fair(Market, 1)}
Pasted == {{Fair(t, 2), Fair(Market, 2)} : t \in Tickers}

historyVars == <<walkVars, gradeVars, streakVars>>
jobVars == <<digestVars, backupVars>>
accountVars == <<loginVars, credentialVars>>
tableVars == <<catalystVars, shelfVars>>
vars == <<part, historyVars, jobVars, accountVars, tableVars>>

Init ==
  /\ part \in Parts
  /\ WalkInit /\ GradeInit /\ StreakInit
  /\ DigestInit /\ BackupInit
  /\ LoginInit /\ CredentialsInit
  /\ CatalystInit /\ ShelfInit

History ==
  /\ \/ part = "walk" /\ WalkNext /\ UNCHANGED <<gradeVars, streakVars>>
     \/ part = "grades" /\ GradeNext /\ UNCHANGED <<walkVars, streakVars>>
     \/ part = "streaks" /\ StreakNext /\ UNCHANGED <<walkVars, gradeVars>>
  /\ UNCHANGED <<part, jobVars, accountVars, tableVars>>
Job ==
  /\ \/ part = "digest" /\ DigestNext /\ UNCHANGED backupVars
     \/ part = "backups" /\ BackupNext /\ UNCHANGED digestVars
  /\ UNCHANGED <<part, historyVars, accountVars, tableVars>>
Account ==
  /\ \/ part = "login" /\ LoginNext /\ UNCHANGED credentialVars
     \/ part = "keys" /\ CredentialsNext /\ UNCHANGED loginVars
  /\ UNCHANGED <<part, historyVars, jobVars, tableVars>>
Table ==
  /\ \/ part = "events" /\ CatalystNext /\ UNCHANGED shelfVars
     \/ part = "shelves" /\ ShelfNext /\ UNCHANGED catalystVars
  /\ UNCHANGED <<part, historyVars, jobVars, accountVars>>

Next == History \/ Job \/ Account \/ Table
Spec == Init /\ [][Next]_vars

(* Every table keeps its type.                                             *)
TypeOK ==
  /\ WalkTypeOK /\ GradeTypeOK /\ StreakTypeOK /\ DigestTypeOK /\ BackupTypeOK
  /\ LoginTypeOK /\ CredentialsTypeOK /\ CatalystTypeOK /\ ShelfTypeOK
=============================================================================
