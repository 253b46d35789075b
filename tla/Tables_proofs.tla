----------------------------- MODULE Tables_proofs -----------------------------
(***************************************************************************)
(* Proofs about the tables that requests and jobs change side by side, for *)
(* any number of them:                                                     *)
(*                                                                         *)
(* 1. Credentials.  That a server accepts the password set last is not     *)
(*    inductive: a start could bring anything back, and a server may go on *)
(*    with a file that was deleted.  PasswordIsKept says what waits for    *)
(*    the next start, in data/ if it has a row and in .env if it does not. *)
(* 2. Catalysts.  A sync purges by a list it read before its await;        *)
(*    ListsCoverWatched says that a ticker watched ever since is on it.    *)
(* 3. Shelves.  A request decides before another one commits: Wish says    *)
(*    what a decision may still rely on, GroupsCounted that groups and the *)
(*    requests about to create one are few enough together.                *)
(* 4. LoginThrottle.  A check and the failure it lets pass are two commits *)
(*    with other requests between them: GuessesAreBounded counts, for an   *)
(*    address, the failures its next check would see together with the     *)
(*    requests that are past theirs.                                       *)
(* 5. The platform.  Its parts share no table, so its specification        *)
(*    implies each part's: what is proved of them, here and in             *)
(*    History_proofs and Jobs_proofs, holds of all of them together.       *)
(***************************************************************************)
EXTENDS MCPlatform, History_proofs, Jobs_proofs

---------------------------------------------------------------------------
(* The password and the keys                                               *)

\* The hash in data/, or else the one of .env, which the next start seeds it
\* with; what a running server has open, deleted or not, is seeded.
PasswordIsKept ==
    /\ Seeded => database["data"].hash = chosen["data"]
    /\ ~Seeded => chosen["data"] = env.hash
    /\ server # 0 => database[opened].hash = chosen[opened] /\ chosen[opened] # NoPassword
    /\ server = 0 => opened = "data"
    /\ env.key # 0 => env.hash # NoPassword
    /\ incoming # 0 => env.key # 0

Contents == [hash : Passwords \cup {NoPassword}, token : 0 .. MaxKey, meta : 0 .. MaxKey]

\* The keys and hashes keep their types.
LEMMA InitIsTyped ==
    ASSUME MaxKey \in Nat, CredentialsInit
    PROVE  CredentialsTypeOK
  BY DEF CredentialsInit, CredentialsTypeOK, NoEnv, Empty, Databases

\* A deleted database is an empty one, and one a server may hold.
LEMMA DeleteIsTyped ==
    ASSUME MaxKey \in Nat, CredentialsTypeOK, Delete
    PROVE  /\ database' \in [Databases -> Contents] /\ opened' \in Databases
           /\ chosen' \in [Databases -> Passwords \cup {NoPassword}]
  <1>1. Empty \in Contents
    BY DEF Empty, Contents
  <1>2. "data" \in Databases /\ "deleted" \in Databases
    BY DEF Databases
  <1> QED
    BY <1>1, <1>2 DEF CredentialsTypeOK, Delete, Contents

\* What hash waits for a start is one of .env.
LEMMA AwaitIsTyped ==
    ASSUME CredentialsTypeOK, NEW p \in Passwords, Await(p)
    PROVE  chosen' \in [Databases -> Passwords \cup {NoPassword}]
  BY DEF CredentialsTypeOK, Await

\* Every action of the operator, the server and the scripts keeps the types.
LEMMA StepsAreTyped ==
    ASSUME MaxKey \in Nat, CredentialsTypeOK, [CredentialsNext]_credentialVars
    PROVE  CredentialsTypeOK'
  <1>0. "data" \in Databases /\ "deleted" \in Databases /\ Empty \in Contents
    BY DEF Databases, Empty, Contents
  <1>a. /\ database \in [Databases -> Contents] /\ opened \in Databases
        /\ CredentialsTypeOK' <=>
             /\ env' \in [hash : Passwords \cup {NoPassword}, key : 0 .. MaxKey]
             /\ server' \in 0 .. MaxKey /\ incoming' \in 0 .. MaxKey /\ nextKey' \in 1 .. (MaxKey + 1)
             /\ wizard' \in {"closed", "asking"} /\ opened' \in Databases
             /\ database' \in [Databases -> Contents]
             /\ chosen' \in [Databases -> Passwords \cup {NoPassword}]
    BY DEF CredentialsTypeOK, Contents
  <1>1. ASSUME NEW wipe \in BOOLEAN, OpenWizard(wipe) PROVE CredentialsTypeOK'
    <2>1. /\ database' \in [Databases -> Contents] /\ opened' \in Databases
          /\ chosen' \in [Databases -> Passwords \cup {NoPassword}]
      BY <1>1, <1>a, DeleteIsTyped DEF OpenWizard, CredentialsTypeOK
    <2> QED
      BY <1>1, <1>a, <2>1 DEF OpenWizard, CredentialsTypeOK
  <1>2. ASSUME NEW p \in Passwords, Install(p) PROVE CredentialsTypeOK'
    <2>1. nextKey \in 0 .. MaxKey /\ nextKey' \in 1 .. (MaxKey + 1)
      BY <1>2 DEF CredentialsTypeOK, Install
    <2>2. env' \in [hash : Passwords \cup {NoPassword}, key : 0 .. MaxKey]
      BY <1>2, <2>1 DEF Install
    <2> QED
      BY <1>2, <1>a, <2>1, <2>2, AwaitIsTyped DEF CredentialsTypeOK, Install
  <1>3. CASE AbortWizard
    BY <1>3, <1>a DEF CredentialsTypeOK, AbortWizard
  <1>4. CASE WipeData
    BY <1>4, <1>a, DeleteIsTyped DEF CredentialsTypeOK, WipeData
  <1>5. ASSUME NEW p \in Passwords, EditEnv(p) PROVE CredentialsTypeOK'
    BY <1>5, <1>a, AwaitIsTyped DEF CredentialsTypeOK, EditEnv
  <1>6. CASE Uninstall
    BY <1>6, <1>a, <1>0 DEF CredentialsTypeOK, Uninstall, NoEnv
  <1>7. CASE Start
    <2>1. database' \in [Databases -> Contents]
      <3>1. [database["data"] EXCEPT !.hash = env.hash] \in Contents
        BY <1>a, <1>0 DEF CredentialsTypeOK, Contents
      <3> QED
        BY <1>7, <1>a, <3>1 DEF Start, Seed
    <2> QED
      BY <1>7, <1>a, <2>1 DEF CredentialsTypeOK, Start
  <1>8. CASE Shutdown
    BY <1>8, <1>a, <1>0 DEF CredentialsTypeOK, Shutdown
  <1>9. ASSUME NEW d \in Databases, NEW p \in Passwords, SetPassword(d, p) PROVE CredentialsTypeOK'
    <2>1. [database[d] EXCEPT !.hash = p] \in Contents
      BY <1>a DEF Contents
    <2>2. database' \in [Databases -> Contents]
      BY <1>9, <1>a, <2>1 DEF SetPassword
    <2>3. chosen' \in [Databases -> Passwords \cup {NoPassword}]
      BY <1>9 DEF SetPassword, CredentialsTypeOK
    <2> QED
      BY <1>9, <1>a, <2>2, <2>3 DEF CredentialsTypeOK, SetPassword
  <1>10. ASSUME NEW c \in Passwords, NEW p \in Passwords, ChangePassword(c, p) PROVE CredentialsTypeOK'
    BY <1>10, <1>a, <1>9 DEF ChangePassword
  <1>11. ASSUME NEW p \in Passwords, ResetOffline(p) PROVE CredentialsTypeOK'
    BY <1>11, <1>0, <1>9 DEF ResetOffline
  <1>12. CASE StoreToken
    <2>1. [database[opened] EXCEPT !.token = server] \in Contents
      BY <1>a DEF CredentialsTypeOK, Contents
    <2> QED
      BY <1>12, <1>a, <2>1 DEF CredentialsTypeOK, StoreToken
  <1>13. CASE StoreMetadata
    <2>1. [database[opened] EXCEPT !.meta = server] \in Contents
      BY <1>a DEF CredentialsTypeOK, Contents
    <2> QED
      BY <1>13, <1>a, <2>1 DEF CredentialsTypeOK, StoreMetadata
  <1>14. CASE Deploy
    BY <1>14, <1>a DEF CredentialsTypeOK, Deploy
  <1>15. ASSUME NEW old \in 1 .. MaxKey, NEW new \in 1 .. MaxKey, Rotate(old, new) PROVE CredentialsTypeOK'
    <2>1. incoming' \in 0 .. MaxKey /\ nextKey' \in 1 .. (MaxKey + 1)
      BY <1>15 DEF CredentialsTypeOK, Rotate
    <2>2. [database["data"] EXCEPT !.token = new] \in Contents
      BY <1>a, <1>0 DEF Contents
    <2>3. database' \in [Databases -> Contents]
      BY <1>15, <1>a, <2>2 DEF Rotate
    <2> QED
      BY <1>15, <1>a, <2>1, <2>3 DEF CredentialsTypeOK, Rotate
  <1>16. CASE UNCHANGED credentialVars
    BY <1>16 DEF CredentialsTypeOK, credentialVars
  <1> QED
    BY <1>1, <1>2, <1>3, <1>4, <1>5, <1>6, <1>7, <1>8, <1>10, <1>11, <1>12, <1>13, <1>14, <1>15, <1>16
    DEF CredentialsNext

\* A password set in a database is the one that was last set there.
LEMMA SetPasswordKeeps ==
    ASSUME NoPassword \notin Passwords, CredentialsTypeOK, PasswordIsKept,
           NEW d \in Databases, NEW p \in Passwords, SetPassword(d, p), d = "data" => Seeded
    PROVE  PasswordIsKept'
  <1>1. \A e \in Databases : /\ database'[e].hash = IF e = d THEN p ELSE database[e].hash
                             /\ chosen'[e] = IF e = d THEN p ELSE chosen[e]
    BY DEF SetPassword, CredentialsTypeOK
  <1>2. "data" \in Databases /\ opened \in Databases /\ p # NoPassword
    BY DEF Databases, CredentialsTypeOK
  <1>3. Seeded' <=> Seeded
    BY <1>1, <1>2 DEF Seeded
  <1> QED
    BY <1>1, <1>2, <1>3 DEF SetPassword, PasswordIsKept

\* A deleted database leaves the hash of .env to wait, and a running server
\* on what it had.
LEMMA DeleteKeeps ==
    ASSUME CredentialsTypeOK, PasswordIsKept, Delete, UNCHANGED <<env, server, incoming>>
    PROVE  PasswordIsKept'
  <1>1. "data" \in Databases /\ "deleted" \in Databases
    BY DEF Databases
  <1>2. ~Seeded' /\ chosen'["data"] = env.hash
    BY <1>1 DEF Delete, Seeded, Empty, CredentialsTypeOK
  <1>3. CASE server # 0
    <2>1. /\ database'["deleted"].hash = chosen'["deleted"] /\ opened' = "deleted"
          /\ chosen'["deleted"] # NoPassword
      BY <1>1, <1>3 DEF Delete, PasswordIsKept, Seeded
    <2> QED
      BY <1>2, <1>3, <2>1 DEF PasswordIsKept
  <1>4. CASE server = 0
    BY <1>2, <1>4 DEF Delete, PasswordIsKept
  <1> QED
    BY <1>3, <1>4

\* A hash written to .env waits, or a row outlives it.
LEMMA AwaitKeeps ==
    ASSUME NoPassword \notin Passwords, CredentialsTypeOK, PasswordIsKept,
           NEW p \in Passwords, Await(p), env'.hash = p, env'.key # 0,
           UNCHANGED <<server, database, opened, incoming>>
    PROVE  PasswordIsKept'
  <1>1. "data" \in Databases /\ (Seeded' <=> Seeded)
    BY DEF Databases, Seeded
  <1>2. Seeded => chosen' = chosen
    BY DEF Await
  <1>3. ~Seeded => chosen'["data"] = p /\ \A d \in Databases \ {"data"} : chosen'[d] = chosen[d]
    BY <1>1 DEF Await, CredentialsTypeOK
  <1>4. server # 0 /\ ~Seeded => opened \in Databases \ {"data"}
    BY DEF PasswordIsKept, Seeded, CredentialsTypeOK
  <1> QED
    BY <1>1, <1>2, <1>3, <1>4 DEF PasswordIsKept

\* What data/, or .env where data/ is empty, holds for the next login is what
\* was set last.
LEMMA StepsKeepPassword ==
    ASSUME MaxKey \in Nat, NoPassword \notin Passwords, CredentialsTypeOK, PasswordIsKept,
           [CredentialsNext]_credentialVars
    PROVE  PasswordIsKept'
  <1>0. "data" \in Databases /\ "deleted" \in Databases /\ opened \in Databases
    BY DEF Databases, CredentialsTypeOK
  <1>a. ASSUME UNCHANGED <<env, server, opened, chosen>>, incoming' # 0 => env.key # 0,
               \A d \in Databases : database'[d].hash = database[d].hash
        PROVE  PasswordIsKept'
    BY <1>a, <1>0 DEF PasswordIsKept, Seeded
  <1>1. ASSUME NEW wipe \in BOOLEAN, OpenWizard(wipe) PROVE PasswordIsKept'
    BY <1>1, <1>a, DeleteKeeps DEF OpenWizard, PasswordIsKept
  <1>2. ASSUME NEW p \in Passwords, Install(p) PROVE PasswordIsKept'
    BY <1>2, AwaitKeeps DEF Install, CredentialsTypeOK
  <1>3. CASE AbortWizard
    BY <1>3, <1>a DEF AbortWizard, PasswordIsKept
  <1>4. CASE WipeData
    BY <1>4, DeleteKeeps DEF WipeData
  <1>5. ASSUME NEW p \in Passwords, EditEnv(p) PROVE PasswordIsKept'
    BY <1>5, AwaitKeeps DEF EditEnv, CredentialsTypeOK
  <1>6. CASE Uninstall
    BY <1>6, <1>0 DEF PasswordIsKept, Seeded, Uninstall, NoEnv, Empty
  <1>7. CASE Start
    <2>1. database'["data"].hash = IF Seeded THEN database["data"].hash ELSE env.hash
      BY <1>7, <1>0 DEF Start, Seed, CredentialsTypeOK
    <2>2. database'["data"].hash = chosen["data"] /\ chosen["data"] # NoPassword
      BY <1>7, <2>1 DEF Start, PasswordIsKept, Seeded
    <2>3. Seeded' /\ opened' = "data"
      BY <1>7, <2>2 DEF Start, PasswordIsKept, Seeded
    <2> QED
      BY <1>7, <2>2, <2>3 DEF Start, PasswordIsKept
  <1>8. CASE Shutdown
    <2>1. database'["data"] = database["data"] /\ chosen'["data"] = chosen["data"]
      BY <1>8, <1>0 DEF Shutdown, CredentialsTypeOK
    <2> QED
      BY <1>8, <2>1 DEF Shutdown, PasswordIsKept, Seeded
  <1>9. ASSUME NEW c \in Passwords, NEW p \in Passwords, ChangePassword(c, p) PROVE PasswordIsKept'
    <2>1. opened = "data" => Seeded
      BY <1>9 DEF ChangePassword, PasswordIsKept, Seeded
    <2> QED
      BY <1>9, <1>0, <2>1, SetPasswordKeeps DEF ChangePassword
  <1>10. ASSUME NEW p \in Passwords, ResetOffline(p) PROVE PasswordIsKept'
    BY <1>10, <1>0, SetPasswordKeeps DEF ResetOffline
  <1>11. CASE StoreToken \/ StoreMetadata
    <2>1. \A d \in Databases : database'[d].hash = database[d].hash
      BY <1>11 DEF StoreToken, StoreMetadata, CredentialsTypeOK
    <2> QED
      BY <1>11, <1>a, <2>1 DEF StoreToken, StoreMetadata, PasswordIsKept
  <1>12. CASE Deploy
    <2>1. env'.hash = env.hash /\ env'.key # 0 /\ env.key # 0
      BY <1>12 DEF Deploy, PasswordIsKept, CredentialsTypeOK
    <2> QED
      BY <1>12, <2>1 DEF Deploy, PasswordIsKept, Seeded
  <1>13. ASSUME NEW old \in 1 .. MaxKey, NEW new \in 1 .. MaxKey, Rotate(old, new) PROVE PasswordIsKept'
    <2>1. \A d \in Databases : database'[d].hash = database[d].hash
      BY <1>13 DEF Rotate, CredentialsTypeOK
    <2> QED
      BY <1>13, <1>a, <2>1 DEF Rotate
  <1>14. CASE UNCHANGED credentialVars
    BY <1>14, <1>a DEF PasswordIsKept, credentialVars
  <1> QED
    BY <1>1, <1>2, <1>3, <1>4, <1>5, <1>6, <1>7, <1>8, <1>9, <1>10, <1>11, <1>12, <1>13, <1>14
    DEF CredentialsNext

\* The variables keep their types; in particular every key in use is one that
\* was generated.
THEOREM CredentialsTypeCorrect == CredentialsSpec => []CredentialsTypeOK
  <1> USE CredentialsAssumption
  <1>1. CredentialsInit => CredentialsTypeOK
    BY InitIsTyped
  <1>2. CredentialsTypeOK /\ [CredentialsNext]_credentialVars => CredentialsTypeOK'
    BY StepsAreTyped
  <1> QED
    BY <1>1, <1>2, PTL DEF CredentialsSpec

\* Through any sequence of wizard runs, edits of .env, restarts, wipes (beside
\* a running server too), changes and offline resets a server accepts the
\* password that was last set in the database it works on.
THEOREM LoginIsLastSet == CredentialsSpec => []PasswordIsLastSet
  <1> USE CredentialsAssumption
  <1>1. CredentialsInit => CredentialsTypeOK /\ PasswordIsKept
    <2> SUFFICES ASSUME CredentialsInit PROVE PasswordIsKept
      BY InitIsTyped
    <2>1. "data" \in Databases
      BY DEF Databases
    <2> QED
      BY <2>1 DEF CredentialsInit, PasswordIsKept, Seeded, NoEnv, Empty
  <1>2. CredentialsTypeOK /\ PasswordIsKept /\ [CredentialsNext]_credentialVars => (CredentialsTypeOK /\ PasswordIsKept)'
    BY StepsAreTyped, StepsKeepPassword
  <1>3. PasswordIsKept => PasswordIsLastSet
    BY DEF PasswordIsKept, PasswordIsLastSet
  <1> QED
    BY <1>1, <1>2, <1>3, PTL DEF CredentialsSpec

---------------------------------------------------------------------------
(* The catalyst calendar                                                   *)

\* A ticker watched ever since a sync read the list is on the list it read.
ListsCoverWatched == \A u \in Syncs : syncing[u] # NotRunning => both[u] \subseteq syncing[u]

CatalystInv == CatalystTypeOK /\ ListsCoverWatched

\* What a sync fetches are rows of the table.
LEMMA FetchedAreRows ==
    ASSUME Sourced, CatalystTypeOK, NEW symbols \in SUBSET Tickers
    PROVE  Earnings(symbols) \cup Releases \cup YamlEvents
             \subseteq Events
  <1>1. \A t \in symbols : announced[t] \in EventDates
    BY DEF CatalystTypeOK
  <1>2. \A t \in symbols : Event("earnings", t, announced[t]) \in Events
    BY <1>1 DEF Event, Types, Events
  <1>3. Earnings(symbols) \subseteq Events
    BY <1>2 DEF Earnings
  <1>4. \A d \in ReleaseDays : Event("macro", Market, d) \in Events
    BY DEF Event, Types, Events, Sourced
  <1>5. Releases \subseteq Events
    BY <1>4 DEF Releases
  <1>6. YamlEvents \subseteq Events
    BY DEF Sourced
  <1> QED
    BY <1>3, <1>5, <1>6

\* The end of a sync.
LEMMA SyncFinishKeeps ==
    ASSUME Sourced, CatalystInv, NEW u \in Syncs, SyncFinish(u)
    PROVE  CatalystInv'
  <1>1. syncing[u] \in SUBSET Tickers
    BY DEF SyncFinish, CatalystInv, CatalystTypeOK
  <1>2. PICK fetched \in SUBSET Earnings(syncing[u]), macro \in {{}, Releases}, industry \in {{}, YamlEvents} :
          events' = Purged(Upserted(events, fetched \cup macro \cup industry), syncing[u])
    BY DEF SyncFinish
  <1>3. fetched \cup macro \cup industry \subseteq Events
    BY <1>1, <1>2, FetchedAreRows DEF CatalystInv
  <1>4. events' \in SUBSET Events
    <2>1. events \subseteq Events
      BY DEF CatalystInv, CatalystTypeOK, Events
    <2> QED
      BY <1>2, <1>3, <2>1 DEF Purged, Upserted
  <1>5. /\ syncing' = [syncing EXCEPT ![u] = NotRunning] /\ both' = [both EXCEPT ![u] = {}]
        /\ UNCHANGED <<syncDate, watchlist, announced, begun>>
    BY DEF SyncFinish
  <1>6. CatalystTypeOK'
    BY <1>4, <1>5 DEF CatalystInv, CatalystTypeOK, Events
  <1>7. ListsCoverWatched'
    BY <1>5 DEF CatalystInv, CatalystTypeOK, ListsCoverWatched
  <1> QED
    BY <1>6, <1>7 DEF CatalystInv

\* Every action keeps the types and the lists.
LEMMA CatalystStep ==
    ASSUME Sourced, CatalystInv, [CatalystNext]_catalystVars
    PROVE  CatalystInv'
  <1>1. ASSUME NEW t \in Tickers, Watch(t) PROVE CatalystInv'
    BY <1>1 DEF Watch, CatalystInv, CatalystTypeOK, ListsCoverWatched
  <1>2. ASSUME NEW t \in Tickers, Unwatch(t) PROVE CatalystInv'
    <2>1. \A u \in Syncs : both'[u] = both[u] \ {t}
      BY <1>2 DEF Unwatch
    <2> QED
      BY <1>2, <2>1 DEF Unwatch, CatalystInv, CatalystTypeOK, ListsCoverWatched
  <1>3. ASSUME NEW t \in Tickers, NEW d \in EventDates, Announce(t, d) PROVE CatalystInv'
    BY <1>3 DEF Announce, CatalystInv, CatalystTypeOK, ListsCoverWatched
  <1>4. ASSUME NEW u \in Syncs, SyncBegin(u) PROVE CatalystInv'
    BY <1>4 DEF SyncBegin, Sourced, CatalystInv, CatalystTypeOK, ListsCoverWatched
  <1>5. ASSUME NEW rows \in Pastes, Paste(rows) PROVE CatalystInv'
    <2>1. events' \in SUBSET Events
      BY <1>5 DEF Paste, Upserted, Sourced, CatalystInv, CatalystTypeOK, Events
    <2> QED
      BY <1>5, <2>1 DEF Paste, CatalystInv, CatalystTypeOK, ListsCoverWatched, Events
  <1>6. CASE NextSyncDate
    BY <1>6 DEF NextSyncDate, Sourced, EventDates, CatalystInv, CatalystTypeOK, ListsCoverWatched
  <1>7. CASE UNCHANGED catalystVars
    BY <1>7 DEF catalystVars, CatalystInv, CatalystTypeOK, ListsCoverWatched
  <1> QED
    BY <1>1, <1>2, <1>3, <1>4, <1>5, <1>6, <1>7, SyncFinishKeeps DEF CatalystNext

\* The invariant of the syncs, the watchlist and the days.
LEMMA CatalystInvHolds ==
    ASSUME Sourced
    PROVE  CatalystSpec => []CatalystInv
  <1>1. CatalystInit => CatalystInv
    <2>1. 1 \in EventDates /\ 0 \in 0 .. MaxSyncs
      BY DEF Sourced, EventDates
    <2> QED
      BY <2>1 DEF CatalystInit, CatalystInv, CatalystTypeOK, ListsCoverWatched
  <1>2. CatalystInv /\ [CatalystNext]_catalystVars => CatalystInv'
    BY CatalystStep
  <1> QED
    BY <1>1, <1>2, PTL DEF CatalystSpec

\* The table holds only events of known types, tickers and days.
THEOREM CatalystTypeCorrect == CatalystSpec => []CatalystTypeOK
  <1> USE CatalystAssumption
  <1>1. CatalystInv => CatalystTypeOK
    BY DEF CatalystInv
  <1> QED
    BY <1>1, CatalystInvHolds, PTL

\* Whatever a sync could not fetch again stays, for every ticker watched
\* throughout and for the market, also when another sync overtakes it.
THEOREM UnfetchedEventsSurvive == CatalystSpec => SyncKeepsWhatItCouldNotFetch
  <1> USE CatalystAssumption
  <1>1. CatalystInv => UnfetchedKept
    <2> SUFFICES ASSUME CatalystInv, NEW u \in Syncs, SyncFinish(u), NEW e \in events \ events'
                 PROVE  e.ticker \notin both[u] \cup {Market}
      BY DEF UnfetchedKept
    <2>1. e.ticker # Market /\ e.ticker \notin syncing[u]
      BY DEF SyncFinish, Purged, Upserted
    <2> QED
      BY <2>1 DEF SyncFinish, CatalystInv, ListsCoverWatched
  <1>2. CatalystInv /\ [CatalystNext]_catalystVars => [UnfetchedKept]_catalystVars
    BY <1>1
  <1> QED
    BY <1>2, CatalystInvHolds, PTL DEF CatalystSpec, SyncKeepsWhatItCouldNotFetch

---------------------------------------------------------------------------
(* Groups and tags                                                         *)

GroupRows == [id : 1..MaxIds, name : Names, position : Nat]
TagRows == [id : 1..MaxIds, name : Names]

\* A table whose ids and names are keys.
Keyed(table) == \A g, h \in table : g.id = h.id \/ g.name = h.name => g = h
Tabled(table, rows) == table \subseteq rows /\ IsFiniteSet(table) /\ Keyed(table)

\* A request past its checks asks for what exists as a value, if not any more
\* as a row.
Wish(want) ==
    /\ want.op = "createGroup" => want.name \in Names /\ want.position \in Nat
    /\ want.op = "createTag" => want.name \in Names
    /\ want.op \in {"rename", "renameTag"} => want.name \in Names
    /\ want.op = "reorder" => \A id \in DOMAIN want.order : want.order[id] \in Nat
    /\ want.op = "assign" => want.symbol \in Symbols
    /\ want.op = "attach" => want.symbol \in Symbols
Wished == DOMAIN wants = Requests /\ \A r \in Requests : Wish(wants[r])

\* No row stands on a shelf that is gone, listed or not, and no label hangs
\* on a row or a tag that is gone.
Filed == shelf \in [Symbols -> 1..MaxIds \cup {Unfiled}]
         /\ \A s \in Symbols : shelf[s] # Unfiled => shelf[s] \in IdsOf(groups)
Labelled == labels \subseteq Symbols \X (1..MaxIds)
            /\ \A l \in labels : l[1] \in listed /\ l[2] \in IdsOf(tags)

\* Groups that were counted and groups about to be created are together no
\* more than what the requests that counted may reach.
Creating == {r \in Requests : wants[r].op = "createGroup"}
GroupsCounted == Cardinality(groups) + Cardinality(Creating) <= MaxPerUser + Cardinality(Requests) - 1

ShelfInv ==
    /\ listed \subseteq Symbols
    /\ Tabled(groups, GroupRows) /\ Tabled(tags, TagRows)
    /\ Wished /\ Filed /\ Labelled /\ GroupsCounted

\* As many names as rows.
LEMMA NamesAreKeys ==
    ASSUME NEW table, IsFiniteSet(table), Keyed(table)
    PROVE  Cardinality(NamesOf(table)) = Cardinality(table)
  <1> DEFINE f == [row \in table |-> row.name]
  <1>1. f \in Surjection(table, NamesOf(table)) /\ f \in Injection(table, NamesOf(table))
    BY DEF Surjection, Injection, IsInjective, NamesOf, Keyed
  <1> HIDE DEF f
  <1> QED
    BY <1>1, FS_Surjection, FS_CardinalityType

\* The id SQLite gives out is one no row has.
LEMMA NextIdIsNew ==
    ASSUME MaxIds \in Nat, NEW table, \A row \in table : row.id \in 1..MaxIds
    PROVE  NextId(table) \in Nat \ {0} /\ NextId(table) \notin IdsOf(table)
  <1>1. CASE table = {}
    BY <1>1 DEF NextId, IdsOf
  <1>2. CASE table # {}
    <2>1. IdsOf(table) \in SUBSET (0 .. MaxIds) /\ IdsOf(table) # {}
      BY <1>2 DEF IdsOf
    <2>2. Max(IdsOf(table)) \in IdsOf(table) /\ \A y \in IdsOf(table) : Max(IdsOf(table)) >= y
      BY <2>1, MaxIsGreatest
    <2> QED
      BY <1>2, <2>1, <2>2 DEF NextId
  <1> QED
    BY <1>1, <1>2

\* A new row with a new id and a new name.
LEMMA RowAdded ==
    ASSUME NEW rows, NEW table, Tabled(table, rows), NEW row \in rows,
           row.id \notin IdsOf(table), row.name \notin NamesOf(table)
    PROVE  /\ Tabled(table \cup {row}, rows)
           /\ Cardinality(table \cup {row}) = Cardinality(table) + 1
           /\ IdsOf(table) \subseteq IdsOf(table \cup {row})
  <1>1. row \notin table
    BY DEF IdsOf
  <1>2. IsFiniteSet(table \cup {row}) /\ Cardinality(table \cup {row}) = Cardinality(table) + 1
    BY <1>1, FS_AddElement DEF Tabled
  <1>3. Keyed(table \cup {row})
    BY DEF Tabled, Keyed, IdsOf, NamesOf
  <1> QED
    BY <1>2, <1>3 DEF Tabled, IdsOf

\* Rows deleted.
LEMMA RowsDeleted ==
    ASSUME NEW rows, NEW table, Tabled(table, rows), NEW left \in SUBSET table
    PROVE  Tabled(left, rows) /\ Cardinality(left) <= Cardinality(table)
  BY FS_Subset DEF Tabled, Keyed

\* Rows changed in place, ids kept and names still different.
LEMMA RowsChanged ==
    ASSUME NEW rows, NEW table, Tabled(table, rows), NEW f \in [table -> rows],
           \A g \in table : f[g].id = g.id,
           \A g, h \in table : f[g].name = f[h].name => g = h
    PROVE  LET changed == {f[g] : g \in table}
           IN  /\ Tabled(changed, rows) /\ Cardinality(changed) <= Cardinality(table)
               /\ IdsOf(changed) = IdsOf(table)
  <1> DEFINE changed == {f[g] : g \in table}
  <1>1. f \in Surjection(table, changed)
    BY DEF Surjection
  <1>2. IsFiniteSet(changed) /\ Cardinality(changed) <= Cardinality(table)
    <2> HIDE DEF changed
    <2> QED
      BY <1>1, FS_Surjection DEF Tabled
  <1>3. Keyed(changed)
    BY DEF Keyed, Tabled
  <1>4. IdsOf(changed) = IdsOf(table)
    BY DEF IdsOf
  <1> QED
    BY <1>2, <1>3, <1>4 DEF Tabled

\* A request that is through with its reads creates a group only if it
\* counted fewer than the limit.
LEMMA ReadKeeps ==
    ASSUME Limited, ShelfInv, NEW r \in Requests, NEW want, Read(r, want), Wish(want),
           want.op = "createGroup" => Cardinality(groups) < MaxPerUser
    PROVE  ShelfInv'
  <1>1. DOMAIN wants' = Requests /\ \A q \in Requests : wants'[q] = IF q = r THEN want ELSE wants[q]
    BY DEF Read, ShelfInv, Wished
  <1>2. Wished'
    BY <1>1 DEF ShelfInv, Wished
  <1>3. GroupsCounted'
    <2>1. Cardinality(groups) \in Nat /\ Cardinality(Requests) \in Nat
      BY FS_CardinalityType DEF Limited, ShelfInv, Tabled
    <2>2. CASE want.op = "createGroup"
      <3>1. Creating' \subseteq Requests
        BY DEF Creating
      <3>2. Cardinality(Creating') <= Cardinality(Requests) /\ Cardinality(Creating') \in Nat
        BY <3>1, FS_Subset, FS_CardinalityType DEF Limited
      <3> QED
        BY <2>1, <2>2, <3>2 DEF GroupsCounted, Read, Limited
    <2>3. CASE want.op # "createGroup"
      <3>1. Creating' = Creating
        BY <1>1, <2>3 DEF Creating, Read, Nothing
      <3> QED
        BY <3>1 DEF GroupsCounted, Read, ShelfInv
    <2> QED
      BY <2>2, <2>3
  <1> QED
    BY <1>2, <1>3 DEF Read, ShelfInv, Filed, Labelled

\* A request that ends, with what it has done to the groups.
LEMMA DoneCounts ==
    ASSUME Limited, ShelfInv, NEW r \in Requests, Done(r),
           Tabled(groups', GroupRows),
           Cardinality(groups') <= Cardinality(groups)
             + IF wants[r].op = "createGroup" THEN 1 ELSE 0
    PROVE  Wished' /\ GroupsCounted'
  <1>1. DOMAIN wants' = Requests /\ \A q \in Requests : wants'[q] = IF q = r THEN Nothing ELSE wants[q]
    BY DEF Done, ShelfInv, Wished
  <1>2. Wished'
    BY <1>1 DEF ShelfInv, Wished, Wish, Nothing
  <1>3. Creating' = Creating \ {r}
    BY <1>1 DEF Creating, Nothing
  <1>4. IsFiniteSet(Creating) /\ (r \in Creating <=> wants[r].op = "createGroup")
    BY FS_Subset DEF Limited, Creating
  <1>5. Cardinality(Creating') = IF r \in Creating THEN Cardinality(Creating) - 1 ELSE Cardinality(Creating)
    BY <1>3, <1>4, FS_RemoveElement
  <1>6. /\ Cardinality(groups) \in Nat /\ Cardinality(groups') \in Nat /\ Cardinality(Requests) \in Nat
        /\ Cardinality(Creating) \in Nat
    BY <1>4, FS_CardinalityType DEF Limited, ShelfInv, Tabled
  <1>7. GroupsCounted'
    BY <1>4, <1>5, <1>6 DEF GroupsCounted, ShelfInv, Limited
  <1> QED
    BY <1>2, <1>7

\* What the constraints refuse changes nothing.
LEMMA RefusalKeeps ==
    ASSUME Limited, ShelfInv, NEW r \in Requests, Refused(r)
    PROVE  ShelfInv'
  <1>1. Cardinality(groups') \in Nat
    BY FS_CardinalityType DEF ShelfInv, Tabled, Refused
  <1>2. Wished' /\ GroupsCounted'
    BY <1>1, DoneCounts DEF Refused, ShelfInv
  <1> QED
    BY <1>2 DEF Refused, ShelfInv, Filed, Labelled

\* The flush that creates a group spends the place its request counted.
LEMMA CreateGroupKeeps ==
    ASSUME Limited, ShelfInv, NEW r \in Requests, CreateGroup(r), wants[r].name \notin NamesOf(groups)
    PROVE  ShelfInv'
  <1> DEFINE row == [id |-> NextId(groups), name |-> wants[r].name, position |-> wants[r].position]
  <1>1. \A g \in groups : g.id \in 1..MaxIds
    BY DEF ShelfInv, Tabled, GroupRows
  <1>2. NextId(groups) \in 1..MaxIds /\ NextId(groups) \notin IdsOf(groups)
    <2>1. NextId(groups) \in Nat \ {0} /\ NextId(groups) \notin IdsOf(groups)
      BY <1>1, NextIdIsNew DEF Limited
    <2> QED
      BY <2>1 DEF CreateGroup, Limited
  <1>3. row \in GroupRows
    BY <1>2 DEF CreateGroup, Asked, ShelfInv, Wished, Wish, GroupRows
  <1>4. groups' = groups \cup {row} /\ Done(r) /\ UNCHANGED <<listed, tags, shelf, labels>>
    BY DEF CreateGroup
  <1>5. /\ Tabled(groups', GroupRows) /\ Cardinality(groups') = Cardinality(groups) + 1
        /\ IdsOf(groups) \subseteq IdsOf(groups')
    <2>1. row.id \notin IdsOf(groups) /\ row.name \notin NamesOf(groups)
      BY <1>2
    <2> HIDE DEF row
    <2> QED
      BY <1>3, <1>4, <2>1, RowAdded DEF ShelfInv
  <1>6. Cardinality(groups) \in Nat
    BY FS_CardinalityType DEF ShelfInv, Tabled
  <1>7. wants[r].op = "createGroup"
    BY DEF CreateGroup, Asked
  <1>8. Wished' /\ GroupsCounted'
    <2> HIDE DEF row
    <2>1. Cardinality(groups') <= Cardinality(groups) + IF wants[r].op = "createGroup" THEN 1 ELSE 0
      BY <1>5, <1>6, <1>7
    <2> QED
      BY <1>4, <1>5, <2>1, DoneCounts
  <1>9. Filed' /\ Labelled'
    BY <1>4, <1>5 DEF ShelfInv, Filed, Labelled
  <1> QED
    BY <1>4, <1>5, <1>8, <1>9 DEF ShelfInv

\* The handlers that change groups in place.
LEMMA ChangeKeeps ==
    ASSUME Limited, ShelfInv, NEW r \in Requests, wants[r].op # "createGroup", Done(r),
           UNCHANGED <<listed, tags, shelf, labels>>,
           NEW f \in [groups -> GroupRows], groups' = {f[g] : g \in groups},
           \A g \in groups : f[g].id = g.id,
           \A g, h \in groups : f[g].name = f[h].name => g = h
    PROVE  ShelfInv'
  <1>1. Tabled(groups', GroupRows) /\ Cardinality(groups') <= Cardinality(groups) /\ IdsOf(groups') = IdsOf(groups)
    BY RowsChanged DEF ShelfInv
  <1>2. Cardinality(groups) \in Nat
    BY FS_CardinalityType DEF ShelfInv, Tabled
  <1>3. Wished' /\ GroupsCounted'
    BY <1>1, <1>2, DoneCounts
  <1> QED
    BY <1>1, <1>3 DEF ShelfInv, Filed, Labelled

\* A rename checks the name once more when it flushes.
LEMMA RenameKeeps ==
    ASSUME Limited, ShelfInv, NEW r \in Requests, Rename(r),
           wants[r].id \in IdsOf(groups), Free(groups, wants[r].id, wants[r].name)
    PROVE  ShelfInv'
  <1> DEFINE f == [g \in groups |-> IF g.id = wants[r].id THEN [g EXCEPT !.name = wants[r].name] ELSE g]
  <1>1. wants[r].op # "createGroup" /\ wants[r].name \in Names
    BY DEF Rename, Asked, ShelfInv, Wished, Wish
  <1>2. \A g \in groups : g \in GroupRows
    BY DEF ShelfInv, Tabled
  <1>3. \A g \in groups :
          f[g] \in GroupRows /\ f[g].id = g.id
          /\ f[g].name = IF g.id = wants[r].id THEN wants[r].name ELSE g.name
    BY <1>1, <1>2 DEF GroupRows
  <1>4. \A g, h \in groups : f[g].name = f[h].name => g = h
    <2> HIDE DEF f
    <2>1. Keyed(groups)
      BY DEF ShelfInv, Tabled
    <2> QED
      BY <1>3, <2>1 DEF Keyed, Free
  <1>5. groups' = {f[g] : g \in groups} /\ Done(r) /\ UNCHANGED <<listed, tags, shelf, labels>>
    BY DEF Rename, Renamed
  <1>6. f \in [groups -> GroupRows]
    BY <1>3
  <1> HIDE DEF f
  <1> QED
    BY <1>1, <1>3, <1>4, <1>5, <1>6, ChangeKeeps

\* A reorder moves groups that are all still there.
LEMMA ReorderKeeps ==
    ASSUME Limited, ShelfInv, NEW r \in Requests, Reorder(r), DOMAIN wants[r].order \subseteq IdsOf(groups)
    PROVE  ShelfInv'
  <1> DEFINE f == [g \in groups |-> IF g.id \in DOMAIN wants[r].order
                                   THEN [g EXCEPT !.position = wants[r].order[g.id]] ELSE g]
  <1>1. wants[r].op # "createGroup" /\ \A id \in DOMAIN wants[r].order : wants[r].order[id] \in Nat
    BY DEF Reorder, Asked, ShelfInv, Wished, Wish
  <1>2. \A g \in groups : g \in GroupRows
    BY DEF ShelfInv, Tabled
  <1>3. \A g \in groups : f[g] \in GroupRows /\ f[g].id = g.id /\ f[g].name = g.name
    BY <1>1, <1>2 DEF GroupRows
  <1>4. \A g, h \in groups : f[g].name = f[h].name => g = h
    <2> HIDE DEF f
    <2>1. Keyed(groups)
      BY DEF ShelfInv, Tabled
    <2> QED
      BY <1>3, <2>1 DEF Keyed
  <1>5. groups' = {f[g] : g \in groups} /\ Done(r) /\ UNCHANGED <<listed, tags, shelf, labels>>
    BY DEF Reorder
  <1>6. f \in [groups -> GroupRows]
    BY <1>3
  <1> HIDE DEF f
  <1> QED
    BY <1>1, <1>3, <1>4, <1>5, <1>6, ChangeKeeps

\* A group that goes leaves its rows unfiled.
LEMMA DeleteGroupKeeps ==
    ASSUME Limited, ShelfInv, NEW r \in Requests, DeleteGroup(r), wants[r].id \in IdsOf(groups)
    PROVE  ShelfInv'
  <1>1. /\ groups' = {g \in groups : g.id # wants[r].id} /\ Done(r) /\ wants[r].op = "deleteGroup"
        /\ shelf' = [s \in Symbols |-> IF shelf[s] = wants[r].id THEN Unfiled ELSE shelf[s]]
        /\ UNCHANGED <<listed, tags, labels>>
    BY DEF DeleteGroup, Asked
  <1>2. groups' \subseteq groups
    BY <1>1
  <1>3. Tabled(groups', GroupRows) /\ Cardinality(groups') <= Cardinality(groups)
    BY <1>2, RowsDeleted DEF ShelfInv
  <1>4. Cardinality(groups) \in Nat
    BY FS_CardinalityType DEF ShelfInv, Tabled
  <1>5. Wished' /\ GroupsCounted'
    BY <1>1, <1>3, <1>4, DoneCounts
  <1>6. Filed'
    <2>1. \A id \in IdsOf(groups) : id # wants[r].id => id \in IdsOf(groups')
      BY <1>1 DEF IdsOf
    <2> QED
      BY <1>1, <2>1 DEF ShelfInv, Filed
  <1> QED
    BY <1>1, <1>3, <1>5, <1>6 DEF ShelfInv, Labelled

\* The other flushes leave the groups alone.
LEMMA CountUntouched ==
    ASSUME Limited, ShelfInv, NEW r \in Requests, Done(r), UNCHANGED groups
    PROVE  Wished' /\ GroupsCounted' /\ Tabled(groups', GroupRows)
  <1>1. Cardinality(groups') \in Nat
    BY FS_CardinalityType DEF ShelfInv, Tabled
  <1> QED
    BY <1>1, DoneCounts DEF ShelfInv

\* A new tag gets a new id and a name no tag has.
LEMMA CreateTagKeeps ==
    ASSUME Limited, ShelfInv, NEW r \in Requests, CreateTag(r), wants[r].name \notin NamesOf(tags)
    PROVE  ShelfInv'
  <1> DEFINE row == [id |-> NextId(tags), name |-> wants[r].name]
  <1>1. \A t \in tags : t.id \in 1..MaxIds
    BY DEF ShelfInv, Tabled, TagRows
  <1>2. NextId(tags) \in 1..MaxIds /\ NextId(tags) \notin IdsOf(tags)
    <2>1. NextId(tags) \in Nat \ {0} /\ NextId(tags) \notin IdsOf(tags)
      BY <1>1, NextIdIsNew DEF Limited
    <2> QED
      BY <2>1 DEF CreateTag, Limited
  <1>3. row \in TagRows
    BY <1>2 DEF CreateTag, Asked, ShelfInv, Wished, Wish, TagRows
  <1>4. tags' = tags \cup {row} /\ Done(r) /\ UNCHANGED <<listed, groups, shelf, labels>>
    BY DEF CreateTag
  <1>5. Tabled(tags', TagRows) /\ IdsOf(tags) \subseteq IdsOf(tags')
    <2>1. row.id \notin IdsOf(tags) /\ row.name \notin NamesOf(tags)
      BY <1>2
    <2> HIDE DEF row
    <2> QED
      BY <1>3, <1>4, <2>1, RowAdded DEF ShelfInv
  <1>6. Filed' /\ Labelled'
    BY <1>4, <1>5 DEF ShelfInv, Filed, Labelled
  <1> QED
    BY <1>4, <1>5, <1>6, CountUntouched DEF ShelfInv

\* Labels hang on a tag by its id, which a change in place keeps.
LEMMA TagChangeKeeps ==
    ASSUME Limited, ShelfInv, NEW r \in Requests, Done(r), UNCHANGED <<listed, groups, shelf, labels>>,
           NEW f \in [tags -> TagRows], tags' = {f[g] : g \in tags},
           \A g \in tags : f[g].id = g.id,
           \A g, h \in tags : f[g].name = f[h].name => g = h
    PROVE  ShelfInv'
  <1>1. Tabled(tags', TagRows) /\ Cardinality(tags') <= Cardinality(tags) /\ IdsOf(tags') = IdsOf(tags)
    BY RowsChanged DEF ShelfInv
  <1>2. Filed' /\ Labelled'
    BY <1>1 DEF ShelfInv, Filed, Labelled
  <1> QED
    BY <1>1, <1>2, CountUntouched DEF ShelfInv

\* A rename of a tag checks the name once more when it flushes.
LEMMA RenameTagKeeps ==
    ASSUME Limited, ShelfInv, NEW r \in Requests, RenameTag(r),
           wants[r].id \in IdsOf(tags), Free(tags, wants[r].id, wants[r].name)
    PROVE  ShelfInv'
  <1> DEFINE f == [t \in tags |-> IF t.id = wants[r].id THEN [t EXCEPT !.name = wants[r].name] ELSE t]
  <1>1. wants[r].name \in Names /\ \A t \in tags : t \in TagRows
    BY DEF RenameTag, Asked, ShelfInv, Wished, Wish, Tabled
  <1>2. \A t \in tags :
          f[t] \in TagRows /\ f[t].id = t.id
          /\ f[t].name = IF t.id = wants[r].id THEN wants[r].name ELSE t.name
    BY <1>1 DEF TagRows
  <1>3. \A t, u \in tags : f[t].name = f[u].name => t = u
    <2> HIDE DEF f
    <2>1. Keyed(tags)
      BY DEF ShelfInv, Tabled
    <2> QED
      BY <1>2, <2>1 DEF Keyed, Free
  <1>4. tags' = {f[t] : t \in tags} /\ Done(r) /\ UNCHANGED <<listed, groups, shelf, labels>>
    BY DEF RenameTag, Renamed
  <1>5. f \in [tags -> TagRows]
    BY <1>2
  <1> HIDE DEF f
  <1> QED
    BY <1>2, <1>3, <1>4, <1>5, TagChangeKeeps

\* A tag that goes takes its labels with it.
LEMMA DeleteTagKeeps ==
    ASSUME Limited, ShelfInv, NEW r \in Requests, DeleteTag(r)
    PROVE  ShelfInv'
  <1>1. /\ tags' = {t \in tags : t.id # wants[r].id} /\ labels' = {l \in labels : l[2] # wants[r].id}
        /\ Done(r) /\ UNCHANGED <<listed, groups, shelf>>
    BY DEF DeleteTag
  <1>2. tags' \subseteq tags
    BY <1>1
  <1>3. Tabled(tags', TagRows)
    BY <1>2, RowsDeleted DEF ShelfInv
  <1>4. Labelled'
    BY <1>1 DEF ShelfInv, Labelled, IdsOf
  <1> QED
    BY <1>1, <1>3, <1>4, CountUntouched DEF ShelfInv, Filed

\* The foreign key holds a deleted group off.
LEMMA AssignKeeps ==
    ASSUME Limited, ShelfInv, NEW r \in Requests, Assign(r)
    PROVE  ShelfInv'
  <1>1. CASE Refused(r)
    BY <1>1, RefusalKeeps
  <1>2. CASE ~Refused(r)
    <2>1. /\ wants[r].id = Unfiled \/ wants[r].id \in IdsOf(groups)
          /\ shelf' = [shelf EXCEPT ![wants[r].symbol] = wants[r].id]
          /\ Done(r) /\ UNCHANGED <<listed, groups, tags, labels>>
      BY <1>2 DEF Assign, ForeignKey
    <2>2. \A id \in IdsOf(groups) : id \in 1..MaxIds
      BY DEF IdsOf, ShelfInv, Tabled, GroupRows
    <2>3. Filed'
      BY <2>1, <2>2 DEF ShelfInv, Filed
    <2> QED
      BY <2>1, <2>3, CountUntouched DEF ShelfInv, Labelled
  <1> QED
    BY <1>1, <1>2

\* The foreign key holds a deleted tag off.
LEMMA AttachKeeps ==
    ASSUME Limited, ShelfInv, NEW r \in Requests, Attach(r)
    PROVE  ShelfInv'
  <1>1. CASE Refused(r)
    BY <1>1, RefusalKeeps
  <1>2. CASE ~Refused(r)
    <2>1. /\ wants[r].symbol \in listed /\ wants[r].id \in IdsOf(tags)
          /\ labels' = labels \cup {<<wants[r].symbol, wants[r].id>>}
          /\ Done(r) /\ UNCHANGED <<listed, groups, tags, shelf>>
      BY <1>2 DEF Attach, ForeignKey
    <2>2. \A id \in IdsOf(tags) : id \in 1..MaxIds
      BY DEF IdsOf, ShelfInv, Tabled, TagRows
    <2>3. Labelled'
      BY <2>1, <2>2 DEF ShelfInv, Labelled
    <2> QED
      BY <2>1, <2>3, CountUntouched DEF ShelfInv, Filed
  <1> QED
    BY <1>1, <1>2

\* Every read keeps the invariant.
LEMMA ReadsKeep ==
    ASSUME Limited, ShelfInv, NEW r \in Requests,
           \/ \E n \in Names : ReadCreateGroup(r, n) \/ ReadCreateTag(r, n)
           \/ \E id \in 1..MaxIds : \/ \E n \in Names : ReadRename(r, id, n) \/ ReadRenameTag(r, id, n)
                                    \/ ReadReorder(r, id) \/ ReadDeleteGroup(r, id) \/ ReadDeleteTag(r, id)
                                    \/ \E s \in Symbols : ReadAttach(r, s, id)
           \/ \E s \in Symbols, id \in 1..MaxIds \cup {Unfiled} : ReadAssign(r, s, id)
    PROVE  ShelfInv'
  <1>1. ASSUME NEW n \in Names, ReadCreateGroup(r, n) PROVE ShelfInv'
    <2>1. NextPosition \in Nat
      <3>1. CASE groups = {}
        BY <3>1 DEF NextPosition
      <3>2. CASE groups # {}
        <4> DEFINE positions == {g.position : g \in groups}
        <4>1. positions \in SUBSET Nat /\ positions # {}
          BY <3>2 DEF ShelfInv, Tabled, GroupRows
        <4>2. PICK top \in Nat : \A x \in positions : x <= top
          <5> DEFINE f == [g \in groups |-> g.position]
          <5>1. f \in Surjection(groups, positions)
            BY DEF Surjection
          <5> HIDE DEF f
          <5>2. IsFiniteSet(positions)
            <6> HIDE DEF positions
            <6> QED
              BY <5>1, FS_Surjection DEF ShelfInv, Tabled
          <5> HIDE DEF positions
          <5> QED
            BY <4>1, <5>2, FiniteSetIsBounded
        <4>3. positions \in SUBSET (0 .. top)
          BY <4>1, <4>2
        <4>4. Max(positions) \in positions
          <5> HIDE DEF positions
          <5> QED
            BY <4>1, <4>3, MaxIsGreatest
        <4>5. NextPosition = Max(positions) + 1
          BY <3>2 DEF NextPosition
        <4> HIDE DEF positions
        <4>6. \A x \in positions : x \in Nat
          BY <4>1
        <4>7. Max(positions) \in Nat
          BY <4>4, <4>6
        <4> QED
          BY <4>5, <4>7
      <3> QED
        BY <3>1, <3>2
    <2> DEFINE want == [op |-> "createGroup", name |-> n, position |-> NextPosition]
    <2>2. Wish(want) /\ Read(r, want) /\ Cardinality(groups) < MaxPerUser
      BY <1>1, <2>1 DEF ReadCreateGroup, Wish
    <2> HIDE DEF want
    <2> QED
      BY <2>2, ReadKeeps
  <1>2. ASSUME NEW want, Read(r, want), Wish(want), want.op # "createGroup" PROVE ShelfInv'
    BY <1>2, ReadKeeps
  <1>3. ASSUME NEW n \in Names, ReadCreateTag(r, n) PROVE ShelfInv'
    BY <1>3, <1>2 DEF ReadCreateTag, Wish
  <1>4. ASSUME NEW n \in Names, NEW id, ReadRename(r, id, n) PROVE ShelfInv'
    BY <1>4, <1>2 DEF ReadRename, Wish
  <1>5. ASSUME NEW id, ReadReorder(r, id) PROVE ShelfInv'
    <2> DEFINE order == [i \in IdsOf(groups) |->
                           IF i = id THEN 0 ELSE Cardinality({j \in IdsOf(groups) \ {id} : j < i}) + 1]
    <2>1. IsFiniteSet(IdsOf(groups))
      <3>1. IdsOf(groups) \subseteq 1 .. MaxIds
        BY DEF IdsOf, ShelfInv, Tabled, GroupRows
      <3> QED
        BY <3>1, FS_Interval, FS_Subset DEF Limited
    <2>2. \A i \in IdsOf(groups) : Cardinality({j \in IdsOf(groups) \ {id} : j < i}) \in Nat
      <3> TAKE i \in IdsOf(groups)
      <3>1. {j \in IdsOf(groups) \ {id} : j < i} \subseteq IdsOf(groups)
        OBVIOUS
      <3> QED
        BY <2>1, <3>1, FS_Subset, FS_CardinalityType
    <2>3. \A i \in DOMAIN order : order[i] \in Nat
      BY <2>2
    <2>4. Read(r, [op |-> "reorder", order |-> order])
      BY <1>5 DEF ReadReorder
    <2> HIDE DEF order
    <2> QED
      BY <1>2, <2>3, <2>4 DEF Wish
  <1>6. ASSUME NEW id, ReadDeleteGroup(r, id) PROVE ShelfInv'
    BY <1>6, <1>2 DEF ReadDeleteGroup, Wish
  <1>7. ASSUME NEW id, ReadDeleteTag(r, id) PROVE ShelfInv'
    BY <1>7, <1>2 DEF ReadDeleteTag, Wish
  <1>8. ASSUME NEW s \in Symbols, NEW id, ReadAttach(r, s, id) PROVE ShelfInv'
    BY <1>8, <1>2 DEF ReadAttach, Wish
  <1>9. ASSUME NEW s \in Symbols, NEW id, ReadAssign(r, s, id) PROVE ShelfInv'
    BY <1>9, <1>2 DEF ReadAssign, Wish
  <1>10. ASSUME NEW n \in Names, NEW id, ReadRenameTag(r, id, n) PROVE ShelfInv'
    BY <1>10, <1>2 DEF ReadRenameTag, Wish
  <1> QED
    BY <1>1, <1>3, <1>4, <1>5, <1>6, <1>7, <1>8, <1>9, <1>10

\* Every action keeps the invariant.
LEMMA ShelfStep ==
    ASSUME Limited, ShelfInv, [ShelfNext]_shelfVars
    PROVE  ShelfInv'
  <1>1. ASSUME NEW r \in Requests, CreateGroup(r) PROVE ShelfInv'
    BY <1>1, CreateGroupKeeps, RefusalKeeps DEF CreateGroup
  <1>2. ASSUME NEW r \in Requests, CreateTag(r) PROVE ShelfInv'
    BY <1>2, CreateTagKeeps, RefusalKeeps DEF CreateTag
  <1>3. ASSUME NEW r \in Requests, Rename(r) PROVE ShelfInv'
    BY <1>3, RenameKeeps, RefusalKeeps DEF Rename
  <1>4. ASSUME NEW r \in Requests, Reorder(r) PROVE ShelfInv'
    BY <1>4, ReorderKeeps, RefusalKeeps DEF Reorder
  <1>5. ASSUME NEW r \in Requests, DeleteGroup(r) PROVE ShelfInv'
    BY <1>5, DeleteGroupKeeps, RefusalKeeps DEF DeleteGroup
  <1>6. ASSUME NEW s, NEW id, Detach(s, id) PROVE ShelfInv'
    BY <1>6 DEF Detach, ShelfInv, Wished, Filed, Labelled, GroupsCounted, Creating
  <1>7. ASSUME NEW s \in Symbols, Add(s) PROVE ShelfInv'
    BY <1>7 DEF Add, ShelfInv, Wished, Filed, Labelled, GroupsCounted, Creating
  <1>8. ASSUME NEW s \in Symbols, Remove(s) PROVE ShelfInv'
    BY <1>8 DEF Remove, ShelfInv, Wished, Filed, Labelled, GroupsCounted, Creating
  <1>9. CASE UNCHANGED shelfVars
    BY <1>9 DEF shelfVars, ShelfInv, Wished, Filed, Labelled, GroupsCounted, Creating
  <1>10. ASSUME NEW r \in Requests, RenameTag(r) PROVE ShelfInv'
    BY <1>10, RenameTagKeeps, RefusalKeeps DEF RenameTag
  <1> QED
    BY <1>1, <1>2, <1>3, <1>4, <1>5, <1>6, <1>7, <1>8, <1>9, <1>10,
       ReadsKeep, AssignKeeps, AttachKeeps, DeleteTagKeeps DEF ShelfNext

\* The invariant of the requests, the groups, the tags and the watchlist.
LEMMA ShelfInvHolds ==
    ASSUME Limited
    PROVE  ShelfSpec => []ShelfInv
  <1>1. ShelfInit => ShelfInv
    <2> SUFFICES ASSUME ShelfInit PROVE ShelfInv
      OBVIOUS
    <2>1. Creating = {}
      BY DEF ShelfInit, Creating, Nothing
    <2>2. Cardinality({}) = 0 /\ IsFiniteSet({}) /\ Cardinality(Requests) \in Nat
      BY FS_EmptySet, FS_CardinalityType DEF Limited
    <2>3. GroupsCounted
      BY <2>1, <2>2 DEF ShelfInit, GroupsCounted, Limited
    <2>4. Tabled(groups, GroupRows) /\ Tabled(tags, TagRows)
      BY <2>2 DEF ShelfInit, Tabled, Keyed
    <2>5. Wished /\ Filed /\ Labelled
      BY DEF ShelfInit, Wished, Wish, Nothing, Filed, Labelled
    <2> QED
      BY <2>3, <2>4, <2>5 DEF ShelfInit, ShelfInv
  <1>2. ShelfInv /\ [ShelfNext]_shelfVars => ShelfInv'
    BY ShelfStep
  <1> QED
    BY <1>1, <1>2, PTL DEF ShelfSpec

\* Every table keeps its type: ids are row numbers, positions are numbers.
THEOREM ShelfTypeCorrect == ShelfSpec => []ShelfTypeOK
  <1> USE ShelfAssumption
  <1>1. ShelfInv => ShelfTypeOK
    BY DEF ShelfInv, ShelfTypeOK, Tabled, GroupRows, TagRows, Wished, Filed, Labelled
  <1> QED
    BY <1>1, ShelfInvHolds, PTL

\* Whatever requests overlap, nothing stands on a shelf or carries a label
\* that is gone, names are unique, and the limit is passed by at most the
\* requests that counted together.
THEOREM ShelvesStayConsistent == ShelfSpec => []NoDanglingShelf
  <1> USE ShelfAssumption
  <1>1. ShelfInv => NoDanglingShelf
    <2> SUFFICES ASSUME ShelfInv PROVE NoDanglingShelf
      OBVIOUS
    <2>1. Cardinality(NamesOf(groups)) = Cardinality(groups) /\ Cardinality(NamesOf(tags)) = Cardinality(tags)
      BY NamesAreKeys DEF ShelfInv, Tabled
    <2>2. Cardinality(groups) <= MaxPerUser + Cardinality(Requests) - 1
      <3>1. Creating \subseteq Requests
        BY DEF Creating
      <3>2. Cardinality(Creating) \in Nat /\ Cardinality(groups) \in Nat /\ Cardinality(Requests) \in Nat
        BY <3>1, FS_Subset, FS_CardinalityType DEF Limited, ShelfInv, Tabled
      <3> QED
        BY <3>2 DEF ShelfInv, GroupsCounted, Limited
    <2>3. /\ \A s \in listed : shelf[s] # Unfiled => shelf[s] \in IdsOf(groups)
          /\ \A l \in labels : l[1] \in listed /\ l[2] \in IdsOf(tags)
      BY DEF ShelfInv, Filed, Labelled
    <2> QED
      BY <2>1, <2>2, <2>3 DEF NoDanglingShelf
  <1> QED
    BY <1>1, ShelfInvHolds, PTL

---------------------------------------------------------------------------
(* The lockout                                                             *)

\* The requests of an address that are past their check.
Asking(ip) == {r \in Logins : asking[r] = ip}

\* Rows are committed in the order of the clock.
InOrder == \A i, j \in DOMAIN audit : i <= j => audit[i].at <= audit[j].at /\ audit[j].at <= clock

\* What is bounded at every moment: the failures an address's next check would
\* see, and the requests that no check will stop any more.
GuessesAreBounded ==
    \A ip \in Ips :
      Cardinality(FailsInWindow(ip)) + Cardinality(Asking(ip)) <= Threshold + Cardinality(Logins) - 1

LoginInv == LoginTypeOK /\ InOrder /\ GuessesAreBounded /\ LockoutHolds

\* How far back a check sees: what it fetched, and what it counts of that.
Reach == Min({Window, FetchWindow})

\* The rows of the audit log, one by one.
LEMMA RowsTyped ==
    ASSUME Throttled, LoginTypeOK
    PROVE  /\ DOMAIN audit = 1 .. Len(audit) /\ Len(audit) \in Nat /\ clock \in Nat
           /\ \A i \in DOMAIN audit : /\ audit[i] \in [ip : Ips \cup {"none"}, ok : BOOLEAN, at : 1 .. MaxClock]
                                      /\ audit[i].at \in Nat /\ i \in Nat
  <1> DEFINE Rows == [ip : Ips \cup {"none"}, ok : BOOLEAN, at : 1 .. MaxClock]
  <1>1. audit \in Seq(Rows) /\ clock \in 1 .. MaxClock
    BY DEF LoginTypeOK
  <1>2. \A x \in Rows : x.at \in 1 .. MaxClock
    OBVIOUS
  <1>3. \A x \in 1 .. MaxClock : x \in Nat
    BY DEF Throttled
  <1> HIDE DEF Rows
  <1>4. DOMAIN audit = 1 .. Len(audit) /\ Len(audit) \in Nat /\ \A i \in DOMAIN audit : audit[i] \in Rows /\ i \in Nat
    BY <1>1
  <1> QED
    BY <1>1, <1>2, <1>3, <1>4 DEF Rows

\* A row is within reach when both windows hold it.
LEMMA ReachIsBoth ==
    ASSUME Throttled
    PROVE  Reach \in Nat /\ \A x \in Int : x <= Reach <=> x <= Window /\ x <= FetchWindow
  <1>1. Window \in Int /\ FetchWindow \in Int /\ Window \in Nat /\ FetchWindow \in Nat
    BY DEF Throttled
  <1>2. Reach = IF Window <= FetchWindow THEN Window ELSE FetchWindow
    BY <1>1, MinOfTwo DEF Reach
  <1> QED
    BY <1>1, <1>2

\* The failures a check sees, said of the rows: within the window, and no
\* success of the address after them, which would be within the window too.
LEMMA FailsAre ==
    ASSUME Throttled, LoginTypeOK, InOrder, NEW ip \in Ips
    PROVE  /\ FailsInWindow(ip) = {i \in DOMAIN audit :
                /\ audit[i].ip = ip /\ ~audit[i].ok /\ clock - audit[i].at <= Reach
                /\ ~\E j \in DOMAIN audit : j > i /\ audit[j].ip = ip /\ audit[j].ok}
           /\ FailsInWindow(ip) \subseteq DOMAIN audit
           /\ IsFiniteSet(FailsInWindow(ip)) /\ Cardinality(FailsInWindow(ip)) \in Nat
           /\ IsFiniteSet(Asking(ip)) /\ Cardinality(Asking(ip)) \in Nat
           /\ Cardinality(Asking(ip)) <= Cardinality(Logins) /\ Cardinality(Logins) \in Nat
  <1>1. /\ DOMAIN audit = 1 .. Len(audit) /\ Len(audit) \in Nat /\ clock \in Nat
        /\ \A i \in DOMAIN audit : audit[i].at \in Nat /\ i \in Nat
    BY RowsTyped
  <1>2. \A i \in DOMAIN audit : clock - audit[i].at \in Int
    BY <1>1
  <1>3. \A i \in DOMAIN audit : clock - audit[i].at <= Reach
                                  <=> clock - audit[i].at <= Window /\ clock - audit[i].at <= FetchWindow
    BY <1>2, ReachIsBoth
  <1>4. \A i, j \in DOMAIN audit : j > i /\ clock - audit[i].at <= FetchWindow => clock - audit[j].at <= FetchWindow
    BY <1>1 DEF InOrder, Throttled
  <1>5. FailsInWindow(ip) = {i \in DOMAIN audit :
          /\ audit[i].ip = ip /\ ~audit[i].ok /\ clock - audit[i].at <= Reach
          /\ ~\E j \in DOMAIN audit : j > i /\ audit[j].ip = ip /\ audit[j].ok}
    BY <1>3, <1>4 DEF FailsInWindow, ConsecutiveFails, Recent
  <1>6. IsFiniteSet(DOMAIN audit)
    BY <1>1, FS_Interval
  <1>7. FailsInWindow(ip) \in SUBSET (DOMAIN audit) /\ Asking(ip) \in SUBSET Logins
    BY <1>5 DEF Asking
  <1>8. IsFiniteSet(Logins)
    BY DEF Throttled
  <1> QED
    BY <1>5, <1>6, <1>7, <1>8, FS_Subset, FS_CardinalityType

\* An empty log has no failures.
LEMMA LoginInitHolds ==
    ASSUME Throttled, LoginInit
    PROVE  LoginInv
  <1>1. LoginTypeOK /\ InOrder /\ LockoutHolds
    BY DEF Throttled, LoginInit, LoginTypeOK, InOrder, LockoutHolds
  <1>2. \A ip \in Ips : FailsInWindow(ip) = {} /\ Asking(ip) = {}
    BY DEF Throttled, LoginInit, FailsInWindow, ConsecutiveFails, Recent, Asking
  <1>3. Cardinality({}) = 0 /\ Cardinality(Logins) \in Nat
    BY FS_EmptySet, FS_CardinalityType DEF Throttled
  <1> QED
    BY <1>1, <1>2, <1>3 DEF LoginInv, GuessesAreBounded, Throttled

\* A request goes past its check only while the failures are under the
\* threshold, and there are only so many requests.
LEMMA AskKeeps ==
    ASSUME Throttled, LoginInv, NEW r \in Logins, NEW ip \in Ips, Ask(r, ip)
    PROVE  LoginInv'
  <1>1. /\ LoginTypeOK /\ InOrder /\ GuessesAreBounded /\ LockoutHolds
        /\ clock' = clock /\ audit' = audit /\ asking' = [asking EXCEPT ![r] = ip]
        /\ ~Locked(ip) /\ asking[r] = "none"
    BY DEF LoginInv, Ask
  <1>2. LoginTypeOK' /\ InOrder' /\ LockoutHolds'
    BY <1>1 DEF LoginTypeOK, InOrder, LockoutHolds
  <1>3. ASSUME NEW a \in Ips
        PROVE  Cardinality(FailsInWindow(a)') + Cardinality(Asking(a)') <= Threshold + Cardinality(Logins) - 1
    <2>1. FailsInWindow(a)' = FailsInWindow(a)
      BY <1>1 DEF FailsInWindow, ConsecutiveFails, Recent
    <2>2. /\ Cardinality(FailsInWindow(a)) \in Nat /\ Threshold \in Nat /\ Threshold > 0
          /\ IsFiniteSet(Logins) /\ Cardinality(Logins) \in Nat
      BY <1>1, FailsAre DEF Throttled
    <2>3. CASE a = ip
      <3>1. Cardinality(FailsInWindow(a)) < Threshold
        BY <1>1, <2>2, <2>3 DEF Locked
      <3>2. Asking(a)' \in SUBSET Logins
        BY DEF Asking
      <3>3. Cardinality(Asking(a)') <= Cardinality(Logins) /\ Cardinality(Asking(a)') \in Nat
        BY <2>2, <3>2, FS_Subset, FS_CardinalityType
      <3> QED
        BY <2>1, <2>2, <3>1, <3>3
    <2>4. CASE a # ip
      <3>1. Asking(a)' = Asking(a)
        BY <1>1, <2>4 DEF Asking, Throttled, LoginTypeOK
      <3> QED
        BY <1>1, <2>1, <3>1 DEF GuessesAreBounded
    <2> QED
      BY <2>3, <2>4
  <1> QED
    BY <1>2, <1>3 DEF LoginInv, GuessesAreBounded

\* A check that sees the same failures or fewer, of the same requests or fewer.
LEMMA FewerGuesses ==
    ASSUME Throttled, LoginTypeOK, InOrder, GuessesAreBounded, NEW ip \in Ips,
           NEW F, NEW A, F \subseteq FailsInWindow(ip), A \subseteq Asking(ip)
    PROVE  Cardinality(F) + Cardinality(A) <= Threshold + Cardinality(Logins) - 1
  <1>1. /\ IsFiniteSet(FailsInWindow(ip)) /\ Cardinality(FailsInWindow(ip)) \in Nat
        /\ IsFiniteSet(Asking(ip)) /\ Cardinality(Asking(ip)) \in Nat /\ Cardinality(Logins) \in Nat
        /\ Threshold \in Nat
    BY FailsAre DEF Throttled
  <1>2. Cardinality(FailsInWindow(ip)) + Cardinality(Asking(ip)) <= Threshold + Cardinality(Logins) - 1
    BY DEF GuessesAreBounded
  <1>3. F \in SUBSET FailsInWindow(ip) /\ A \in SUBSET Asking(ip)
    OBVIOUS
  <1>4. /\ Cardinality(F) <= Cardinality(FailsInWindow(ip)) /\ Cardinality(F) \in Nat
        /\ Cardinality(A) <= Cardinality(Asking(ip)) /\ Cardinality(A) \in Nat
    BY <1>1, <1>3, FS_Subset, FS_CardinalityType
  <1> QED
    BY <1>1, <1>2, <1>4

\* Time takes failures out of the window and puts none in.
LEMMA TickKeeps ==
    ASSUME Throttled, LoginInv, Tick
    PROVE  LoginInv'
  <1>1. /\ LoginTypeOK /\ InOrder /\ GuessesAreBounded /\ LockoutHolds
        /\ clock' = clock + 1 /\ clock < MaxClock /\ audit' = audit /\ asking' = asking
    BY DEF LoginInv, Tick
  <1>2. /\ clock \in Nat /\ \A i \in DOMAIN audit : audit[i].at \in Nat
        /\ \A i \in DOMAIN audit : i \in Nat
        /\ FetchWindow \in Nat /\ Window \in Nat
    BY <1>1, RowsTyped DEF Throttled
  <1>3. LoginTypeOK' /\ InOrder' /\ LockoutHolds'
    <2>1. LoginTypeOK'
      BY <1>1, <1>2 DEF LoginTypeOK, Throttled
    <2>2. InOrder'
      BY <1>1, <1>2 DEF InOrder
    <2>3. LockoutHolds'
      BY <1>1 DEF LockoutHolds
    <2> QED
      BY <2>1, <2>2, <2>3
  <1>4. ASSUME NEW ip \in Ips
        PROVE  Cardinality(FailsInWindow(ip)') + Cardinality(Asking(ip)') <= Threshold + Cardinality(Logins) - 1
    <2>0. clock' = clock + 1 /\ audit' = audit
      BY <1>1
    <2>1. FailsInWindow(ip)' \subseteq FailsInWindow(ip)
      <3>1. \A i, j \in DOMAIN audit : j > i /\ clock' - audit[i].at <= FetchWindow => clock' - audit[j].at <= FetchWindow
        <4> SUFFICES ASSUME NEW i \in DOMAIN audit, NEW j \in DOMAIN audit, j > i,
                            clock' - audit[i].at <= FetchWindow
                     PROVE  clock' - audit[j].at <= FetchWindow
          OBVIOUS
        <4>1. audit[i].at <= audit[j].at /\ audit[i].at \in Nat /\ audit[j].at \in Nat
          BY <1>1, <1>2 DEF InOrder
        <4> QED
          BY <1>2, <2>0, <4>1
      <3>2. \A i \in DOMAIN audit : /\ clock' - audit[i].at <= FetchWindow => clock - audit[i].at <= FetchWindow
                                    /\ clock' - audit[i].at <= Window => clock - audit[i].at <= Window
        BY <1>2, <2>0
      <3>0. SUFFICES ASSUME NEW i, i \in FailsInWindow(ip)' PROVE i \in FailsInWindow(ip)
        OBVIOUS
      <3>3. Recent' = {k \in DOMAIN audit : clock' - audit[k].at <= FetchWindow}
        BY <2>0 DEF Recent
      <3>4. /\ i \in Recent' /\ audit[i].ip = ip /\ ~audit[i].ok /\ clock' - audit[i].at <= Window
            /\ ~\E j \in Recent' : j > i /\ audit[j].ip = ip /\ audit[j].ok
        BY <2>0, <3>0 DEF FailsInWindow, ConsecutiveFails
      <3>5. i \in DOMAIN audit /\ clock' - audit[i].at <= FetchWindow
        BY <3>3, <3>4
      <3>6. ~\E j \in DOMAIN audit : j > i /\ audit[j].ip = ip /\ audit[j].ok
        BY <3>1, <3>3, <3>4, <3>5
      <3>7. i \in Recent /\ Recent \subseteq DOMAIN audit
        BY <3>2, <3>5 DEF Recent
      <3>8. i \in ConsecutiveFails(ip)
        BY <3>4, <3>6, <3>7 DEF ConsecutiveFails
      <3> QED
        BY <3>2, <3>4, <3>5, <3>8 DEF FailsInWindow
    <2>2. Asking(ip)' \subseteq Asking(ip)
      BY <1>1 DEF Asking
    <2> QED
      BY <1>1, <2>1, <2>2, FewerGuesses
  <1> QED
    BY <1>3, <1>4 DEF LoginInv, GuessesAreBounded

\* The rows of one address after its failures are deleted: successes only.
LEMMA ResetKeeps ==
    ASSUME Throttled, LoginInv, NEW ip \in Ips, ResetLockout(ip)
    PROVE  LoginInv'
  <1> DEFINE gone == {i \in DOMAIN audit : audit[i].ip = ip /\ ~audit[i].ok}
  <1>1. /\ LoginTypeOK /\ InOrder /\ GuessesAreBounded /\ LockoutHolds
        /\ clock' = clock /\ asking' = asking
        /\ audit' = [i \in DOMAIN audit |-> IF i \in gone THEN [audit[i] EXCEPT !.ip = "none"] ELSE audit[i]]
    BY DEF LoginInv, ResetLockout
  <1>2. /\ DOMAIN audit = 1 .. Len(audit) /\ Len(audit) \in Nat /\ clock \in Nat
        /\ \A i \in DOMAIN audit : /\ audit[i] \in [ip : Ips \cup {"none"}, ok : BOOLEAN, at : 1 .. MaxClock]
                                   /\ audit[i].at \in Nat /\ i \in Nat
    BY <1>1, RowsTyped
  <1>3. DOMAIN audit' = DOMAIN audit
    BY <1>1
  <1>4. \A i \in DOMAIN audit : /\ audit'[i].ok = audit[i].ok /\ audit'[i].at = audit[i].at
                                /\ audit'[i] \in [ip : Ips \cup {"none"}, ok : BOOLEAN, at : 1 .. MaxClock]
                                /\ audit'[i].ip = IF i \in gone THEN "none" ELSE audit[i].ip
    BY <1>1, <1>2
  <1>5. \A i \in DOMAIN audit : i \in gone <=> audit[i].ip = ip /\ ~audit[i].ok
    OBVIOUS
  <1>6. "none" \notin Ips
    BY DEF Throttled
  <1> HIDE DEF gone
  <1>7. LoginTypeOK'
    <2>1. audit' \in Seq([ip : Ips \cup {"none"}, ok : BOOLEAN, at : 1 .. MaxClock]) /\ Len(audit') = Len(audit)
      <3> DEFINE Rows == [ip : Ips \cup {"none"}, ok : BOOLEAN, at : 1 .. MaxClock]
      <3>1. audit' \in [1 .. Len(audit) -> Rows]
        BY <1>1, <1>2, <1>4
      <3> HIDE DEF Rows
      <3>2. audit' \in Seq(Rows) /\ Len(audit') = Len(audit)
        BY <1>2, <3>1
      <3> QED
        BY <3>2 DEF Rows
    <2> QED
      BY <1>1, <2>1 DEF LoginTypeOK
  <1>8. InOrder'
    BY <1>1, <1>3, <1>4 DEF InOrder
  <1>9. GuessesAreBounded'
    <2> SUFFICES ASSUME NEW a \in Ips
        PROVE  Cardinality(FailsInWindow(a)') + Cardinality(Asking(a)') <= Threshold + Cardinality(Logins) - 1
      BY DEF GuessesAreBounded
    <2>1. FailsInWindow(a)' \subseteq FailsInWindow(a)
      <3>1. \A i \in DOMAIN audit : audit'[i].ip = a => audit[i].ip = a
        BY <1>4, <1>6
      <3>2. \A i \in DOMAIN audit : audit[i].ip = a /\ audit[i].ok => audit'[i].ip = a /\ audit'[i].ok
        BY <1>4, <1>5
      <3> QED
        BY <1>1, <1>3, <1>4, <3>1, <3>2 DEF FailsInWindow, ConsecutiveFails, Recent
    <2>2. Asking(a)' \subseteq Asking(a)
      BY <1>1 DEF Asking
    <2> QED
      BY <1>1, <2>1, <2>2, FewerGuesses
  <1>10. LockoutHolds'
    <2> DEFINE Near(log, i) == {j \in 1 .. i : log[j].ip = log[i].ip /\ log[i].at - log[j].at <= Reach}
    <2>1. SUFFICES ASSUME NEW i \in DOMAIN audit, audit'[i].ip \in Ips, \A j \in Near(audit', i) : ~audit'[j].ok
          PROVE  Cardinality(Near(audit', i)) <= Threshold + Cardinality(Logins) - 1
      BY <1>3 DEF LockoutHolds, Reach
    <2>2. i \notin gone /\ audit'[i].ip = audit[i].ip
      BY <1>4, <1>6, <2>1
    <2>3. i \in Near(audit', i)
      BY <1>2, <1>4, ReachIsBoth
    <2>4. audit[i].ip # ip
      BY <1>4, <1>5, <2>1, <2>2, <2>3
    <2>5. Near(audit', i) = Near(audit, i)
      <3>1. \A j \in 1 .. i : j \in DOMAIN audit
        BY <1>2
      <3>2. \A j \in 1 .. i : audit'[j].ip = audit[i].ip <=> audit[j].ip = audit[i].ip
        BY <1>4, <1>5, <1>6, <2>1, <2>2, <2>4, <3>1
      <3>3. \A j \in 1 .. i : audit'[j].at = audit[j].at /\ audit'[i].at = audit[i].at
        BY <1>4, <3>1
      <3> QED
        BY <2>2, <3>2, <3>3
    <2>6. \A j \in Near(audit, i) : ~audit[j].ok
      <3>1. \A j \in 1 .. i : j \in DOMAIN audit
        BY <1>2
      <3> QED
        BY <1>4, <2>1, <2>5, <3>1
    <2>7. audit[i].ip \in Ips
      BY <2>1, <2>2
    <2>8. Cardinality(Near(audit, i)) <= Threshold + Cardinality(Logins) - 1
      BY <1>1, <2>6, <2>7 DEF LockoutHolds, Reach
    <2> QED
      BY <2>5, <2>8
  <1> QED
    BY <1>7, <1>8, <1>9, <1>10 DEF LoginInv

\* A password checked: its row is one more failure and one request less, or a
\* success that ends the row of failures.
LEMMA AnswerKeeps ==
    ASSUME Throttled, LoginInv, NEW r \in Logins, NEW ok \in BOOLEAN, Answer(r, ok)
    PROVE  LoginInv'
  <1>0. PICK ip \in Ips : ip = asking[r]
    BY DEF LoginInv, LoginTypeOK, Answer
  <1> DEFINE n == Len(audit)
             row == [ip |-> ip, ok |-> ok, at |-> clock]
             Rows == [ip : Ips \cup {"none"}, ok : BOOLEAN, at : 1 .. MaxClock]
  <1>1. /\ LoginTypeOK /\ InOrder /\ GuessesAreBounded /\ LockoutHolds
        /\ clock' = clock /\ asking' = [asking EXCEPT ![r] = "none"]
        /\ audit' = Append(audit, row) /\ Len(audit) < MaxAttempts /\ asking[r] # "none"
    BY <1>0 DEF LoginInv, Answer
  <1>2. /\ DOMAIN audit = 1 .. n /\ n \in Nat /\ clock \in Nat /\ audit \in Seq(Rows)
        /\ \A i \in DOMAIN audit : audit[i].at \in Nat /\ i \in Nat
    BY <1>1, RowsTyped DEF LoginTypeOK
  <1>3. ip \in Ips /\ "none" \notin Ips /\ row \in Rows /\ row.ip = ip /\ row.ok = ok /\ row.at = clock
    BY <1>0, <1>1 DEF LoginTypeOK, Throttled
  <1> HIDE DEF row
  <1>4. /\ DOMAIN audit' = 1 .. (n + 1) /\ audit'[n + 1] = row /\ \A i \in 1 .. n : audit'[i] = audit[i]
        /\ audit' \in Seq(Rows) /\ Len(audit') = n + 1
    <2> HIDE DEF Rows
    <2> QED
      BY <1>1, <1>2, <1>3
  <1> HIDE DEF n
  <1>5. LoginTypeOK'
    <2>1. asking' \in [Logins -> Ips \cup {"none"}] /\ Len(audit') <= MaxAttempts
      BY <1>1, <1>2, <1>4 DEF LoginTypeOK, Throttled, n
    <2> QED
      BY <1>1, <1>4, <2>1 DEF LoginTypeOK
  <1> HIDE DEF Rows
  <1>6. InOrder'
    <2> SUFFICES ASSUME NEW i \in 1 .. (n + 1), NEW j \in 1 .. (n + 1), i <= j
                 PROVE  audit'[i].at <= audit'[j].at /\ audit'[j].at <= clock
      BY <1>1, <1>4 DEF InOrder
    <2>1. \A k \in 1 .. (n + 1) : k \in 1 .. n \/ k = n + 1
      BY <1>2
    <2>2. CASE j \in 1 .. n
      <3>1. i \in 1 .. n
        BY <1>2, <2>2
      <3> QED
        BY <1>1, <1>2, <1>4, <2>2, <3>1 DEF InOrder
    <2>3. CASE j = n + 1 /\ i \in 1 .. n
      BY <1>1, <1>2, <1>3, <1>4, <2>3 DEF InOrder
    <2>4. CASE j = n + 1 /\ i = n + 1
      BY <1>2, <1>3, <1>4, <2>4
    <2> QED
      BY <1>2, <2>1, <2>2, <2>3, <2>4
  <1>7. GuessesAreBounded'
    <2> SUFFICES ASSUME NEW a \in Ips
        PROVE  Cardinality(FailsInWindow(a)') + Cardinality(Asking(a)') <= Threshold + Cardinality(Logins) - 1
      BY DEF GuessesAreBounded
    <2>1. FailsInWindow(a)' \subseteq FailsInWindow(a) \cup (IF a = ip /\ ~ok THEN {n + 1} ELSE {})
      <3> SUFFICES ASSUME NEW i \in FailsInWindow(a)', ~(i = n + 1 /\ a = ip /\ ~ok)
                   PROVE  i \in FailsInWindow(a)
        OBVIOUS
      <3>1. /\ i \in 1 .. (n + 1) /\ audit'[i].ip = a /\ ~audit'[i].ok /\ clock - audit'[i].at <= FetchWindow
            /\ clock - audit'[i].at <= Window
            /\ ~\E j \in 1 .. (n + 1) : /\ clock - audit'[j].at <= FetchWindow
                                        /\ j > i /\ audit'[j].ip = a /\ audit'[j].ok
        BY <1>1, <1>4 DEF FailsInWindow, ConsecutiveFails, Recent
      <3>2. i \in 1 .. n
        BY <1>2, <1>3, <1>4, <3>1
      <3>3. \A j \in 1 .. n : j \in 1 .. (n + 1) /\ audit'[j] = audit[j]
        BY <1>2, <1>4
      <3> QED
        BY <1>2, <3>1, <3>2, <3>3 DEF FailsInWindow, ConsecutiveFails, Recent
    <2>2. Asking(a)' = IF a = ip THEN Asking(a) \ {r} ELSE Asking(a)
      BY <1>0, <1>1, <1>3 DEF Asking, LoginTypeOK
    <2>3. CASE ~(a = ip /\ ~ok)
      BY <1>1, <2>1, <2>2, <2>3, FewerGuesses
    <2>4. CASE a = ip /\ ~ok
      <3>1. r \in Asking(a)
        BY <1>0, <2>4 DEF Asking
      <3>2. /\ IsFiniteSet(FailsInWindow(a)) /\ Cardinality(FailsInWindow(a)) \in Nat
            /\ IsFiniteSet(Asking(a)) /\ Cardinality(Asking(a)) \in Nat /\ Cardinality(Logins) \in Nat
            /\ Threshold \in Nat
        BY <1>1, FailsAre DEF Throttled
      <3>3. Cardinality(Asking(a)') = Cardinality(Asking(a)) - 1
        BY <2>2, <2>4, <3>1, <3>2, FS_RemoveElement
      <3>4. FailsInWindow(a)' \subseteq FailsInWindow(a) \cup {n + 1}
        BY <2>1, <2>4
      <3>5. /\ Cardinality(FailsInWindow(a)') <= Cardinality(FailsInWindow(a)) + 1
            /\ Cardinality(FailsInWindow(a)') \in Nat
        BY <3>2, <3>4, OneMoreAtMost
      <3>6. Cardinality(FailsInWindow(a)) + Cardinality(Asking(a)) <= Threshold + Cardinality(Logins) - 1
        BY <1>1 DEF GuessesAreBounded
      <3> QED
        BY <3>2, <3>3, <3>5, <3>6
    <2> QED
      BY <2>3, <2>4
  <1>8. LockoutHolds'
    <2> DEFINE Near(log, i) == {j \in 1 .. i : log[j].ip = log[i].ip /\ log[i].at - log[j].at <= Reach}
    <2>1. SUFFICES ASSUME NEW i \in 1 .. (n + 1), audit'[i].ip \in Ips, \A j \in Near(audit', i) : ~audit'[j].ok
          PROVE  Cardinality(Near(audit', i)) <= Threshold + Cardinality(Logins) - 1
      BY <1>4 DEF LockoutHolds, Reach
    <2>2. CASE i \in 1 .. n
      <3>1. \A j \in 1 .. i : j \in 1 .. n
        BY <1>2, <2>2
      <3>2. Near(audit', i) = Near(audit, i)
        BY <1>4, <2>2, <3>1
      <3>3. audit[i].ip \in Ips /\ \A j \in Near(audit, i) : ~audit[j].ok
        BY <1>4, <2>1, <2>2, <3>1, <3>2
      <3>4. Cardinality(Near(audit, i)) <= Threshold + Cardinality(Logins) - 1
        BY <1>1, <1>2, <2>2, <3>3 DEF LockoutHolds, Reach
      <3> QED
        BY <3>2, <3>4
    <2>3. CASE i = n + 1
      <3>1. InOrder' /\ LoginTypeOK' /\ GuessesAreBounded'
        BY <1>5, <1>6, <1>7
      <3>2. Near(audit', i) \subseteq FailsInWindow(ip)'
        <4> SUFFICES ASSUME NEW j \in Near(audit', i) PROVE j \in FailsInWindow(ip)'
          OBVIOUS
        <4>1. /\ j \in 1 .. (n + 1) /\ audit'[j].ip = ip /\ clock - audit'[j].at <= Reach /\ ~audit'[j].ok
              /\ audit'[j].at \in Nat
          <5>1. audit'[i].ip = ip /\ audit'[i].at = clock
            BY <1>3, <1>4, <2>3
          <5>2. audit'[j].at \in Nat
            BY <1>2, <1>3, <1>4, <2>3
          <5> QED
            BY <2>1, <2>3, <5>1, <5>2
        <4>2. ASSUME NEW k \in 1 .. (n + 1), k > j, audit'[k].ip = ip, audit'[k].ok PROVE FALSE
          <5>1. audit'[j].at <= audit'[k].at /\ audit'[k].at \in Nat
            <6>1. audit'[k].at \in Nat
              BY <1>2, <1>3, <1>4, <4>2
            <6>2. j \in DOMAIN audit' /\ k \in DOMAIN audit' /\ j <= k
              BY <1>2, <1>4, <4>1, <4>2
            <6>3. \A x, y \in DOMAIN audit' : x <= y => audit'[x].at <= audit'[y].at
              BY <1>6 DEF InOrder
            <6> QED
              BY <6>1, <6>2, <6>3
          <5>2. clock - audit'[k].at <= Reach /\ Reach \in Nat
            BY <1>2, <4>1, <5>1, ReachIsBoth
          <5>3. k \in Near(audit', i)
            BY <1>3, <1>4, <2>3, <4>2, <5>2
          <5> QED
            BY <2>1, <4>2, <5>3
        <4>3. clock - audit'[j].at <= Window /\ clock - audit'[j].at <= FetchWindow
          BY <1>2, <4>1, ReachIsBoth
        <4> QED
          BY <1>1, <1>4, <4>1, <4>2, <4>3 DEF FailsInWindow, ConsecutiveFails, Recent
      <3>3. IsFiniteSet(FailsInWindow(ip)')
        <4>1. FailsInWindow(ip)' \in SUBSET (1 .. (n + 1))
          BY <1>4 DEF FailsInWindow, ConsecutiveFails, Recent
        <4>2. IsFiniteSet(1 .. (n + 1))
          BY <1>2, FS_Interval
        <4> QED
          BY <4>1, <4>2, FS_Subset
      <3>4. Near(audit', i) \in SUBSET FailsInWindow(ip)'
        BY <3>2
      <3>5. /\ Cardinality(Near(audit', i)) <= Cardinality(FailsInWindow(ip)')
            /\ Cardinality(Near(audit', i)) \in Nat /\ Cardinality(FailsInWindow(ip)') \in Nat
        BY <3>3, <3>4, FS_Subset, FS_CardinalityType
      <3>6. Cardinality(FailsInWindow(ip)') + Cardinality(Asking(ip)') <= Threshold + Cardinality(Logins) - 1
        BY <1>3, <1>7 DEF GuessesAreBounded
      <3>7. Cardinality(Asking(ip)') \in Nat
        <4>1. Asking(ip)' \in SUBSET Logins /\ IsFiniteSet(Logins)
          BY DEF Asking, Throttled
        <4> QED
          BY <4>1, FS_Subset, FS_CardinalityType
      <3>8. Threshold \in Nat /\ Cardinality(Logins) \in Nat
        BY FS_CardinalityType DEF Throttled
      <3> QED
        BY <3>5, <3>6, <3>7, <3>8
    <2> QED
      BY <1>2, <2>2, <2>3
  <1> QED
    BY <1>5, <1>6, <1>7, <1>8 DEF LoginInv

\* The invariant of the checks, the answers, the resets and the clock.
THEOREM LockoutsHold == LoginSpec => []LoginInv
  <1> USE LoginAssumption
  <1>1. LoginInit => LoginInv
    BY LoginInitHolds
  <1>2. LoginInv /\ [LoginNext]_loginVars => LoginInv'
    <2> SUFFICES ASSUME LoginInv, [LoginNext]_loginVars PROVE LoginInv'
      OBVIOUS
    <2>1. CASE UNCHANGED loginVars
      BY <2>1 DEF loginVars, LoginInv, LoginTypeOK, InOrder, GuessesAreBounded, LockoutHolds,
           FailsInWindow, ConsecutiveFails, Recent, Asking
    <2>2. CASE \E r \in Logins, ip \in Ips : Ask(r, ip)
      BY <2>2, AskKeeps
    <2>3. CASE \E r \in Logins, ok \in BOOLEAN : Answer(r, ok)
      BY <2>3, AnswerKeeps
    <2>4. CASE \E ip \in Ips : ResetLockout(ip)
      BY <2>4, ResetKeeps
    <2>5. CASE Tick
      BY <2>5, TickKeeps
    <2> QED
      BY <2>1, <2>2, <2>3, <2>4, <2>5 DEF LoginNext
  <1> QED
    BY <1>1, <1>2, PTL DEF LoginSpec

\* The audit log and the logins under way keep their types.
THEOREM LoginTypeCorrect == LoginSpec => []LoginTypeOK
  <1> USE LoginAssumption
  <1>1. LoginInv => LoginTypeOK
    BY DEF LoginInv
  <1> QED
    BY <1>1, LockoutsHold, PTL

\* Whatever the threshold, the windows and the number of requests at once: no
\* address guesses more often in a row within the window than the threshold and
\* the requests that were past their check.
THEOREM GuessesAreLimited == LoginSpec => []LockoutHolds
  <1> USE LoginAssumption
  <1>1. LoginInv => LockoutHolds
    BY DEF LoginInv
  <1> QED
    BY <1>1, LockoutsHold, PTL

---------------------------------------------------------------------------
(* The platform *)

\* A step of the platform is a step of one part, and leaves every other as it is.
LEMMA StepsAreOfParts ==
    [Next]_vars =>
        /\ [WalkNext]_walkVars /\ [GradeNext]_gradeVars /\ [StreakNext]_streakVars
        /\ [DigestNext]_digestVars /\ [BackupNext]_backupVars
        /\ [LoginNext]_loginVars /\ [CredentialsNext]_credentialVars
        /\ [CatalystNext]_catalystVars /\ [ShelfNext]_shelfVars
  <1> SUFFICES ASSUME [Next]_vars
               PROVE  /\ [WalkNext]_walkVars /\ [GradeNext]_gradeVars /\ [StreakNext]_streakVars
                      /\ [DigestNext]_digestVars /\ [BackupNext]_backupVars
                      /\ [LoginNext]_loginVars /\ [CredentialsNext]_credentialVars
                      /\ [CatalystNext]_catalystVars /\ [ShelfNext]_shelfVars
    OBVIOUS
  <1>1. CASE History
    BY <1>1, Zenon DEF History, jobVars, accountVars, tableVars
  <1>2. CASE Job
    BY <1>2, Zenon DEF Job, historyVars, accountVars, tableVars
  <1>3. CASE Account
    BY <1>3, Zenon DEF Account, historyVars, jobVars, tableVars
  <1>4. CASE Table
    BY <1>4, Zenon DEF Table, historyVars, jobVars, accountVars
  <1>5. CASE UNCHANGED vars
    BY <1>5, Zenon DEF vars, historyVars, jobVars, accountVars, tableVars
  <1> QED
    BY <1>1, <1>2, <1>3, <1>4, <1>5 DEF Next

\* Put together, the parts behave each as it does alone: what is proved of a
\* part's specification holds of the platform's.
THEOREM PartsBehaveAsAlone ==
    Spec => /\ WalkSpec /\ GradeSpec /\ StreakSpec /\ DigestSpec /\ BackupSpec
            /\ LoginSpec /\ CredentialsSpec /\ CatalystSpec /\ ShelfSpec
  <1>1. Init => /\ WalkInit /\ GradeInit /\ StreakInit /\ DigestInit /\ BackupInit
                /\ LoginInit /\ CredentialsInit /\ CatalystInit /\ ShelfInit
    BY DEF Init
  <1> QED
    BY <1>1, StepsAreOfParts, PTL DEF Spec, WalkSpec, GradeSpec, StreakSpec, DigestSpec, BackupSpec,
        LoginSpec, CredentialsSpec, CatalystSpec, ShelfSpec

\* Every table of the platform keeps its type.
THEOREM PlatformTypeCorrect == Spec => []TypeOK
  <1>1. (/\ WalkTypeOK /\ GradeTypeOK /\ StreakTypeOK /\ DigestTypeOK /\ BackupTypeOK
         /\ LoginTypeOK /\ CredentialsTypeOK /\ CatalystTypeOK /\ ShelfTypeOK) => TypeOK
    BY DEF TypeOK
  <1> QED
    BY <1>1, PartsBehaveAsAlone, BacktestTypeCorrect, GradeTypeCorrect, StreakTypeCorrect, DigestTypeCorrect,
        BackupTypeCorrect, LoginTypeCorrect, CredentialsTypeCorrect, CatalystTypeCorrect, ShelfTypeCorrect, PTL

\* And no part's promise is broken by another: the books balance and positions
\* keep their discipline, grades are sound and final, streaks pair with snapshots
\* and add up, a digest is mailed once, a backup is left to restore, guesses are
\* limited, the password is the one set last, shelves stay whole, and a sync
\* keeps what it could not fetch.
THEOREM PlatformKeepsItsPromises ==
    Spec => /\ [](Ledger /\ Disciplines)
            /\ [](PostureOnBaseline /\ StudySamples) /\ GradesFinal
            /\ [](SnapshotsAndStreaksPair /\ StreaksAddUp /\ RebuildRestoresTruth)
            /\ [](DigestAtMostOnce /\ RestorableBackup)
            /\ [](LockoutHolds /\ PasswordIsLastSet)
            /\ []NoDanglingShelf /\ SyncKeepsWhatItCouldNotFetch
  BY PartsBehaveAsAlone, BooksBalance, DisciplineHolds, PosturesAreOnBaseline, SamplesAreSound, GradesAreFinal,
      PairsStayTogether, RowsAddUp, RebuildIsTruth, DigestIsMailedOnce, BackupsAreRestorable,
      GuessesAreLimited, LoginIsLastSet, ShelvesStayConsistent, UnfetchedEventsSurvive, PTL
=============================================================================
