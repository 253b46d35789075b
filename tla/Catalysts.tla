------------------------------- MODULE Catalysts -------------------------------
(***************************************************************************)
(* The catalyst calendar: calendar_event rows, upserted by a sync at the   *)
(* end of every update and by the operator's paste, and purged when their  *)
(* ticker leaves the watchlist.  A sync has read the watchlist before it   *)
(* awaits the earnings, and writes after it.                               *)
(***************************************************************************)
EXTENDS Integers, FiniteSets

CONSTANTS Tickers, Market,     \* tickers, and "no ticker" (macro and market-wide events)
          Syncs,               \* updates that may sync together
          NotRunning,
          CatalystDays,        \* bound: calendar days
          Horizon,             \* days ahead that earnings and macro releases are kept for
          ReleaseDays,         \* the days generate_macro_release_schedule comes up with
          YamlEvents,          \* the industry file's events
          Pastes,              \* what the operator may paste: [parsed : sets of industry events]
          MaxSyncs             \* bound: syncs begun

EventDates == 1..CatalystDays
Types == {"earnings", "macro", "industry"}
Events == [type : Types, ticker : Tickers \cup {Market}, on : EventDates]

(* What the sources come up with are rows of the table.                    *)
Sourced ==
  /\ CatalystDays \in Nat \ {0} /\ MaxSyncs \in Nat
  /\ ReleaseDays \subseteq EventDates
  /\ YamlEvents \subseteq Events
  /\ \A rows \in Pastes : rows \subseteq Events
  /\ \A symbols \in SUBSET Tickers : NotRunning # symbols
ASSUME CatalystAssumption == Sourced

VARIABLES syncDate,
          watchlist,    \* the watched tickers
          announced,    \* the provider's earnings dates, [Tickers -> a day]
          events,       \* the table: [type, ticker, on]
          syncing,      \* [Syncs -> the watchlist read, or NotRunning]
          begun,
          both          \* history: [Syncs -> tickers watched ever since it read the list]

catalystVars == <<syncDate, watchlist, announced, events, syncing, begun, both>>

Event(type, t, d) == [type |-> type, ticker |-> t, on |-> d]
Upcoming(d) == syncDate <= d /\ d <= syncDate + Horizon

(* The three sources; one that fails yields nothing, a ticker at a time    *)
(* for earnings.                                                           *)
Earnings(symbols) == {Event("earnings", t, announced[t]) : t \in {t \in symbols : Upcoming(announced[t])}}
Releases == {Event("macro", Market, d) : d \in {d \in ReleaseDays : d <= syncDate + Horizon}}

(* upsert_many: date, type, ticker and title are the key, so an event that *)
(* moves is another event.                                                 *)
Upserted(table, rows) == table \cup rows
(* Mutant: events of no ticker are taken for orphans.                      *)
PurgedUnwatched(table, symbols) == {e \in table : e.type = "macro" \/ e.ticker \in symbols}
Purged(table, symbols) == {e \in table : e.ticker = Market \/ e.type = "macro" \/ e.ticker \in symbols}

CatalystInit ==
  /\ syncDate = 1 /\ watchlist = {} /\ announced = [t \in Tickers |-> 1]
  /\ events = {} /\ syncing = [u \in Syncs |-> NotRunning] /\ begun = 0
  /\ both = [u \in Syncs |-> {}]

Watch(t) ==
  /\ t \notin watchlist
  /\ watchlist' = watchlist \cup {t}
  /\ UNCHANGED <<syncDate, announced, events, syncing, begun, both>>

Unwatch(t) ==
  /\ t \in watchlist
  /\ watchlist' = watchlist \ {t}
  /\ both' = [u \in Syncs |-> both[u] \ {t}]
  /\ UNCHANGED <<syncDate, announced, events, syncing, begun>>

(* Outside: the company announces its date.                                *)
Announce(t, d) ==
  /\ announced' = [announced EXCEPT ![t] = d]
  /\ announced' # announced
  /\ UNCHANGED <<syncDate, watchlist, events, syncing, begun, both>>

SyncBegin(u) ==
  /\ syncing[u] = NotRunning /\ begun < MaxSyncs
  /\ syncing' = [syncing EXCEPT ![u] = watchlist]
  /\ both' = [both EXCEPT ![u] = watchlist]
  /\ begun' = begun + 1
  /\ UNCHANGED <<syncDate, watchlist, announced, events>>

(* After the await: upsert what was fetched, then purge by the list read.  *)
SyncFinish(u) ==
  /\ syncing[u] # NotRunning
  /\ \E fetched \in SUBSET Earnings(syncing[u]), macro \in {{}, Releases}, industry \in {{}, YamlEvents} :
       events' = Purged(Upserted(events, fetched \cup macro \cup industry), syncing[u])
  /\ syncing' = [syncing EXCEPT ![u] = NotRunning]
  /\ both' = [both EXCEPT ![u] = {}]
  /\ UNCHANGED <<syncDate, watchlist, announced, begun>>

Paste(rows) ==
  /\ events' = Upserted(events, rows)
  /\ UNCHANGED <<syncDate, watchlist, announced, syncing, begun, both>>

NextSyncDate ==
  /\ syncDate < CatalystDays
  /\ syncDate' = syncDate + 1
  /\ UNCHANGED <<watchlist, announced, events, syncing, begun, both>>

CatalystNext ==
  \/ \E t \in Tickers : Watch(t) \/ Unwatch(t) \/ \E d \in EventDates : Announce(t, d)
  \/ \E u \in Syncs : SyncBegin(u) \/ SyncFinish(u)
  \/ \E rows \in Pastes : Paste(rows)
  \/ NextSyncDate

CatalystSpec == CatalystInit /\ [][CatalystNext]_catalystVars

(* GET /calendar/events and next_for_ticker.                               *)
ListInRange(from, to, tickers) ==
  {e \in events : from <= e.on /\ e.on <= to /\ (tickers = {} \/ e.ticker \in tickers \cup {Market})}

---------------------------------------------------------------------------
CatalystTypeOK ==
  /\ syncDate \in EventDates /\ watchlist \in SUBSET Tickers /\ announced \in [Tickers -> EventDates]
  /\ events \in SUBSET [type : Types, ticker : Tickers \cup {Market}, on : EventDates]
  /\ syncing \in [Syncs -> (SUBSET Tickers) \cup {NotRunning}] /\ begun \in 0..MaxSyncs
  /\ both \in [Syncs -> SUBSET Tickers]

(* A sync whose sources fail loses nothing: whatever it could not fetch    *)
(* again stays, for every ticker that was on the watchlist throughout, and *)
(* for the market as a whole, also when another sync overtakes it.         *)
UnfetchedKept ==
  \A u \in Syncs : SyncFinish(u) => \A e \in events \ events' : e.ticker \notin both[u] \cup {Market}
SyncKeepsWhatItCouldNotFetch == [][UnfetchedKept]_catalystVars
=============================================================================
