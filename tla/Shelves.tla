-------------------------------- MODULE Shelves --------------------------------
(***************************************************************************)
(* Groups and tags of the watchlist.  A handler reads and flushes without  *)
(* a pause, but commits later, on another thread: what it reads may lack   *)
(* the work of a handler that has yet to commit, and its flush waits for   *)
(* that commit.  Modelled as two steps, the reads (with their checks) and  *)
(* the flush, which the database's constraints may still refuse.           *)
(***************************************************************************)
EXTENDS Integers, FiniteSets, FiniteSetsExt

CONSTANTS Symbols, Names, Requests,
          Unfiled,       \* no group
          MaxIds,        \* bound: group and tag ids at a time
          MaxPerUser     \* MAX_GROUPS_PER_USER, MAX_TAGS_PER_USER (20)

Limited ==
  /\ MaxPerUser \in Nat \ {0} /\ MaxIds \in Nat
  /\ IsFiniteSet(Requests)
ASSUME ShelfAssumption == Limited

VARIABLES listed,    \* watchlist rows
          groups,    \* [id, name, position]
          tags,      \* [id, name]
          shelf,     \* group_id: [Symbols -> an id or Unfiled]
          labels,    \* watchlist_symbol_tag: <<symbol, tag id>>
          wants      \* [Requests -> a request past its checks, or Nothing]

shelfVars == <<listed, groups, tags, shelf, labels, wants>>

Nothing == [op |-> "none"]
IdsOf(table) == {row.id : row \in table}
NamesOf(table) == {row.name : row \in table}
(* SQLite's next row id: a deleted last id is given out again.             *)
NextId(table) == IF table = {} THEN 1 ELSE Max(IdsOf(table)) + 1
Free(table, id, name) == \A row \in table : row.name = name => row.id = id
NextPosition == IF groups = {} THEN 0 ELSE Max({g.position : g \in groups}) + 1

ShelfInit ==
  /\ listed = {} /\ groups = {} /\ tags = {} /\ shelf = [s \in Symbols |-> Unfiled]
  /\ labels = {} /\ wants = [r \in Requests |-> Nothing]

Read(r, want) ==
  /\ wants[r] = Nothing
  /\ wants' = [wants EXCEPT ![r] = want]
  /\ UNCHANGED <<listed, groups, tags, shelf, labels>>

(* The reads of each handler; a check that fails ends the request.         *)
ReadCreateGroup(r, name) ==
  /\ Cardinality(groups) < MaxPerUser /\ name \notin NamesOf(groups)
  /\ Read(r, [op |-> "createGroup", name |-> name, position |-> NextPosition])
ReadCreateTag(r, name) ==
  /\ Cardinality(tags) < MaxPerUser /\ name \notin NamesOf(tags)
  /\ Read(r, [op |-> "createTag", name |-> name])
ReadRename(r, id, name) ==
  /\ id \in IdsOf(groups) /\ Free(groups, id, name)
  /\ Read(r, [op |-> "rename", id |-> id, name |-> name])
ReadRenameTag(r, id, name) ==
  /\ id \in IdsOf(tags) /\ Free(tags, id, name)
  /\ Read(r, [op |-> "renameTag", id |-> id, name |-> name])
ReadReorder(r, first) ==
  /\ first \in IdsOf(groups)
  /\ Read(r, [op |-> "reorder", order |-> [id \in IdsOf(groups) |->
        IF id = first THEN 0 ELSE Cardinality({j \in IdsOf(groups) \ {first} : j < id}) + 1]])
ReadAssign(r, s, id) ==
  /\ s \in listed /\ id \in IdsOf(groups) \cup {Unfiled}
  /\ Read(r, [op |-> "assign", symbol |-> s, id |-> id])
ReadDeleteGroup(r, id) == id \in IdsOf(groups) /\ Read(r, [op |-> "deleteGroup", id |-> id])
ReadAttach(r, s, id) ==
  /\ s \in listed /\ id \in IdsOf(tags)
  /\ Read(r, [op |-> "attach", symbol |-> s, id |-> id])
ReadDeleteTag(r, id) == id \in IdsOf(tags) /\ Read(r, [op |-> "deleteTag", id |-> id])

Done(r) == wants' = [wants EXCEPT ![r] = Nothing]
Asked(r, op) == wants[r].op = op

(* The flush.  The unique index, the foreign keys and the row counts of    *)
(* the ORM refuse what the reads could not foresee: the request fails and  *)
(* changes nothing.                                                        *)
Refused(r) == Done(r) /\ UNCHANGED <<listed, groups, tags, shelf, labels>>

CreateGroup(r) ==
  /\ Asked(r, "createGroup") /\ NextId(groups) <= MaxIds
  /\ IF wants[r].name \in NamesOf(groups) THEN Refused(r)
     ELSE /\ groups' = groups \cup {[id |-> NextId(groups), name |-> wants[r].name, position |-> wants[r].position]}
          /\ Done(r) /\ UNCHANGED <<listed, tags, shelf, labels>>

CreateTag(r) ==
  /\ Asked(r, "createTag") /\ NextId(tags) <= MaxIds
  /\ IF wants[r].name \in NamesOf(tags) THEN Refused(r)
     ELSE /\ tags' = tags \cup {[id |-> NextId(tags), name |-> wants[r].name]}
          /\ Done(r) /\ UNCHANGED <<listed, groups, shelf, labels>>

Renamed(table, want) == {IF row.id = want.id THEN [row EXCEPT !.name = want.name] ELSE row : row \in table}
Rename(r) ==
  /\ Asked(r, "rename")
  /\ IF wants[r].id \notin IdsOf(groups) \/ ~Free(groups, wants[r].id, wants[r].name) THEN Refused(r)
     ELSE /\ groups' = Renamed(groups, wants[r])
          /\ Done(r) /\ UNCHANGED <<listed, tags, shelf, labels>>

RenameTag(r) ==
  /\ Asked(r, "renameTag")
  /\ IF wants[r].id \notin IdsOf(tags) \/ ~Free(tags, wants[r].id, wants[r].name) THEN Refused(r)
     ELSE /\ tags' = Renamed(tags, wants[r])
          /\ Done(r) /\ UNCHANGED <<listed, groups, shelf, labels>>

(* Groups created since are left where they are; one deleted since fails   *)
(* the flush.                                                              *)
Reorder(r) ==
  /\ Asked(r, "reorder")
  /\ IF DOMAIN wants[r].order \subseteq IdsOf(groups)
     THEN /\ groups' = {IF g.id \in DOMAIN wants[r].order THEN [g EXCEPT !.position = wants[r].order[g.id]] ELSE g
                          : g \in groups}
          /\ Done(r) /\ UNCHANGED <<listed, tags, shelf, labels>>
     ELSE Refused(r)

(* set_watchlist_group: the foreign key holds the deleted group off.       *)
(* Mutant: foreign keys are not enforced.                                  *)
NoForeignKey(id, table) == TRUE
ForeignKey(id, table) == id \in IdsOf(table)
Assign(r) ==
  /\ Asked(r, "assign")
  /\ IF wants[r].symbol \in listed /\ (wants[r].id = Unfiled \/ ForeignKey(wants[r].id, groups))
     THEN /\ shelf' = [shelf EXCEPT ![wants[r].symbol] = wants[r].id]
          /\ Done(r) /\ UNCHANGED <<listed, groups, tags, labels>>
     ELSE Refused(r)

DeleteGroup(r) ==
  /\ Asked(r, "deleteGroup")
  /\ IF wants[r].id \in IdsOf(groups)
     THEN /\ groups' = {g \in groups : g.id # wants[r].id}
          /\ shelf' = [s \in Symbols |-> IF shelf[s] = wants[r].id THEN Unfiled ELSE shelf[s]]
          /\ Done(r) /\ UNCHANGED <<listed, tags, labels>>
     ELSE Refused(r)

(* attach swallows the refusal and answers that all is well.               *)
Attach(r) ==
  /\ Asked(r, "attach")
  /\ IF wants[r].symbol \in listed /\ ForeignKey(wants[r].id, tags)
     THEN /\ labels' = labels \cup {<<wants[r].symbol, wants[r].id>>}
          /\ Done(r) /\ UNCHANGED <<listed, groups, tags, shelf>>
     ELSE Refused(r)

(* The cascades: a tag or a watchlist row takes its labels with it.        *)
DeleteTag(r) ==
  /\ Asked(r, "deleteTag")
  /\ tags' = {t \in tags : t.id # wants[r].id}
  /\ labels' = {l \in labels : l[2] # wants[r].id}
  /\ Done(r) /\ UNCHANGED <<listed, groups, shelf>>

Detach(s, id) ==
  /\ <<s, id>> \in labels
  /\ labels' = labels \ {<<s, id>>}
  /\ UNCHANGED <<listed, groups, tags, shelf, wants>>

(* A new row is unfiled.                                                   *)
Add(s) == s \notin listed /\ listed' = listed \cup {s} /\ UNCHANGED <<groups, tags, shelf, labels, wants>>
Remove(s) ==
  /\ s \in listed
  /\ listed' = listed \ {s}
  /\ shelf' = [shelf EXCEPT ![s] = Unfiled]
  /\ labels' = {l \in labels : l[1] # s}
  /\ UNCHANGED <<groups, tags, wants>>

ShelfNext ==
  \/ \E r \in Requests :
       \/ \E n \in Names : ReadCreateGroup(r, n) \/ ReadCreateTag(r, n)
       \/ \E id \in 1..MaxIds : \/ \E n \in Names : ReadRename(r, id, n) \/ ReadRenameTag(r, id, n)
                                \/ ReadReorder(r, id) \/ ReadDeleteGroup(r, id) \/ ReadDeleteTag(r, id)
                                \/ \E s \in Symbols : ReadAttach(r, s, id)
       \/ \E s \in Symbols, id \in 1..MaxIds \cup {Unfiled} : ReadAssign(r, s, id)
       \/ CreateGroup(r) \/ CreateTag(r) \/ Rename(r) \/ RenameTag(r) \/ Reorder(r) \/ Assign(r) \/ DeleteGroup(r)
       \/ Attach(r) \/ DeleteTag(r)
  \/ \E s \in Symbols : \/ Add(s) \/ Remove(s)
                        \/ \E id \in 1..MaxIds : Detach(s, id)

ShelfSpec == ShelfInit /\ [][ShelfNext]_shelfVars

---------------------------------------------------------------------------
ShelfTypeOK ==
  /\ listed \in SUBSET Symbols
  /\ groups \in SUBSET [id : 1..MaxIds, name : Names, position : Nat]
  /\ tags \in SUBSET [id : 1..MaxIds, name : Names]
  /\ shelf \in [Symbols -> 1..MaxIds \cup {Unfiled}] /\ labels \in SUBSET (Symbols \X (1..MaxIds))
  /\ DOMAIN wants = Requests

(* Whatever requests overlap, no row stands on a shelf or carries a label  *)
(* that is gone, and no two groups or tags share a name; the limit per     *)
(* user is passed by at most the requests that counted together.           *)
NoDanglingShelf ==
  /\ \A s \in listed : shelf[s] # Unfiled => shelf[s] \in IdsOf(groups)
  /\ \A l \in labels : l[1] \in listed /\ l[2] \in IdsOf(tags)
  /\ Cardinality(NamesOf(groups)) = Cardinality(groups) /\ Cardinality(NamesOf(tags)) = Cardinality(tags)
  /\ Cardinality(groups) <= MaxPerUser + Cardinality(Requests) - 1
=============================================================================
