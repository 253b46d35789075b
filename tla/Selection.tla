------------------------------- MODULE Selection -------------------------------
(* The rows of a table that a query or a filter keeps, in the order they   *)
(* are in: written by their ranks, which the provers can count, where the  *)
(* standard module's SelectSeq is beyond them.                             *)
EXTENDS Integers, Sequences, FiniteSets

(* How many of a set's numbers go up to d, and the number of a rank.       *)
RankIn(S, d) == Cardinality({e \in S : e <= d})
NthOf(S, n) == CHOOSE d \in S : RankIn(S, d) = n

Selected(s, Test(_)) ==
  LET kept == {i \in DOMAIN s : Test(s[i])}
  IN  [k \in 1..Cardinality(kept) |-> s[NthOf(kept, k)]]
=============================================================================
