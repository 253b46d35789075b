---------------------------- MODULE MCPostureStreak ----------------------------
(* Small instances of PostureStreak for TLC. *)
EXTENDS PostureStreak, TLC

\* A Friday, a weekend, and the week after it.
FridayOn == Days \ {2, 3}

Alike == Permutations(Updates) \cup Permutations(Postures)
=============================================================================
