------------------------------ MODULE MCPriceBars ------------------------------
(* Small instances of PriceBars for TLC. *)
EXTENDS PriceBars, TLC

\* A Friday, a Sunday, and the two sessions of the week after it.
FridayOn == Days \ {2}

Alike == Permutations(Runs)
=============================================================================
