---------------------------- MODULE MCSchwabSession ----------------------------
(* Small instances of SchwabSession for TLC. *)
EXTENDS SchwabSession, TLC

\* The probes of POST /broker/schwab/test differ in name only.
ProbesAlike == Permutations(Callers \ {Job})
=============================================================================
