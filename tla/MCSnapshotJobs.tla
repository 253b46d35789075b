---------------------------- MODULE MCSnapshotJobs ----------------------------
(* Small instances of SnapshotJobs for TLC. *)
EXTENDS SnapshotJobs, TLC

\* Every ticker priced from the first day on.
AlwaysPriced == [s \in Symbols |-> 1]
=============================================================================
