---------------------------- MODULE MCSnapshots ----------------------------
(* Instances of SnapshotStore for TLC.                                     *)
EXTENDS SnapshotStore, TLC

\* Processes are only compared for equality.
Symmetry == Permutations(Fetchers)
=============================================================================
