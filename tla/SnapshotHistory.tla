-------------------------- MODULE SnapshotHistory --------------------------
(***************************************************************************)
(* What the snapshot store promises to whoever reads it: the published     *)
(* snapshot is replaced as a whole, by other content that does not end     *)
(* earlier and that was not retrieved earlier                              *)
(* (src/docs/INGESTION_RESILIENCE.md:16, src/docs/OPERATING_STATE.md:48).  *)
(*                                                                         *)
(* The content of a CSV is abstracted to the last day it covers and to     *)
(* which of the files with that last day it is; two contents are equal     *)
(* exactly when their SHA-256 is.                                          *)
(***************************************************************************)
EXTENDS Naturals

CONSTANTS
    Days,        \* values of temporal_range_end
    Revisions,   \* files that end on the same day
    Times,       \* instants, in the seconds a snapshot id is made of
    None         \* nothing is published

ASSUME DaysAssumption == Days \subseteq Nat
ASSUME TimesAssumption == Times \subseteq Nat

VARIABLE current    \* the published snapshot

Content == [end: Days, rev: Revisions]
Snapshot == [content: Content, at: Times]

Empty == current = None

\* s may replace the published snapshot.
Follows(s) ==
    current # None =>
        /\ s.content.end >= current.content.end
        /\ s.content # current.content
        /\ s.at >= current.at

Publish ==
    /\ current' \in Snapshot
    /\ Follows(current')

History == Empty /\ [][Publish]_current
=============================================================================
