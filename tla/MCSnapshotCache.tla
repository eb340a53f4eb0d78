-------------------------- MODULE MCSnapshotCache --------------------------
(* A model-checking instance of SnapshotCache: the cfg picks callers and bounds. *)
EXTENDS SnapshotCache

CONSTANTS r1, r2
=============================================================================
