----------------------------- MODULE MCIndexer -----------------------------
(* Model-checking instances of Indexer: the cfgs pick objects, pipelines and bounds. *)
EXTENDS Indexer, TLC

CONSTANTS o1, o2, w1, w2

Symmetry == Permutations(Owners)
=============================================================================
