--------------------------- MODULE MCActivityFeed ---------------------------
(* Model-checking instances of ActivityFeed: the cfgs give Limit and the bounds. *)
EXTENDS ActivityFeed
=============================================================================
