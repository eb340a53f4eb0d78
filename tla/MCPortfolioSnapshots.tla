------------------------ MODULE MCPortfolioSnapshots ------------------------
(* Model-checking instances of PortfolioSnapshots: the cfgs pick the writers and bounds. *)
EXTENDS PortfolioSnapshots

CONSTANTS a, chart1, chart2, tick1, tick2
=============================================================================
