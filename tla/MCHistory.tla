----------------------------- MODULE MCHistory -----------------------------
(***************************************************************************)
(* A wallet's history: how its snapshots get into the table                *)
(* (PortfolioSnapshots) and what is drawn from them (Chart).  The two      *)
(* share no variable, so that one run takes them one after the other:      *)
(* `part` says which one moves.  A chart starts low with a wallet that     *)
(* owes nothing, or high with one that does; either may change.            *)
(***************************************************************************)
EXTENDS PortfolioSnapshots, Chart

ASSUME PassFits

VARIABLE part

historyVars == <<part, vars, chartVars>>

HistoryInit ==
  /\ part \in {"save", "draw"}
  /\ Init /\ (part # "save" => now = 0)
  /\ ChartInit
  /\ IF part = "draw" THEN (price[0] = Min(Prices)) = (was[0].coins = 1)
                      ELSE price[0] = Min(Prices) /\ was[0].coins = 1

HistoryNext ==
  /\ UNCHANGED part
  /\ \/ part = "save" /\ Next /\ UNCHANGED chartVars
     \/ part = "draw" /\ ChartNext /\ UNCHANGED vars

HistorySpec == HistoryInit /\ [][HistoryNext]_historyVars

\* Charts of hours and of days, a day of two hours, an hour of two steps.
Held == {[coins |-> 1, defi |-> 1], [coins |-> 2, defi |-> -1]}
Shown == {[step |-> 2, span |-> 4], [step |-> 4, span |-> 5]}
=============================================================================
