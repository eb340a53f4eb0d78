----------------------------- MODULE MCDiscovery -----------------------------
(***************************************************************************)
(* Which positions a wallet owns, and what is made of them.  The discovery *)
(* is instantiated over the registry's own types: a farmed LP, a coin, a   *)
(* stake, and a Scallop key, for which no filter asks.  The two share no   *)
(* variable (the resolution starts from any part of the positions), so     *)
(* that one run takes them one after the other: `part` says which moves.   *)
(***************************************************************************)
EXTENDS Discovery, Registry, MCOverview

VARIABLE part

positionVars == <<part, vars, analysisVars>>

CONSTANTS c1, c2

Wallet == <<
  Named(CetusFarms, "pool", "WrappedPositionNFT"),
  MoveType("0x2", "coin", "Coin", <<"SUI">>),
  Named("0x3", "staking_pool", "StakedSui"),
  Named("scallop", "obligation", "ObligationKey")>>

\* The filters that select something of the wallet.
AskedFor == SelectSeq(OwnedObjectFilters,
                      LAMBDA f : \E o \in DOMAIN Wallet : Selects(f, Wallet[o]))

MCPositions == {o \in DOMAIN Wallet : IsPosition(Wallet[o])}
MCFilters == Len(AskedFor)
MCFilterOf == [o \in DOMAIN Wallet |-> {f \in DOMAIN AskedFor : Selects(AskedFor[f], Wallet[o])}]

(* The three tables agree: what the exact table lists is asked for, and so   *)
(* is nothing that would be refused; a package listed by name is that        *)
(* protocol's although another's suffix fits it.                             *)
ASSUME TablesAgree ==
  /\ \A t \in DOMAIN RegistryExact : Targeted(t)
  /\ \A i \in DOMAIN OwnedObjectFilters :
       LET f == OwnedObjectFilters[i]
       IN f.struct # AnyStruct => IsPosition(Named(f.pkg, f.mod, f.struct))
  /\ \A t \in DOMAIN RegistryExact : RegistryExact[t].category \in Categories
  /\ ClassifyType(Named(Bluefin, "position", "Position")).protocol = "Bluefin"
  /\ MCPositions = {1, 3, 4} /\ MCFilterOf[4] = {}

-----------------------------------------------------------------------------
PositionsInit ==
  /\ part \in {"discovery", "overview"}
  /\ Init /\ (part # "discovery" => owned = {})
  /\ AnalysisInit /\ (part # "overview" => wallet = {stake})

Discovering(step) == part = "discovery" /\ step /\ UNCHANGED <<part, analysisVars>>
Overviewing(step) == part = "overview" /\ step /\ UNCHANGED <<part, vars>>

Discovers == Discovering(Next)
Overviews == Overviewing(AnalysisNext)

\* A discovery comes to an end for good when the bounds are used up.
Stopped == Discovering(stage = "idle" /\ runs = MaxRuns /\ UNCHANGED vars)

\* Fairness as in FairSpec and OverviewFairness.
PositionsSpec ==
  /\ PositionsInit /\ [][Discovers \/ Overviews \/ Stopped]_positionVars
  /\ WF_<<vars, allVars>>(Discovering(Answered) \/ Overviewing(Going))

\* Every request is answered, with something or with nothing.
Served == part = "overview" ~> phase = "paid"
=============================================================================
