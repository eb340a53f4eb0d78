------------------------------ MODULE Analysis ------------------------------
(***************************************************************************)
(* walletAnalysis.ts: a wallet's profile, made of the three payloads of    *)
(* Overview, any of which may have failed: the net worth, the exposure by  *)
(* class, what is owed and the protocols that may liquidate.  Shares are   *)
(* in tenths of a per cent.  What is computed from these and shown beside  *)
(* them (health factors, leverage, the risk score, the labels) is left     *)
(* out, and so are wordings and the order of the lists.                    *)
(***************************************************************************)
EXTENDS Overview

CONSTANT ClassOf  \* ClassOf[c]: "sui", "stable", "staking" (a liquid one) or "other"

VARIABLE profile  \* the answer, or Pending

analysisVars == <<allVars, profile>>

Classes == {"sui", "staking", "stable", "defi", "other"}

\* A coin is no position.
ASSUME ClassAssumption ==
  \A c \in DOMAIN Purse \cup ReceiptsOf(Held) : ClassOf[c] \in Classes \ {"defi"}

\* pct
Pct(part, whole) == IF whole > 0 THEN (2000 * part + whole) \div (2 * whole) ELSE 0

-----------------------------------------------------------------------------
UsdIn(r) == IF r.value = Null THEN 0 ELSE r.value
SumUsd(rs) == SumFunction([r \in rs |-> UsdIn(r)])
Gains(rs) == {r \in rs : UsdIn(r) > 0}
Debts(rs) == {r \in rs : UsdIn(r) < 0}

Staked(rs) == {r \in rs : r.cat = "staking"}
Lent(rs) == {r \in rs : r.cat \in {"lending", "cdp"}}

\* Faulty: a stake is counted with the other positions too.
BucketsTwice(coins, rs) ==
  [c \in Classes |->
     SumFunction(Restrict(coins, {t \in DOMAIN coins : ClassOf[t] = c}))
     + (CASE c = "staking" -> SumUsd(Gains(Staked(rs)))
          [] c = "defi" -> SumUsd(Gains(rs))
          [] OTHER -> 0)]

\* Exposure, by class: only what is worth something.
Buckets(coins, rs) ==
  [c \in Classes |->
     SumFunction(Restrict(coins, {t \in DOMAIN coins : ClassOf[t] = c}))
     + (CASE c = "staking" -> SumUsd(Gains(Staked(rs)))
          [] c = "defi" -> SumUsd(Gains(rs \ Staked(rs)))
          [] OTHER -> 0)]

\* Faulty: a protocol's rows are netted before its debts are looked for.
LendsNetted(rs) ==
  {[protocol |-> q,
    coll |-> Max({0, SumUsd({r \in Lent(rs) : r.protocol = q})}),
    borrow |-> - Min({0, SumUsd({r \in Lent(rs) : r.protocol = q})})] :
     q \in {r.protocol : r \in Lent(rs)}}

\* byProtoLend: collateral and debts of each protocol.
Lends(rs) ==
  {[protocol |-> q,
    coll |-> SumUsd(Gains({r \in Lent(rs) : r.protocol = q})),
    borrow |-> - SumUsd(Debts({r \in Lent(rs) : r.protocol = q}))] :
     q \in {r.protocol : r \in Lent(rs)}}

\* lendingHealth: the protocols with a debt and something to liquidate.
HealthOf(lends) == {l \in lends : l.borrow > 0 /\ l.coll > 0}

-----------------------------------------------------------------------------
\* buildWalletAnalysis: a payload that failed counts for an empty one.  The
\* net worth is the headline's unless that is 0.
Profile(failed) ==
  LET coins == IF "wallet" \in failed THEN NoLegs ELSE tokens.list
      rs == IF "positions" \in failed THEN {} ELSE merged
      headline == IF "portfolio" \in failed THEN 0 ELSE total.tokens + total.positions
      buckets == Buckets(coins, rs)
      whole == SumFunction(buckets)
      share == [c \in Classes |-> Pct(buckets[c], whole)]
      worth == IF headline = 0 THEN whole ELSE headline
  IN [failed |-> failed, worth |-> worth, whole |-> whole, share |-> share,
      health |-> HealthOf(Lends(rs)), borrow |-> - SumUsd(Debts(rs \ Staked(rs)))]

Analyse ==
  /\ phase = "paid" /\ profile = Pending
  /\ \E failed \in SUBSET {"wallet", "portfolio", "positions"} : profile' = Profile(failed)
  /\ UNCHANGED allVars

AnalysisInit == OverviewInit /\ profile = Pending

AnalysisNext == Analyse \/ (OverviewNext /\ UNCHANGED profile)

AnalysisSpec == AnalysisInit /\ [][AnalysisNext]_analysisVars /\ OverviewFairness

-----------------------------------------------------------------------------
Profiled == profile # Pending
Whole == Profiled /\ "positions" \notin profile.failed /\ calm /\ Alone

\* These give a debt a row of its own, the others one net value.
Itemised(p) == p.adapter \in {"navi", "scoin", "scallop", "suilend"}

Lender(p) == p.cat \in {"lending", "cdp"}
Owed(p) == Assets(p.legs) - Net(p.legs)

\* What a profile sees of a position's debts and collateral.
SeenDebt(p) == IF Itemised(p) THEN Owed(p) ELSE IF Net(p.legs) < 0 THEN - Net(p.legs) ELSE 0
SeenCollateral(p) == IF Itemised(p) THEN Assets(p.legs) ELSE IF Net(p.legs) > 0 THEN Net(p.legs) ELSE 0

Loans(q) == {p \in wallet : Lender(p) /\ p.protocol = q}

\* If everything was read, the debts shown are those that have a row, and of
\* a position that is shown net what it lacks; each protocol's health is that
\* of its loans, and no protocol has one that nothing is owed to.
LoansSeen ==
  Whole =>
    /\ profile.borrow = SumFunction([p \in {o \in wallet : o.cat # "staking"} |-> SeenDebt(p)])
    /\ \A q \in {p.protocol : p \in {o \in wallet : Lender(o)}} :
         LET coll == SumFunction([p \in Loans(q) |-> SeenCollateral(p)])
             debt == SumFunction([p \in Loans(q) |-> SeenDebt(p)])
             seen == {h \in profile.health : h.protocol = q}
         IN IF coll > 0 /\ debt > 0
              THEN \E h \in seen : h.coll = coll /\ h.borrow = debt
              ELSE seen = {}

\* However much of it failed, a profile shows no more than there is, unless
\* the holdings stand in for an LP: what is shared out is the wallet's, and
\* so is the net worth, which may count a deposit beside its receipt.
NothingInvented ==
  Profiled /\ ~ Inflated /\ ~ (\E r \in merged : r.value = Holdings) =>
    /\ profile.whole <= Plain + AllAssets + InReceipts(tokens.hidden)
    /\ profile.worth <= Plain + AllAssets + InReceipts({})

\* The shares are those of one whole, up to their rounding.
SharesAddUp ==
  Profiled /\ profile.whole > 0 => SumFunction(profile.share) \in 998..1002

\* A profile never shows more than there is, and its shares are those of it.
AnalysisHonest == NothingInvented /\ SharesAddUp

\* What is read in full is shown in full: both totals, and every loan.
ReadInFull == TotalsExact /\ LoansSeen
=============================================================================
