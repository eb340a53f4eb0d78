------------------------------ MODULE Overview ------------------------------
(***************************************************************************)
(* routes/overview.ts: what a wallet is worth, on one snapshot of its      *)
(* balances (walletBalances.ts) and its positions (Resolve).  The token    *)
(* list (walletPayload.ts), the headline (portfolioSummary.ts) and the     *)
(* position list read that snapshot side by side; the state that is kept   *)
(* for the chart (portfolioSnapshotState.ts) is built from it as well.     *)
(* One wealth can be found in several places: a stake in the owned scan,   *)
(* its adapter and the indexer, a deposit in its row and its receipt coin. *)
(***************************************************************************)
EXTENDS Resolve

CONSTANTS
  Purse,     \* Purse[c]: plain coins of the wallet, in whole units of 1 USD
  Decimals,  \* Decimals[c]: what the chain says of coin c
  Default    \* Default[c]: what is assumed when the chain cannot be asked

VARIABLES
  rows,    \* the balances that are served, or Pending
  tokens,  \* the token list with its values and the receipts it hides, or Pending
  total    \* the headline's two parts, or Pending

mine == <<rows, tokens, total>>
allVars == <<resolveVars, mine>>

Plain == SumFunction(Purse)

HasReceipt(p) == p.receipt # NoPool

ReceiptsOf(ps) == {p.receipt : p \in {q \in ps : HasReceipt(q)}}

\* Balances and decimals are counts, and nothing is owed on a stake or on a
\* deposit that there is a receipt for.  Each deposit of a wallet has a receipt
\* of its own, which is no plain coin.
ASSUME PurseAssumption ==
  /\ IsFiniteSet(DOMAIN Purse) /\ Purse \in [DOMAIN Purse -> Nat]
  /\ \A c \in DOMAIN Purse \cup Coins \cup ReceiptsOf(Held) : Decimals[c] \in Nat /\ Default[c] \in Nat
  /\ \A p \in Held : p.adapter = "staking" \/ HasReceipt(p) => \A c \in DOMAIN p.legs : p.legs[c] >= 0
  /\ DOMAIN Purse \cap ReceiptsOf(Held) = {}
  /\ \A w \in Wallets : \A p, q \in w : HasReceipt(p) /\ p.receipt = q.receipt => p = q

\* getAllBalances: plain coins and receipts of deposits.
InWallet ==
  Spread([c \in ReceiptsOf(wallet) |-> Net((CHOOSE p \in wallet : p.receipt = c).legs)], Purse)

OverviewInit == ResolveInit /\ rows = Pending /\ tokens = Pending /\ total = Pending

-----------------------------------------------------------------------------
\* resolveWalletBalances: any row of the indexer's, in time, and the nodes
\* are not asked.  The table has what moved since the indexer's first
\* checkpoint.  They and the positions are loaded side by side, and neither
\* takes the other with it when it fails (loadWalletSnapshot: allSettled).
Balances ==
  /\ rows = Pending
  /\ \E stored \in SUBSET DOMAIN InWallet, inTime, answered \in BOOLEAN :
       rows' = CASE stored # {} /\ inTime -> Restrict(InWallet, stored)
                 [] ~ (stored # {} /\ inTime) /\ answered -> InWallet
                 [] OTHER -> NoLegs
  /\ calm' = (calm /\ rows' = InWallet)
  /\ UNCHANGED <<wallet, scanned, list, merged, phase, tokens, total>>

\* getCoinMetadata: the coins table, the nodes, else a guess.
Dec(c, known) == IF c \in known THEN Decimals[c] ELSE Default[c]

\* How many of its smallest units a coin has: 10 to the power of its decimals.
Units(decimals) ==
  LET power[i \in 0 .. decimals] == IF i = 0 THEN 1 ELSE 10 * power[i - 1]
  IN power[decimals]

\* Faulty: the assumed decimals, whatever the chain says.
UsdDefault(c, n, known) == (n * Units(Decimals[c])) \div Units(Default[c])

\* toFloat and the price.  Less than a unit is dust.
Usd(c, n, known) == (n * Units(Decimals[c])) \div Units(Dec(c, known))

\* A coin counts if it has a price, at Pyth's or on the market.
UsdOf(balances, priced, known) ==
  [c \in DOMAIN balances \cap priced |-> Usd(c, balances[c], known)]

TokensUsd(balances, priced, known) == SumFunction(UsdOf(balances, priced, known))

\* buildWalletPayload hides the receipts the two registries name, if they
\* could be read (getWalletHiddenCoinTypes).
ShowWallet ==
  /\ phase = "answered" /\ rows # Pending /\ tokens = Pending
  /\ \E priced, known \in SUBSET DOMAIN InWallet, registries \in SUBSET {"scoin", "ember"} :
       LET hidden == ReceiptsOf({p \in wallet : p.adapter \in registries})
       IN /\ tokens' = [list |-> UsdOf(Restrict(rows, DOMAIN rows \ hidden), priced, known),
                        hidden |-> hidden]
          /\ calm' = (calm /\ DOMAIN rows \subseteq priced \cap known
                           /\ hidden = ReceiptsOf(wallet))
  /\ UNCHANGED <<wallet, scanned, list, merged, phase, rows, total>>

\* sumNativeStakingPrincipal, and what the indexer has in its place.
RpcStake ==
  SumFunction([r \in {q \in merged : \E p \in Of(wallet, "staking") : p.id = q.of} |-> Net(r.legs)])

IndexedStake(indexed) == SumFunction([p \in indexed |-> Net(p.legs)])

\* Faulty: the indexer's stake is added to the adapters'.
AddedStakeAlways(indexed, priced) == IF "sui" \in priced THEN IndexedStake(indexed) ELSE 0

AddedStake(indexed, priced) ==
  IF RpcStake = 0 /\ "sui" \in priced THEN IndexedStake(indexed) ELSE 0

\* getPortfolioSummary: all the balances, receipts too, the indexer's stake
\* if no adapter found one, and the positions that have a value.
Summarise ==
  /\ phase = "answered" /\ rows # Pending /\ total = Pending
  /\ \E priced, known \in SUBSET DOMAIN InWallet,
        indexed \in SUBSET Of(wallet, "staking") :
       /\ total' = [tokens |-> TokensUsd(rows, priced, known) + AddedStake(indexed, priced),
                    positions |-> ValueOf(merged)]
       /\ calm' = (calm /\ DOMAIN rows \subseteq priced \cap known)
  /\ UNCHANGED <<wallet, scanned, list, merged, phase, rows, tokens>>

\* All three are awaited; the position list, which replaces merged, is last.
Serve == tokens # Pending /\ total # Pending /\ Payload /\ UNCHANGED mine

Resolving == Collect \/ RetryBlockvision \/ Decode \/ Price \/ Catch

OverviewNext ==
  \/ Balances \/ ShowWallet \/ Summarise \/ Serve
  \/ UNCHANGED mine /\ (OwnedAnswers \/ Resolving)
  \/ UNCHANGED mine /\ \E a \in DOMAIN list : Answer(a) \/ TimeOut(a)
  \/ phase = "paid" /\ UNCHANGED allVars

\* Timers fire, requests end, and what only computes goes on; no adapter is
\* trusted to answer.
Going ==
  \/ UNCHANGED mine /\ (OwnedAnswers \/ Resolving \/ \E a \in DOMAIN list : TimeOut(a))
  \/ Balances \/ ShowWallet \/ Summarise \/ Serve

OverviewFairness == WF_allVars(Going)

OverviewSpec == OverviewInit /\ [][OverviewNext]_allVars /\ OverviewFairness

-----------------------------------------------------------------------------
(* The state kept for the chart: lines of raw amounts per coin.            *)

NaviScale == 2

\* A row's amount of coin c as the chain has it, Navi's in a scale of its own.
Raw(r, c) ==
  LET n == IF r.legs[c] < 0 THEN - r.legs[c] ELSE r.legs[c]
  IN n * Units(IF r.protocol = "Navi" THEN NaviScale ELSE Decimals[c])

\* The scale the row declares for it; Scallop's debts declare none.
From(r, c) ==
  CASE r.protocol = "Navi" -> NaviScale
    [] r.protocol = "Scallop" /\ r.legs[c] < 0 -> Default[c]
    [] OTHER -> Decimals[c]

\* Faulty: a raw amount is taken for one of the coin's own decimals.
RescaleNot(raw, from, to) == raw

\* rescaleRaw
Rescale(raw, from, to) ==
  IF from > to THEN raw \div Units(from - to) ELSE raw * Units(to - from)

\* What the rows say of coin c, owned (sign 1) or owed (sign -1).
FromRows(c, sign) ==
  SumFunction([r \in {q \in merged : c \in DOMAIN q.legs /\ q.legs[c] * sign > 0} |->
                 Rescale(Raw(r, c), From(r, c), Decimals[c])])

\* buildPortfolioSnapshotState with all registries and decimals read.
AssetLine(c) ==
  FromRows(c, 1) +
  (IF c \in DOMAIN rows \ ReceiptsOf(wallet) THEN rows[c] * Units(Decimals[c]) ELSE 0)

DebtLine(c) == FromRows(c, -1)

-----------------------------------------------------------------------------
OverviewTypeOK ==
  /\ ResolveTypeOK
  /\ rows # Pending => DOMAIN rows \subseteq DOMAIN InWallet
  /\ tokens # Pending => DOMAIN tokens.list \subseteq DOMAIN InWallet /\ tokens.hidden \subseteq ReceiptsOf(wallet)
  /\ total # Pending => total.tokens \in Nat /\ total.positions \in Int

AllAssets == SumFunction([p \in wallet |-> AtMost(p)])
AllNet == SumFunction([p \in wallet |-> Net(p.legs)])
AllWorth == SumFunction([p \in wallet |-> Worth(p)])
InReceipts(hidden) ==
  SumFunction([p \in {q \in wallet : HasReceipt(q) /\ q.receipt \notin hidden} |-> Net(p.legs)])

\* Every position has its own rows, no more than one of each key, none of
\* which gives way to one without a value.
Alone == \A p, q \in wallet : ~ SamePool(p, q) /\ ~ Doubled(p) /\ ~ Sunk(p)

\* A guess would make more of a coin than there is.
Inflated == \E c \in DOMAIN InWallet : Default[c] < Decimals[c]

\* The headline counts a stake once, though the owned scan, the adapter and
\* the indexer may all have it, and nothing for more than it is; a deposit
\* counts a second time at most through its receipt coin.
HeadlineOnce ==
  total # Pending /\ ~ Inflated => total.tokens + total.positions <= Plain + AllAssets + InReceipts({})

\* The page adds no deposit's receipt to its row once the registry is read.
ShownOnce ==
  phase = "paid" /\ tokens # Pending /\ ~ Inflated /\ ~ (\E r \in merged : r.value = Holdings) =>
    SumFunction(tokens.list) + AllWorth
      <= Plain + AllAssets + InReceipts(tokens.hidden)

\* Nothing is counted twice on the way to the page: one row per key, and both
\* of the above.
CountedOnce == OverviewTypeOK /\ OneRowPerKey /\ HeadlineOnce /\ ShownOnce

\* When everything is answered, both totals are exact, the headline up to
\* the receipts, which it counts beside the deposits.
TotalsExact ==
  calm /\ phase = "paid" /\ Alone =>
    /\ total.tokens + total.positions = Plain + AllNet + InReceipts({})
    /\ \/ SumFunction(tokens.list) + AllWorth = Plain + AllNet
       \/ \E p \in wallet : Resurrected(p)

\* What a position puts into the chart's state: nothing if its adapter gives
\* a value alone.
Counted(p) ==
  p.adapter \in {"staking", "navi", "scoin", "scallop", "suilend", "ember", "momentum", "cetus", "turbos"}

InUnits(c, sign) ==
  SumFunction([p \in {q \in wallet : Counted(q) /\ c \in DOMAIN q.legs /\ q.legs[c] * sign > 0} |->
                 p.legs[c]])

\* The lines kept for the chart are the wallet's holdings in the decimals of
\* the chain, whatever scale a protocol stores its amounts in; only debts at
\* Scallop in a coin of unusual decimals are off.
SnapshotFaithful ==
  phase = "answered" /\ calm /\ rows # Pending /\ Alone =>
    \A c \in Coins \cup DOMAIN Purse :
      /\ AssetLine(c) = (InUnits(c, 1) + (IF c \in DOMAIN Purse THEN Purse[c] ELSE 0)) * Units(Decimals[c])
      /\ \/ DebtLine(c) = - InUnits(c, -1) * Units(Decimals[c])
         \/ Decimals[c] # Default[c] /\ Of(wallet, "scallop") # {}
=============================================================================
