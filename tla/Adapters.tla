------------------------------ MODULE Adapters ------------------------------
(***************************************************************************)
(* positions/sources: what each adapter makes of a wallet's positions when *)
(* only some of its reads are answered (up) and only some coins have a     *)
(* price (priced, 1 per unit).  A failed read is a null, never an          *)
(* exception, except where an adapter throws, which resolve.ts takes for   *)
(* no rows.  Two units of a coin that bears interest are one of principal. *)
(***************************************************************************)
EXTENDS Integers, FiniteSets, Functions

CONSTANTS
  Held,   \* positions: [id, adapter, protocol, cat, pool, owned, wrapped, bv,
          \* receipt, legs]
  NoPool,
  Null

\* Ids are object ids: a pool's is none of a position's.  Only LPs have a pool,
\* and in it the same coins.  BlockVision has three of the protocols.
ASSUME HeldAssumption ==
  /\ IsFiniteSet(Held)
  /\ \A p \in Held : /\ IsFiniteSet(DOMAIN p.legs) /\ p.legs \in [DOMAIN p.legs -> Int]
                     /\ p.pool # NoPool => p.cat = "amm_lp" /\ p.adapter \in {"cetus", "turbos", "momentum"}
                     /\ p.bv => p.adapter \in {"cetus", "navi", "scallop"}
  /\ \A p, q \in Held : /\ p.id = q.id => p = q
                        /\ p.pool # q.id
                        /\ p.pool = q.pool /\ p.pool # NoPool => DOMAIN p.legs = DOMAIN q.legs

Net(legs) == SumFunction(legs)
Assets(legs) == SumFunction(Restrict(legs, {c \in DOMAIN legs : legs[c] > 0}))
NoLegs == [c \in {} |-> 0]
Coins == UNION {DOMAIN p.legs : p \in Held}

\* The reads an adapter makes: its list, each position, each coin's market.
List(a) == <<a, "list">>
Read(p) == <<p.id, "object">>
Market(c) == <<c, "market">>

PricedLegs(legs, priced) == Restrict(legs, DOMAIN legs \cap priced)

\* valueUsd as an adapter sets it that wants every coin priced.
AllPriced(legs, priced) == IF DOMAIN legs \subseteq priced THEN Net(legs) ELSE Null

\* A row: of tells what position it is about, legs what its details hold for
\* the valuation that comes later.
Row(p, key, source, legs, value) ==
  [of |-> p.id, key |-> key, source |-> source, legs |-> legs, value |-> value,
   protocol |-> p.protocol, cat |-> p.cat]

PoolKey(p) == IF p.pool = NoPool THEN <<p.id>> ELSE <<p.pool>>

Of(wallet, a) == {p \in wallet : p.adapter = a}
Listed(wallet, a, up) == {p \in Of(wallet, a) : List(a) \in up}
Found(wallet, a, up) == {p \in Listed(wallet, a, up) : Read(p) \in up}

\* Without its index a balance is counted at its principal.
Accrued(legs, up) ==
  [c \in DOMAIN legs |-> IF Market(c) \in up THEN legs[c] ELSE legs[c] \div 2]

One(legs, c) == Restrict(legs, {c})

-----------------------------------------------------------------------------
StakingRows(wallet, up) ==
  {Row(p, <<p.id>>, "native", p.legs, Null) : p \in Listed(wallet, "staking", up)}

\* The user's asset ids first; a balance that cannot be read is 0 and gives
\* no row.
NaviRows(wallet, up) ==
  {Row(p, <<p.id>>, "native", Accrued(p.legs, up), Null) : p \in Found(wallet, "navi", up)}

\* Wallet balances and exchange rates in parallel; without a rate 1:1.
ScoinRows(wallet, up) ==
  {Row(p, <<p.id>>, "native", Accrued(p.legs, up), Null) : p \in Listed(wallet, "scoin", up)}

\* An obligation, which is not the object that the wallet holds its key in: a
\* row per collateral, one for all debts.
ScallopRows(wallet, up) ==
  UNION {
    LET debts == {c \in DOMAIN p.legs : p.legs[c] < 0}
    IN {Row(p, <<p.id, c>>, "native", One(p.legs, c), Null) : c \in DOMAIN p.legs \ debts}
       \cup {Row(p, <<p.id, "debts">>, "native", Restrict(p.legs, debts), Null) : d \in debts}
    : p \in Found(wallet, "scallop", up)}

\* An obligation: a row per deposit, at the reserve's ratio, and per borrow.
SuilendRows(wallet, up) ==
  UNION {
    {Row(p, <<p.id, c>>, "native",
         IF p.legs[c] > 0 THEN Accrued(One(p.legs, c), up) ELSE One(p.legs, c), Null) :
       c \in DOMAIN p.legs}
    : p \in Found(wallet, "suilend", up)}

\* The account API, valued by it, else receipt tokens at the registry's rate.
EmberRows(wallet, up) ==
  LET fromApi == {Row(p, <<p.id>>, "native", p.legs, Net(p.legs)) : p \in Found(wallet, "ember", up)}
      receipts == {Row(p, <<p.id>>, "native", p.legs, Null) : p \in Listed(wallet, "ember", up)}
  IN IF fromApi # {} THEN fromApi ELSE receipts

\* One read of the account; its assets count together or not at all.
BluefinRows(wallet, up, priced) ==
  {Row(p, <<p.id>>, "native", NoLegs, AllPriced(p.legs, priced)) : p \in Listed(wallet, "bluefin", up)}

\* Faulty: a vault that cannot be read is skipped, and its price taken for 0.
BucketRowsPartial(wallet, up, priced) ==
  {Row(p, <<p.id>>, "native", NoLegs, Assets(p.legs)) : p \in Found(wallet, "bucket", up)}

\* All vaults or none; USDB debts need no price.
BucketRows(wallet, up, priced) ==
  IF \A p \in Of(wallet, "bucket") : \A c \in DOMAIN p.legs : Market(c) \in up
    THEN {Row(p, <<p.id>>, "native", NoLegs, AllPriced(p.legs, priced \cup {"usdb"})) :
            p \in Found(wallet, "bucket", up)}
    ELSE {}

HaedalRows(wallet, up, priced) ==
  {Row(p, <<p.id>>, "native", NoLegs, AllPriced(p.legs, priced)) : p \in Found(wallet, "haedal", up)}

\* Legs whose market or price is missing are left out of a value that is
\* never null.
AlphaLendRows(wallet, up, priced) ==
  {Row(p, <<p.id>>, "native", NoLegs,
       Net(PricedLegs(p.legs, {c \in priced : Market(c) \in up}))) :
     p \in Found(wallet, "alphalend", up)}

\* Pools that could not be read are skipped; a probe that fails twice throws.
DeepbookRows(wallet, up, priced) ==
  LET probed == {p \in Listed(wallet, "deepbook", up) : \A c \in DOMAIN p.legs : Market(c) \in up}
  IN IF \A p \in probed : Read(p) \in up
       THEN {Row(p, <<p.id, "pool">>, "native", NoLegs, AllPriced(p.legs, priced)) : p \in probed}
       ELSE {}

\* The pool must be read; either price will do.
MomentumRows(wallet, up, priced) ==
  {Row(p, PoolKey(p), "native", p.legs,
       LET known == PricedLegs(p.legs, priced)
       IN IF DOMAIN known = {} THEN Null ELSE Net(known)) :
     p \in Found(wallet, "momentum", up)}

\* BlockVision nets an obligation in one row, with the obligation's id.
EnvelopeKey(p) ==
  CASE p.adapter = "cetus" -> PoolKey(p)
    [] p.adapter = "scallop" -> <<p.id, "debts">>
    [] OTHER -> <<p.id>>

\* BlockVision: one envelope, valued by itself where it can.
BlockvisionRows(wallet, up, priced) ==
  {Row(p, EnvelopeKey(p), "blockvision", p.legs, AllPriced(p.legs, priced)) :
     p \in {q \in wallet : q.bv /\ List("blockvision") \in up}}

RowsOf(a, wallet, up, priced) ==
  CASE a = "staking" -> StakingRows(wallet, up)
    [] a = "navi" -> NaviRows(wallet, up)
    [] a = "scoin" -> ScoinRows(wallet, up)
    [] a = "scallop" -> ScallopRows(wallet, up)
    [] a = "suilend" -> SuilendRows(wallet, up)
    [] a = "ember" -> EmberRows(wallet, up)
    [] a = "bluefin" -> BluefinRows(wallet, up, priced)
    [] a = "bucket" -> BucketRows(wallet, up, priced)
    [] a = "haedal" -> HaedalRows(wallet, up, priced)
    [] a = "alphalend" -> AlphaLendRows(wallet, up, priced)
    [] a = "deepbook" -> DeepbookRows(wallet, up, priced)
    [] a = "momentum" -> MomentumRows(wallet, up, priced)
    [] a = "blockvision" -> BlockvisionRows(wallet, up, priced)
    [] OTHER -> {}

ReadsOf(a, wallet) ==
  {List(a)} \cup {Read(p) : p \in Of(wallet, a)}
            \cup {Market(c) : c \in UNION {DOMAIN p.legs : p \in Of(wallet, a)}}

-----------------------------------------------------------------------------
\* The owned scan: a row per owned object of a known type, without amounts
\* except for a stake.  A wrapped position does not name its pool.
OwnedRows(wallet) ==
  {Row(p, IF p.wrapped THEN <<p.id>> ELSE PoolKey(p), "rpc",
       IF p.adapter = "staking" THEN p.legs ELSE NoLegs, Null) :
     p \in {q \in wallet : q.owned}}

\* What can be decoded if the position and its pool are read: at Cetus any
\* position, at Turbos, behind its NFT, one with liquidity.
CetusDecodable(wallet) == Of(wallet, "cetus")
TurbosDecodable(wallet) == {p \in Of(wallet, "turbos") : Net(p.legs) # 0}

\* What enrichCetusNativePositions and enrichTurbosNativePositions make of a
\* row that still lacks its balances.  One that cannot be decoded stays.
Decoded(row, wallet, up) ==
  LET decodable == {p \in CetusDecodable(wallet) \cup TurbosDecodable(wallet) :
                      p.id = row.of /\ Read(p) \in up}
  IN IF row.cat = "amm_lp" /\ row.legs = NoLegs /\ decodable # {}
       THEN LET p == CHOOSE q \in decodable : TRUE
            IN Row(p, PoolKey(p), "native", p.legs,
                   IF Net(p.legs) = 0 THEN 0 ELSE Null)
       ELSE row

\* enrichPositionsWithPrices: a value is computed if at least one coin of the
\* details has a price, else the row keeps what it has.
Valued(row, priced) ==
  LET known == PricedLegs(row.legs, priced)
  IN IF DOMAIN known = {} THEN row ELSE [row EXCEPT !.value = Net(known)]
=============================================================================
