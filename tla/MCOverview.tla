----------------------------- MODULE MCOverview -----------------------------
(* Model-checking instance of Overview: wallets of one or two positions. *)
EXTENDS Analysis

Pos(id, adapter, protocol, cat, legs) ==
  [id |-> id, adapter |-> adapter, protocol |-> protocol, cat |-> cat, legs |-> legs,
   pool |-> NoPool, owned |-> FALSE, wrapped |-> FALSE, bv |-> FALSE,
   receipt |-> NoPool]

Sui(n) == [c \in {"sui"} |-> n]
TwoLegs(n, m) == [c \in {"sui", "usdc"} |-> IF c = "sui" THEN n ELSE m]

stake == [Pos("stake", "staking", "sui-system", "staking", Sui(2)) EXCEPT !.owned = TRUE]
supply == [Pos("supply", "navi", "Navi", "lending", Sui(4)) EXCEPT !.bv = TRUE]
borrow == Pos("borrow", "navi", "Navi", "lending", [c \in {"usdc"} |-> -2])
scoin == [Pos("scoin", "scoin", "Scallop", "lending", Sui(2)) EXCEPT !.receipt = "ssui"]
oblig == [Pos("oblig", "scallop", "Scallop", "lending", TwoLegs(4, -2)) EXCEPT !.owned = TRUE]
netted == [Pos("netted", "scallop", "Scallop", "lending", TwoLegs(4, -2)) EXCEPT !.owned = TRUE, !.bv = TRUE]
cap == [Pos("cap", "suilend", "Suilend", "lending", TwoLegs(4, -2)) EXCEPT !.owned = TRUE]
cap2 == [Pos("cap2", "suilend", "Suilend", "lending", Sui(2)) EXCEPT !.owned = TRUE]
vault == [Pos("vault", "ember", "Ember", "vault", Sui(2)) EXCEPT !.receipt = "ecoin"]
debt == Pos("debt", "scallop", "Scallop", "lending", [c \in {"sui", "rare"} |-> IF c = "sui" THEN 4 ELSE -2])
perp == Pos("perp", "bluefin", "Bluefin", "perp", TwoLegs(2, 2))
cdp == Pos("cdp", "bucket", "Bucket", "cdp", [c \in {"sui", "usdb"} |-> IF c = "sui" THEN 4 ELSE -2])
ticket == Pos("ticket", "haedal", "Haedal", "staking", Sui(2))
alpha == [Pos("alpha", "alphalend", "AlphaFi", "lending", TwoLegs(4, -2)) EXCEPT !.owned = TRUE]
under == [Pos("under", "alphalend", "AlphaFi", "lending", TwoLegs(2, -4)) EXCEPT !.owned = TRUE]
margin == [Pos("margin", "deepbook", "DeepBook", "lending", Sui(2)) EXCEPT !.owned = TRUE]
short == [Pos("short", "deepbook", "DeepBook", "lending", TwoLegs(2, -4)) EXCEPT !.owned = TRUE]
mmt == [Pos("mmt", "momentum", "Momentum", "amm_lp", TwoLegs(2, 2)) EXCEPT !.owned = TRUE, !.pool = "m"]
lp == [Pos("lp", "cetus", "Cetus", "amm_lp", TwoLegs(2, 2)) EXCEPT !.owned = TRUE, !.pool = "c", !.bv = TRUE]
farm == [Pos("farm", "cetus", "Cetus", "amm_lp", TwoLegs(2, 0)) EXCEPT !.owned = TRUE, !.pool = "c", !.wrapped = TRUE, !.bv = TRUE]
closed == [Pos("closed", "cetus", "Cetus", "amm_lp", Sui(0)) EXCEPT !.owned = TRUE, !.pool = "d", !.wrapped = TRUE]
shut == [Pos("shut", "turbos", "Turbos", "amm_lp", TwoLegs(0, 0)) EXCEPT !.owned = TRUE, !.pool = "t"]
nft == [Pos("nft", "turbos", "Turbos", "amm_lp", TwoLegs(2, 2)) EXCEPT !.owned = TRUE, !.pool = "t"]
gone == [Pos("gone", "turbos", "Turbos", "amm_lp", Sui(0)) EXCEPT !.owned = TRUE, !.pool = "u"]

AllHeld ==
  {debt, stake, supply, borrow, scoin, oblig, netted, cap, cap2, vault, perp, cdp, ticket, alpha, under,
   margin, short, mmt, lp, farm, closed, nft, shut, gone}

\* One adapter each, and those whose rows meet in the merge or the filters.
SomeWallets ==
  {{p} : p \in AllHeld} \cup
  {{supply, borrow}, {cap, cap2}, {alpha, oblig}, {mmt, lp}, {lp, farm}, {farm, closed}, {nft, gone}, {nft, shut}, {gone, lp}}

\* A wallet that has only closed positions.
ClosedWallets == {{gone}}

ThePurse == [c \in {"sui", "rare"} |-> IF c = "sui" THEN 3 ELSE 2]
OnChain == [c \in {"sui", "usdc", "usdb", "rare", "ssui", "ecoin"} |-> IF c \in {"usdc", "rare"} THEN 1 ELSE 2]
Assumed == [OnChain EXCEPT !["rare"] = 2]
Kinds == [c \in DOMAIN OnChain |-> CASE c = "sui" -> "sui" [] c \in {"usdc", "usdb"} -> "stable"
                                    [] c = "ssui" -> "staking" [] OTHER -> "other"]
=============================================================================
