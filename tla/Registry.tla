------------------------------- MODULE Registry -------------------------------
(***************************************************************************)
(* apps/api/src/lib/protocols.ts: which Move types are DeFi positions, and *)
(* the filters that ask a node for them.  Two tables classify a type, by   *)
(* its full name and by its module and struct; the list of filters is a    *)
(* third table, kept by hand beside them.                                  *)
(***************************************************************************)
EXTENDS Sequences, TLC

\* A Move type pkg::mod::struct<args>; a package id is a name here.
MoveType(pkg, mod, struct, args) ==
  [pkg |-> pkg, mod |-> mod, struct |-> struct, args |-> args]

\* baseType: without its type arguments.
BaseType(t) == [t EXCEPT !.args = <<>>]

Named(pkg, mod, struct) == MoveType(pkg, mod, struct, <<>>)

Categories == {"staking", "liquid_staking", "lending", "amm_lp", "vault",
               "perp", "cdp", "order", "trade"}

Entry(protocol, category) == [protocol |-> protocol, category |-> category]
NoEntry == Entry("none", "none")

CetusClmm  == <<"cetus-clmm", "cetus-clmm-current">>
CetusDlmm  == "cetus-dlmm"
CetusFarms == "cetus-farms"
Turbos     == <<"turbos-published", "turbos-origin">>
Bluefin    == "bluefin-spot"

\* The types listed by name with a filter each (listOwnedObjectFilters) and an
\* exact entry each.
VaultTypes == {
  Named("alphafi", "alphafi_receipt", "AlphaFiReceipt"),
  Named("alphafi-legacy", "alphapool", "Receipt"),
  Named("alphafi-legacy", "alphafi_cetus_pool", "Receipt")}
AlphaLendCap == Named("alphalend", "position", "PositionCap")
UnstakeTickets == {
  Named("haedal", "staking", "UnstakeTicket"),
  Named("haedal-wal", "walstaking", "UnstakeTicket")}
SupplierCap == Named("deepbook-margin", "margin_pool", "SupplierCap")

All(types, entry) == [t \in types |-> entry]

\* REGISTRY_EXACT.
RegistryExact ==
     All({Named(CetusClmm[1], "position", "Position"),
          Named(CetusClmm[2], "position", "Position"),
          Named(CetusDlmm, "position", "Position"),
          Named(CetusFarms, "pool", "WrappedPositionNFT")}, Entry("Cetus", "amm_lp"))
  @@ All({Named(Bluefin, "position", "Position")}, Entry("Bluefin", "amm_lp"))
  @@ All(VaultTypes, Entry("AlphaFi", "vault"))
  @@ All({AlphaLendCap}, Entry("AlphaFi", "lending"))
  @@ All(UnstakeTickets, Entry("Haedal", "staking"))
  @@ All({SupplierCap}, Entry("DeepBook", "lending"))

\* REGISTRY_SUFFIX: by module and struct, whatever the package.
RegistrySuffix ==
     <<"obligation", "ObligationKey">>         :> Entry("Scallop", "lending")
  @@ <<"lending_market", "ObligationOwnerCap">> :> Entry("Suilend", "lending")
  @@ <<"position_nft", "TurbosPositionNFT">>   :> Entry("Turbos", "amm_lp")
  @@ <<"staking_pool", "StakedSui">>           :> Entry("sui-system", "staking")
  @@ <<"position", "Position">>                :> Entry("Cetus", "amm_lp")
  @@ <<"pool", "WrappedPositionNFT">>          :> Entry("Cetus", "amm_lp")
  @@ <<"balance_manager", "BalanceManager">>   :> Entry("DeepBook", "order")

\* classifyType.
ClassifyType(t) ==
  LET base   == BaseType(t)
      suffix == <<base.mod, base.struct>>
  IN IF base \in DOMAIN RegistryExact THEN RegistryExact[base]
     ELSE IF suffix \in DOMAIN RegistrySuffix THEN RegistrySuffix[suffix]
     ELSE NoEntry

\* objectToPosition's refusals: an unknown type, and Scallop's ve_sca key.
IsPosition(t) ==
  /\ <<t.mod, t.struct>> # <<"ve_sca", "VeScaKey">>
  /\ ClassifyType(t) # NoEntry

-----------------------------------------------------------------------------
(* listOwnedObjectFilters.                                                 *)

AnyStruct == "*"

StructFilter(t)       == [pkg |-> t.pkg, mod |-> t.mod, struct |-> t.struct]
ModuleFilter(pkg, mod) == [pkg |-> pkg, mod |-> mod, struct |-> AnyStruct]

\* The filters that ask for a struct and then for its whole module.
Both(t) == <<StructFilter(t), ModuleFilter(t.pkg, t.mod)>>

OwnedObjectFilters ==
     Both(Named("0x3", "staking_pool", "StakedSui"))
  \o Both(Named(CetusClmm[1], "position", "Position"))
  \o Both(Named(CetusClmm[2], "position", "Position"))
  \o Both(Named(CetusDlmm, "position", "Position"))
  \o <<StructFilter(Named(CetusFarms, "pool", "WrappedPositionNFT"))>>
  \o Both(Named(Turbos[1], "position_nft", "TurbosPositionNFT"))
  \o Both(Named(Turbos[2], "position_nft", "TurbosPositionNFT"))
  \o Both(Named(Bluefin, "position", "Position"))
  \o <<StructFilter(Named("alphafi", "alphafi_receipt", "AlphaFiReceipt")),
       StructFilter(Named("alphafi-legacy", "alphapool", "Receipt")),
       StructFilter(Named("alphafi-legacy", "alphafi_cetus_pool", "Receipt")),
       StructFilter(AlphaLendCap),
       StructFilter(Named("haedal", "staking", "UnstakeTicket")),
       StructFilter(Named("haedal-wal", "walstaking", "UnstakeTicket")),
       StructFilter(SupplierCap)>>

\* What a node answers a filter with: a struct filter leaves the arguments open.
Selects(f, t) == f.pkg = t.pkg /\ f.mod = t.mod /\ f.struct \in {t.struct, AnyStruct}

Targeted(t) == \E i \in DOMAIN OwnedObjectFilters : Selects(OwnedObjectFilters[i], t)
=============================================================================
