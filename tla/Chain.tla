------------------------------- MODULE Chain -------------------------------
(***************************************************************************)
(* The Sui chain as apps/indexer reads it: transactions executed one after *)
(* the other, grouped into checkpoints that are sealed in order.  Only     *)
(* what the handlers look at is kept: which objects a transaction touched, *)
(* what became of each one, and the version the transaction gave them.     *)
(* The chain is external to the repository; this module follows the way    *)
(* handlers.rs uses it.                                                    *)
(***************************************************************************)
EXTENDS Naturals, Sequences

CONSTANTS
  Objects,      \* object ids
  Coins,        \* the objects with obj.is_coin()
  Stakes,       \* the objects with is_staked_sui()
  Owners,       \* wallet addresses
  NotAddress,   \* owned by an object, shared or immutable
  Gone,         \* deleted, wrapped or unwrapped-then-deleted
  Untouched,    \* the transaction does not mention the object
  MaxTx,        \* bound: transactions executed
  MaxCheckpoints \* bound: checkpoints sealed

After == Owners \cup {NotAddress, Gone}

ASSUME ObjectsAssumption ==
  /\ Coins \subseteq Objects /\ Stakes \subseteq Objects
  /\ Coins \cap Stakes = {}

ASSUME AfterAssumption ==
  /\ NotAddress \notin Owners /\ Gone \notin Owners
  /\ NotAddress # Gone /\ Untouched \notin After

ASSUME BoundAssumption == MaxTx \in Nat /\ MaxCheckpoints \in Nat

VARIABLES
  log,    \* log[i]: the i-th transaction [cp, ver, eff]
  sealed  \* number of sealed checkpoints; the open one is sealed + 1

Effects == [Objects -> After \cup {Untouched}]
Tx == [cp : Nat \ {0}, ver : Nat \ {0}, eff : Effects]
TxIds == 1..Len(log)

Touches(i, o) == log[i].eff[o] # Untouched

ChainTypeOK ==
  /\ log \in Seq(Tx)
  /\ sealed \in Nat

ChainInit ==
  /\ log = << >>
  /\ sealed = 0

\* v exceeds the version of every object the effects touch.
Exceeds(eff, v) ==
  \A i \in TxIds : \A o \in Objects :
    eff[o] # Untouched /\ Touches(i, o) => log[i].ver < v

\* A transaction gives every object it touches the smallest such version
\* (Sui's Lamport version).
LamportVersion(eff, v) ==
  /\ Exceeds(eff, v)
  /\ \A u \in 1..(v - 1) : ~ Exceeds(eff, u)

\* One transaction executes into the open checkpoint.
Execute ==
  /\ Len(log) < MaxTx
  /\ \E eff \in Effects, v \in 1..(Len(log) + 1) :
       /\ \E o \in Objects : eff[o] # Untouched
       /\ LamportVersion(eff, v)
       /\ log' = Append(log, [cp |-> sealed + 1, ver |-> v, eff |-> eff])
  /\ UNCHANGED sealed

\* The open checkpoint is closed and becomes visible to the indexer.
Seal ==
  /\ sealed < MaxCheckpoints
  /\ sealed' = sealed + 1
  /\ UNCHANGED log
=============================================================================
