------------------------------ MODULE TradeTape ------------------------------
(***************************************************************************)
(* The launch-time trade tape of src/src/live/feature60.py.                *)
(*                                                                         *)
(* A chain transaction is identified by its signature.  What the features  *)
(* need from it is its mint and the chain second it landed in; amounts,    *)
(* wallets and prices are abstracted away.  The creation of a mint is a    *)
(* transaction too: it carries a trade event exactly when the creator      *)
(* bought in the same transaction (a non-zero solAmount and initialBuy in  *)
(* the launch payload).                                                    *)
(*                                                                         *)
(* Times are in ticks.  TicksPerSecond says how many ticks a chain second  *)
(* has: the observer's clock reads milliseconds, chain times are whole     *)
(* seconds.                                                                *)
(***************************************************************************)
EXTENDS Integers, FiniteSets

CONSTANTS
    Mints,           \* the launched tokens
    Txs,             \* signatures of the transactions that can land
    MintOf,          \* the mint a transaction trades (or creates)
    CreateTx,        \* the creation transaction of each mint
    DevBuys,         \* the mints whose creation includes the creator's buy
    TicksPerSecond,  \* resolution of the observer's clock
    Age              \* decision_age_s, in ticks

ASSUME TapeAssumption ==
    /\ MintOf \in [Txs -> Mints]
    /\ CreateTx \in [Mints -> Txs]
    /\ \A m \in Mints : MintOf[CreateTx[m]] = m
    /\ DevBuys \subseteq Mints
    /\ TicksPerSecond \in Nat \ {0}
    /\ Age \in Nat

TxsOf(m) == {t \in Txs : MintOf[t] = m}

IsCreate(t) == t = CreateTx[MintOf[t]]

(* Transactions whose logs decode to a TradeEvent. *)
TradeTxs == {t \in Txs : IsCreate(t) => MintOf[t] \in DevBuys}

(* Block times and event timestamps are whole seconds. *)
ChainSecond(tick) == (tick \div TicksPerSecond) * TicksPerSecond

(* A normalized trade: which transaction, and how long after the anchor. *)
Trades == [sig : Txs, sec : Int]

EventToTrade(t, time, anchor) == [sig |-> t, sec |-> time[t] - anchor]

(* The initial buy as the launch payload tells it, placed at second zero. *)
LaunchInitialTrade(m) == [sig |-> CreateTx[m], sec |-> 0]

(* The synthetic initial buy is added even when the stream delivered it. *)
NormalizeAlwaysSynthetic(m, seen, time, anchor) ==
    {EventToTrade(t, time, anchor) : t \in seen \cap TxsOf(m)}
      \cup {LaunchInitialTrade(x) : x \in {m} \cap DevBuys}

(***************************************************************************)
(* normalize_trades: the events of this mint, re-timed from the anchor,    *)
(* plus the payload's initial buy unless some event carries the launch     *)
(* signature.                                                              *)
(***************************************************************************)
NormalizeTrades(m, seen, time, anchor) ==
    {EventToTrade(t, time, anchor) : t \in seen \cap TxsOf(m)}
      \cup {LaunchInitialTrade(x) : x \in {m} \cap {d \in DevBuys : CreateTx[d] \notin seen}}

(* The rows build_livecore_features computes its counts and sums from. *)
FeatureTrades(tape) == {r \in tape : 0 <= r.sec /\ r.sec <= Age}
=============================================================================
