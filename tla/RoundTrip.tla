-------------------------------- MODULE RoundTrip --------------------------------
(***************************************************************************)
(* A paper position on one curve nobody else trades on: buy quotes are     *)
(* applied to the state one after the other, and what is held is quoted    *)
(* back (src/execution/pump_curve_quote.py).                               *)
(***************************************************************************)
EXTENDS Quotes

CONSTANTS
    Events,      \* trade events a state is taken from
    Budgets,     \* gross amounts of a buy
    MaxSpent     \* bound: gross amounts of all buys

ASSUME RoundTripAssumption ==
    /\ \A ev \in Events :
         /\ ev.fees \in Fees
         /\ {ev.vt, ev.virtualQuote, ev.virtualSol, ev.rt, ev.rq} \subseteq Nat
    /\ Budgets \subseteq Nat
    /\ MaxSpent \in Nat

VARIABLES
    curve, fees,
    spent,     \* gross_quote_in_raw of the buys so far
    swapped,   \* swap_quote_in_raw of the buys so far
    held,      \* tokens_out_raw of the buys so far
    sale,      \* net_quote_out_raw of the last sell quote
    opening    \* history: the curve before the first buy

vars == <<curve, fees, spent, swapped, held, sale, opening>>

Init ==
    /\ \E ev \in Events :
         /\ QuoteState(ev)
         /\ curve = state_from_trade_event(ev)
         /\ fees = EventFees(ev)
    /\ spent = 0 /\ swapped = 0 /\ held = 0 /\ sale = 0
    /\ opening = curve

(* quote_buy_by_gross_quote_raw and apply_buy_to_state *)
Buy(gross) ==
    /\ gross > 1
    /\ spent + gross <= MaxSpent
    /\ LET swap == SwapIn(fees, gross)
       IN  /\ curve' = apply_buy_to_state(curve, swap)
           /\ swapped' = swapped + swap
           /\ held' = held + TokensOut(curve, swap)
    /\ spent' = spent + gross
    /\ UNCHANGED <<fees, sale, opening>>

Sell ==
    /\ held > 0
    /\ sale' = quote_sell_tokens_raw(curve, fees, held)
    /\ UNCHANGED <<curve, fees, spent, swapped, held, opening>>

Next == (\E gross \in Budgets : Buy(gross)) \/ Sell

Spec == Init /\ [][Next]_vars
-----------------------------------------------------------------------------
Curves == [vt : Nat, vq : Nat, rt : Nat, rq : Nat]

TypeOK ==
    /\ curve \in Curves /\ opening \in Curves
    /\ fees \in Fees
    /\ spent \in Nat /\ swapped \in Nat /\ held \in Nat /\ sale \in Nat

(* However the position was built up, buying and selling it back never     *)
(* pays: a sell quote is less than what was spent, and what comes out of   *)
(* the curve was put in, so the real reserves never limit it.              *)
NoFreeMoney ==
    /\ held > 0 => /\ quote_sell_tokens_raw(curve, fees, held) < spent
                   /\ ConstantProductOut(held, curve.vt, curve.vq) <= swapped
    /\ sale <= spent

(* "Buy budgets include fees": the swap and its fees, rounded up one by    *)
(* one, fit into the budget; a third component may cost one unit more.     *)
BudgetCoversFees ==
    [][LET swap == swapped' - swapped
           gross == spent' - spent
       IN  swap + FeeRaw(fees, swap) <= gross + (IF fees.cashback > 0 THEN 1 ELSE 0)]_vars
================================================================================
