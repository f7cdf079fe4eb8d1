--------------------------------- MODULE Quotes ---------------------------------
(***************************************************************************)
(* The integer quote arithmetic of src/execution/pump_curve_quote.py and   *)
(* pumpswap_quote.py.  A curve is a record of its virtual and real         *)
(* reserves of tokens (vt, rt) and of quote (vq, rq); fees are basis       *)
(* points per component.  Prices, floats in the code, stay fractions.      *)
(***************************************************************************)
EXTENDS Integers

CONSTANTS
    BPS,                \* basis points in a whole
    DocumentedFees,     \* CURRENT_PROTOCOL_FEE_BPS and CURRENT_CREATOR_FEE_BPS
    SolMints            \* None, SYSTEM_PROGRAM and WSOL_MINT

Fees == [protocol : Nat, creator : Nat, cashback : Nat]

ASSUME QuotesAssumption ==
    /\ BPS \in Nat \ {0}
    /\ DocumentedFees \in Fees
    /\ DocumentedFees.protocol > 0

AtMost(a, b) == IF a <= b THEN a ELSE b

AtLeastZero(a) == IF a >= 0 THEN a ELSE 0

ceil_div(a, b) == (a + b - 1) \div b

Fee(raw, bps) == IF raw > 0 /\ bps > 0 THEN ceil_div(raw * bps, BPS) ELSE 0

total_fee_bps(fees) == fees.protocol + fees.creator + fees.cashback

(* The user-level fees of a swap, each component rounded up. *)
FeeRaw(fees, raw) ==
    Fee(raw, fees.protocol) + Fee(raw, fees.creator) + Fee(raw, fees.cashback)

-----------------------------------------------------------------------------
(* A trade event reports the reserves after the trade.  No quote for       *)
(* another mint or empty reserves; the new quote field wins over the SOL   *)
(* one unless it is zero.                                                  *)
QuoteReserve(ev) == IF ev.virtualQuote # 0 THEN ev.virtualQuote ELSE ev.virtualSol

QuoteState(ev) == ev.mint \in SolMints /\ QuoteReserve(ev) > 0 /\ ev.vt > 0

state_from_trade_event(ev) ==
    [vt |-> ev.vt, vq |-> QuoteReserve(ev),
     rt |-> AtLeastZero(ev.rt), rq |-> AtLeastZero(ev.rq)]

(* Zeroed fee fields are not a zero-fee market. *)
EventFees(ev) == IF total_fee_bps(ev.fees) = 0 THEN DocumentedFees ELSE ev.fees

-----------------------------------------------------------------------------
(* Budgets of a buy include the fees and one unit for rounding. *)
NoRoundingUnit(fees, gross) == (gross * BPS) \div (BPS + total_fee_bps(fees))

SwapIn(fees, gross) == ((gross - 1) * BPS) \div (BPS + total_fee_bps(fees))

TheoreticalTokens(c, swap) == (swap * c.vt) \div (c.vq + swap)

TokensOut(c, swap) == AtMost(TheoreticalTokens(c, swap), c.rt)

apply_buy_to_state(c, swap) ==
    [vt |-> c.vt - TokensOut(c, swap), vq |-> c.vq + swap,
     rt |-> c.rt - TokensOut(c, swap), rq |-> c.rq + swap]

-----------------------------------------------------------------------------
(* What the tokens are worth at the spot price. *)
AtSpot(tokens, base, quote) == (tokens * quote) \div base

(* What it takes to draw the tokens, not what they bring. *)
ExactOut(tokens, base, quote) == (tokens * quote) \div (base - tokens)

ConstantProductOut(tokens, base, quote) == (tokens * quote) \div (base + tokens)

(* Capped by the real reserves, the fees off. *)
GrossOut(c, tokens) == AtMost(ConstantProductOut(tokens, c.vt, c.vq), c.rq)

NetOut(fees, raw) == raw - AtMost(raw, FeeRaw(fees, raw))

quote_sell_tokens_raw(c, fees, tokens) == NetOut(fees, GrossOut(c, tokens))

(* A pool prices against its real vault and a virtual reserve. *)
is_sol_quote(pool) == pool.quote_mint = "wsol"

EffectiveQuote(p) == p.real + p.virtual

PoolQuotes(p) == p.base > 0 /\ EffectiveQuote(p) > 0

quote_sell_base_raw(p, fees, tokens) ==
    LET raw == AtMost(ConstantProductOut(tokens, p.base, EffectiveQuote(p)), p.real)
    IN  raw - AtMost(raw, Fee(raw, fees.lp) + FeeRaw(fees, raw))
================================================================================
