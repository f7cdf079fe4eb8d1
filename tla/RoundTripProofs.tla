----------------------------- MODULE RoundTripProofs -----------------------------
(***************************************************************************)
(* A round trip never pays, whatever the reserves, the fees and the        *)
(* budgets.  The product of the virtual reserves never falls below that of *)
(* the opening curve, and the tokens held are those missing from it.       *)
(***************************************************************************)
EXTENDS RoundTrip, TLAPS

LEMMA DivFloor ==
    ASSUME NEW a \in Nat, NEW b \in Nat \ {0}
    PROVE  a \div b \in Nat /\ (a \div b) * b <= a
  BY SMT

LEMMA DivOfSmaller ==
    ASSUME NEW a \in Nat, NEW b \in Nat \ {0}, NEW q \in Nat, a <= q * b
    PROVE  a \div b <= q
  BY SMT

LEMMA CeilAtLeast ==
    ASSUME NEW a \in Nat, NEW b \in Nat \ {0}
    PROVE  ceil_div(a, b) \in Nat /\ a <= ceil_div(a, b) * b /\ ceil_div(a, b) * b <= a + b - 1
  BY SMT DEF ceil_div
-----------------------------------------------------------------------------
(* The parts of a quote. *)

LEMMA SwapBelowBudget ==
    ASSUME NEW f \in Fees, NEW g \in Nat, g > 1
    PROVE  /\ SwapIn(f, g) \in Nat
           /\ SwapIn(f, g) * (BPS + total_fee_bps(f)) <= (g - 1) * BPS
           /\ SwapIn(f, g) <= g - 1
<1> DEFINE B == total_fee_bps(f)
<1>1. BPS \in Nat \ {0} /\ B \in Nat
  BY QuotesAssumption DEF total_fee_bps, Fees
<1> HIDE DEF B
<1>2. BPS + B \in Nat \ {0} /\ (g - 1) * BPS \in Nat /\ (g - 1) * BPS <= (g - 1) * (BPS + B)
  BY <1>1
<1>3. ((g - 1) * BPS) \div (BPS + B) <= g - 1
  BY <1>2, DivOfSmaller, g - 1 \in Nat
<1> QED
  BY <1>2, <1>3, DivFloor DEF SwapIn, B

LEMMA BuyKeepsProduct ==
    ASSUME NEW c \in Curves, c.vt > 0, c.vq > 0, NEW s \in Nat
    PROVE  /\ TokensOut(c, s) \in 0..c.rt
           /\ TokensOut(c, s) < c.vt
           /\ c.vt * c.vq <= (c.vt - TokensOut(c, s)) * (c.vq + s)
<1> DEFINE v == c.vt
           q == c.vq
           r == c.rt
           d == (s * v) \div (q + s)
           t == TokensOut(c, s)
<1>1. v \in Nat /\ q \in Nat /\ r \in Nat /\ v > 0 /\ q > 0
  BY DEF Curves
<1>2. t \in Nat /\ t <= d /\ t <= r /\ d \in Nat /\ d * (q + s) <= s * v
  <2>1. s * v \in Nat /\ q + s \in Nat \ {0}
    BY <1>1
  <2>2. d \in Nat /\ d * (q + s) <= s * v
    BY <2>1, DivFloor
  <2> HIDE DEF d
  <2>3. t = AtMost(d, r)
    BY DEF TokensOut, TheoreticalTokens, d, t, v, q, r
  <2> HIDE DEF t
  <2> QED
    BY <1>1, <2>2, <2>3 DEF AtMost
<1> HIDE DEF d, t, v, q, r
<1>3. t * (q + s) <= s * v
  <2>1. t * (q + s) <= d * (q + s)
    BY <1>1, <1>2
  <2> QED
    BY <1>1, <1>2, <2>1
<1>4. t < v
  <2>1. SUFFICES ASSUME v <= t PROVE FALSE
    BY <1>1, <1>2
  <2>2. v * (q + s) <= t * (q + s)
    BY <1>1, <1>2, <2>1
  <2>3. v * (q + s) = v * q + s * v /\ v * q > 0
    BY <1>1
  <2> QED
    BY <1>1, <1>2, <1>3, <2>2, <2>3
<1>5. v * q <= (v - t) * (q + s)
  <2>1. (v - t) * (q + s) = v * q + s * v - t * (q + s)
    BY <1>1, <1>2
  <2> QED
    BY <1>1, <1>2, <1>3, <2>1
<1> QED
  BY <1>1, <1>2, <1>4, <1>5 DEF t, v, q, r

LEMMA SellOfAll ==
    ASSUME NEW v \in Nat, NEW q \in Nat, NEW h \in Nat, NEW s \in Nat,
           NEW q0 \in Nat, v > 0, q = q0 + s, (v + h) * q0 <= v * q
    PROVE  ConstantProductOut(h, v, q) \in Nat /\ ConstantProductOut(h, v, q) <= s
<1>1. h * q <= s * (v + h)
  <2>1. (v + h) * q = v * q + h * q
    OBVIOUS
  <2>2. (v + h) * q = (v + h) * q0 + s * (v + h)
    OBVIOUS
  <2> QED
    BY <2>1, <2>2
<1>2. v + h \in Nat \ {0} /\ h * q \in Nat
  OBVIOUS
<1> QED
  BY <1>1, <1>2, DivFloor, DivOfSmaller DEF ConstantProductOut

LEMMA FeesNat ==
    ASSUME NEW f \in Fees, NEW raw \in Nat
    PROVE  FeeRaw(f, raw) \in Nat
<1>1. \A b \in Nat : Fee(raw, b) \in Nat
  <2>1. TAKE b \in Nat
  <2>2. BPS \in Nat \ {0} /\ raw * b \in Nat
    BY QuotesAssumption
  <2> QED
    BY <2>2, CeilAtLeast DEF Fee
<1>2. f.protocol \in Nat /\ f.creator \in Nat /\ f.cashback \in Nat
  BY DEF Fees
<1> QED
  BY <1>1, <1>2 DEF FeeRaw

LEMMA NetBounded ==
    ASSUME NEW f \in Fees, NEW raw \in Nat
    PROVE  NetOut(f, raw) \in Nat /\ NetOut(f, raw) <= raw
  BY FeesNat DEF NetOut, AtMost
-----------------------------------------------------------------------------
(* The inductive invariant. *)

Reserves ==
    /\ curve.vt > 0 /\ curve.vq > 0
    /\ curve.vt + held = opening.vt
    /\ curve.vq = opening.vq + swapped

ProductKept == opening.vt * opening.vq <= curve.vt * curve.vq

SpentMore ==
    /\ swapped <= spent
    /\ held > 0 => swapped < spent
    /\ sale <= spent

IInv == TypeOK /\ Reserves /\ ProductKept /\ SpentMore

LEMMA InvSells ==
    ASSUME IInv
    PROVE  /\ ConstantProductOut(held, curve.vt, curve.vq) <= swapped
           /\ quote_sell_tokens_raw(curve, fees, held) \in Nat
           /\ quote_sell_tokens_raw(curve, fees, held) <= swapped
<1> DEFINE raw == ConstantProductOut(held, curve.vt, curve.vq)
<1>1. /\ {curve.vt, curve.vq, curve.rq, opening.vt, opening.vq} \subseteq Nat
      /\ held \in Nat /\ swapped \in Nat /\ fees \in Fees
  BY DEF IInv, TypeOK, Curves
<1>2. (curve.vt + held) * opening.vq <= curve.vt * curve.vq
  BY <1>1 DEF IInv, Reserves, ProductKept
<1>3. raw \in Nat /\ raw <= swapped
  BY <1>1, <1>2, SellOfAll DEF IInv, Reserves
<1> HIDE DEF raw
<1>4. GrossOut(curve, held) \in Nat /\ GrossOut(curve, held) <= raw
  BY <1>1, <1>3 DEF GrossOut, AtMost, raw
<1>5. NetOut(fees, GrossOut(curve, held)) \in Nat
      /\ NetOut(fees, GrossOut(curve, held)) <= GrossOut(curve, held)
  BY <1>1, <1>4, NetBounded
<1> QED
  BY <1>1, <1>3, <1>4, <1>5 DEF quote_sell_tokens_raw, raw

LEMMA InitIInv == Init => IInv
<1> SUFFICES ASSUME Init PROVE IInv
  OBVIOUS
<1>1. PICK ev \in Events : QuoteState(ev) /\ curve = state_from_trade_event(ev) /\ fees = EventFees(ev)
  BY DEF Init
<1>2. ev.fees \in Fees /\ {ev.vt, ev.virtualQuote, ev.virtualSol, ev.rt, ev.rq} \subseteq Nat
  BY RoundTripAssumption
<1>3. curve \in Curves /\ curve.vt > 0 /\ curve.vq > 0
  BY <1>1, <1>2 DEF QuoteState, state_from_trade_event, QuoteReserve, AtLeastZero, Curves
<1>4. fees \in Fees
  BY <1>1, <1>2, QuotesAssumption DEF EventFees
<1>5. curve.vt \in Nat /\ curve.vq \in Nat
  BY <1>3 DEF Curves
<1> QED
  BY <1>3, <1>4, <1>5 DEF Init, IInv, TypeOK, Reserves, ProductKept, SpentMore

LEMMA BuyIInv ==
    ASSUME IInv, NEW g \in Budgets, Buy(g)
    PROVE  IInv'
<1> DEFINE s == SwapIn(fees, g)
           t == TokensOut(curve, s)
<1>1. /\ curve \in Curves /\ opening \in Curves /\ fees \in Fees
      /\ {curve.vt, curve.vq, curve.rt, curve.rq, opening.vt, opening.vq} \subseteq Nat
      /\ spent \in Nat /\ swapped \in Nat /\ held \in Nat /\ sale \in Nat
  BY DEF IInv, TypeOK, Curves
<1>2. g \in Nat /\ g > 1
  BY RoundTripAssumption DEF Buy
<1>3. s \in Nat /\ s <= g - 1
  BY <1>1, <1>2, SwapBelowBudget
<1> HIDE DEF s
<1>4. /\ t \in 0..curve.rt /\ t < curve.vt
      /\ curve.vt * curve.vq <= (curve.vt - t) * (curve.vq + s)
  BY <1>1, <1>3, BuyKeepsProduct DEF IInv, Reserves
<1>5. /\ curve' = [vt |-> curve.vt - t, vq |-> curve.vq + s,
                   rt |-> curve.rt - t, rq |-> curve.rq + s]
      /\ swapped' = swapped + s /\ held' = held + t /\ spent' = spent + g
      /\ fees' = fees /\ sale' = sale /\ opening' = opening
  BY DEF Buy, apply_buy_to_state, s
<1> HIDE DEF t
<1>6. TypeOK'
  BY <1>1, <1>2, <1>3, <1>4, <1>5 DEF TypeOK, Curves
<1>7. Reserves'
  BY <1>1, <1>3, <1>4, <1>5 DEF IInv, Reserves
<1>8. ProductKept'
  <2>1. curve'.vt = curve.vt - t /\ curve'.vq = curve.vq + s
    BY <1>5
  <2>2. (curve.vt - t) * (curve.vq + s) \in Int /\ curve.vt * curve.vq \in Nat
        /\ opening.vt * opening.vq \in Nat
    BY <1>1, <1>3, <1>4
  <2> QED
    BY <1>4, <1>5, <2>1, <2>2 DEF IInv, ProductKept
<1>9. SpentMore'
  BY <1>1, <1>2, <1>3, <1>4, <1>5 DEF IInv, SpentMore
<1> QED
  BY <1>6, <1>7, <1>8, <1>9 DEF IInv

LEMMA NextIInv == IInv /\ [Next]_vars => IInv'
<1> SUFFICES ASSUME IInv, [Next]_vars PROVE IInv'
  OBVIOUS
<1>1. CASE \E g \in Budgets : Buy(g)
  BY <1>1, BuyIInv
<1>2. CASE Sell
  <2>1. sale' \in Nat /\ sale' <= swapped
    BY <1>2, InvSells DEF Sell
  <2>2. spent \in Nat /\ swapped \in Nat
    BY DEF IInv, TypeOK
  <2> QED
    BY <1>2, <2>1, <2>2 DEF Sell, IInv, TypeOK, Reserves, ProductKept, SpentMore
<1>3. CASE UNCHANGED vars
  BY <1>3 DEF vars, IInv, TypeOK, Reserves, ProductKept, SpentMore
<1> QED
  BY <1>1, <1>2, <1>3 DEF Next

LEMMA IInvAlways == Spec => []IInv
  BY InitIInv, NextIInv, PTL DEF Spec

(* The reserves, and what was spent and held, stay natural numbers: a buy  *)
(* takes neither more tokens than the real reserves hold nor all virtual   *)
(* ones.                                                                   *)
THEOREM RoundTripTypeOK == Spec => []TypeOK
<1>1. IInv => TypeOK
  BY DEF IInv
<1> QED
  BY <1>1, IInvAlways, PTL

(* For every curve, fee schedule and series of budgets a round trip loses. *)
THEOREM RoundTripNoFreeMoney == Spec => []NoFreeMoney
<1>1. IInv => NoFreeMoney
  <2> SUFFICES ASSUME IInv PROVE NoFreeMoney
    OBVIOUS
  <2>1. spent \in Nat /\ swapped \in Nat /\ held \in Nat /\ sale <= spent
        /\ (held > 0 => swapped < spent)
    BY DEF IInv, TypeOK, SpentMore
  <2> QED
    BY <2>1, InvSells DEF NoFreeMoney
<1> QED
  BY <1>1, IInvAlways, PTL

-----------------------------------------------------------------------------
(* Rounding up costs less than a unit per component that is charged. *)

LEMMA FeeRoundsUp ==
    ASSUME NEW raw \in Nat, NEW b \in Nat
    PROVE  /\ Fee(raw, b) \in Nat
           /\ Fee(raw, b) * BPS <= raw * b + BPS - 1
           /\ b = 0 => Fee(raw, b) = 0
<1>1. BPS \in Nat \ {0} /\ raw * b \in Nat
  BY QuotesAssumption
<1>2. CASE raw > 0 /\ b > 0
  BY <1>1, <1>2, CeilAtLeast DEF Fee
<1>3. CASE ~(raw > 0 /\ b > 0)
  <2>1. Fee(raw, b) = 0
    BY <1>3 DEF Fee
  <2> QED
    BY <1>1, <2>1
<1> QED
  BY <1>2, <1>3

LEMMA BudgetCovers ==
    ASSUME NEW f \in Fees, NEW g \in Nat, g > 1
    PROVE  SwapIn(f, g) + FeeRaw(f, SwapIn(f, g)) <= g + (IF f.cashback > 0 THEN 1 ELSE 0)
<1> DEFINE s == SwapIn(f, g)
           p == Fee(s, f.protocol)
           c == Fee(s, f.creator)
           k == Fee(s, f.cashback)
<1>1. BPS \in Nat \ {0} /\ {f.protocol, f.creator, f.cashback} \subseteq Nat
  BY QuotesAssumption DEF Fees
<1>2. s \in Nat /\ s * (BPS + (f.protocol + f.creator + f.cashback)) <= (g - 1) * BPS
  BY SwapBelowBudget DEF total_fee_bps
<1> HIDE DEF s
<1>3. /\ p \in Nat /\ p * BPS <= s * f.protocol + BPS - 1
      /\ c \in Nat /\ c * BPS <= s * f.creator + BPS - 1
      /\ k \in Nat /\ k * BPS <= s * f.cashback + BPS - 1
      /\ f.cashback = 0 => k = 0
  BY <1>1, <1>2, FeeRoundsUp
<1> HIDE DEF p, c, k
<1>4. s * BPS + s * f.protocol + s * f.creator + s * f.cashback <= g * BPS - BPS
  <2>1. s * (BPS + (f.protocol + f.creator + f.cashback))
          = s * BPS + s * f.protocol + s * f.creator + s * f.cashback
    BY <1>1, <1>2
  <2>2. (g - 1) * BPS = g * BPS - BPS
    BY <1>1
  <2> QED
    BY <1>2, <2>1, <2>2
<1>5. CASE f.cashback = 0
  <2>1. s * BPS + p * BPS + c * BPS < g * BPS + BPS
    <3>1. s * f.cashback = 0 /\ {s * BPS, s * f.protocol, s * f.creator, g * BPS, p * BPS, c * BPS} \subseteq Nat
      BY <1>1, <1>2, <1>3, <1>5
    <3> QED
      BY <1>1, <1>3, <1>4, <3>1
  <2>2. (s + p + c) * BPS < (g + 1) * BPS
    BY <1>1, <1>2, <1>3, <2>1
  <2>3. s + p + c < g + 1
    <3>1. SUFFICES ASSUME g + 1 <= s + p + c PROVE (g + 1) * BPS <= (s + p + c) * BPS
      BY <1>1, <1>2, <1>3, <2>2
    <3> QED
      BY <1>1, <1>2, <1>3, <3>1
  <2> QED
    BY <1>2, <1>3, <1>5, <2>3 DEF FeeRaw, s, p, c, k
<1>6. CASE f.cashback > 0
  <2>1. s * BPS + p * BPS + c * BPS + k * BPS < g * BPS + 2 * BPS
    <3>1. {s * BPS, s * f.protocol, s * f.creator, s * f.cashback, g * BPS,
           p * BPS, c * BPS, k * BPS} \subseteq Nat
      BY <1>1, <1>2, <1>3
    <3> QED
      BY <1>1, <1>3, <1>4, <3>1
  <2>2. (s + p + c + k) * BPS < (g + 2) * BPS
    BY <1>1, <1>2, <1>3, <2>1
  <2>3. s + p + c + k < g + 2
    <3>1. SUFFICES ASSUME g + 2 <= s + p + c + k PROVE (g + 2) * BPS <= (s + p + c + k) * BPS
      BY <1>1, <1>2, <1>3, <2>2
    <3> QED
      BY <1>1, <1>2, <1>3, <3>1
  <2> QED
    BY <1>2, <1>3, <1>6, <2>3 DEF FeeRaw, s, p, c, k
<1> QED
  BY <1>1, <1>5, <1>6

(* Every buy of every series fits into its budget, fees rounded up. *)
THEOREM RoundTripBudget == Spec => BudgetCoversFees
<1>1. IInv /\ [Next]_vars =>
        [LET swap == swapped' - swapped
             gross == spent' - spent
         IN  swap + FeeRaw(fees, swap) <= gross + (IF fees.cashback > 0 THEN 1 ELSE 0)]_vars
  <2> SUFFICES ASSUME IInv, Next
               PROVE  (swapped' - swapped) + FeeRaw(fees, swapped' - swapped)
                        <= (spent' - spent) + (IF fees.cashback > 0 THEN 1 ELSE 0)
    OBVIOUS
  <2>1. fees \in Fees /\ spent \in Nat /\ swapped \in Nat /\ fees.cashback \in Nat
    BY DEF IInv, TypeOK, Fees
  <2>2. CASE \E g \in Budgets : Buy(g)
    <3>1. PICK g \in Budgets : Buy(g)
      BY <2>2
    <3>2. g \in Nat /\ g > 1 /\ swapped' = swapped + SwapIn(fees, g) /\ spent' = spent + g
      BY <3>1, RoundTripAssumption DEF Buy
    <3>3. SwapIn(fees, g) \in Nat
      BY <2>1, <3>2, SwapBelowBudget
    <3>4. swapped' - swapped = SwapIn(fees, g) /\ spent' - spent = g
      BY <2>1, <3>2, <3>3
    <3> QED
      BY <2>1, <3>2, <3>4, BudgetCovers
  <2>3. CASE Sell
    <3>1. swapped' - swapped = 0 /\ spent' - spent = 0
      BY <2>1, <2>3 DEF Sell
    <3>2. FeeRaw(fees, 0) = 0
      BY DEF FeeRaw, Fee
    <3> QED
      BY <3>1, <3>2
  <2> QED
    BY <2>2, <2>3 DEF Next
<1> QED
  BY <1>1, IInvAlways, PTL DEF Spec, BudgetCoversFees
================================================================================
