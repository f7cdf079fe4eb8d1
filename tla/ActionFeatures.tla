----------------------------- MODULE ActionFeatures -----------------------------
(***************************************************************************)
(* What the row of a decision is told about its tape: the features the     *)
(* models score (src/live/feature60.py), the flow features the risk gate   *)
(* reads (src/live/feature60_v2.py), the gate (src/live/                   *)
(* adversarial_gate.py) and the coordination diagnostics (src/live/        *)
(* action_forensics.py).                                                   *)
(*                                                                         *)
(* A tape is a sequence of trades sorted by age, without duplicates: who,  *)
(* which side, how much SOL and tokens, at which price, None without one.  *)
(* Shares are compared by cross-multiplication.                            *)
(***************************************************************************)
EXTENDS PythonSeqs, FiniteSetsExt

CONSTANTS
    NonHuman,       \* NON_HUMAN_WALLETS
    Dust,           \* the .01 SOL added to denominators
    Age,            \* decision_age_s, 60
    Half,           \* 30 s, where recent begins
    Bin, LastBin,   \* 5 s, and the bin of the boundary
    Nominal,        \* 8: nominal_buyers_for_collapse, and of a late arrival
    SizeUnit,       \* .0001 SOL
    Fast,           \* 10 s
    None

ASSUME FeaturesAssumption ==
    /\ {Dust, Age, Half, LastBin, Nominal, Fast} \subseteq Nat
    /\ {Bin, SizeUnit} \subseteq Nat \ {0}

ASSUME NoneIsNoNumber == None \notin Int

(* The trades a builder admits. *)
Admitted(tape) == Those(tape, LAMBDA x : 0 <= x.sec /\ x.sec <= Age)

Human(tape) == {x \in ToSet(Admitted(tape)) : x.user \notin NonHuman}

Priced(x) == x.price # None /\ x.price > 0

(* Amounts that fit the price within a factor of a hundred. *)
ValidSol(x) ==
    /\ x.sol > 0 /\ x.tok > 0 /\ Priced(x)
    /\ x.tok * x.price <= 100 * x.sol /\ x.sol <= 100 * x.tok * x.price

Buys(xs) == {x \in xs : x.buy}
Sells(xs) == {x \in xs : ~x.buy}
Wallets(xs) == {x.user : x \in xs}
Volume(xs) == MapThenSumSet(LAMBDA x : x.sol, xs)

LargestOf(S) == IF S = {} THEN 0 ELSE Max(S)

(* The members of S that share a value, the most of them by wallet. *)
MostWallets(xs, key(_)) == LargestOf({Cardinality(Wallets({y \in xs : key(y) = key(x)})) : x \in xs})

-----------------------------------------------------------------------------
(* build_livecore_features, but for its ratios and the launch's own fields *)

LiveCoreFeatures(creator, tape) ==
    LET human == Human(tape)
        valid == {x \in human : ValidSol(x)}
        recent == {x \in human : x.sec > Half}
        prior == {x \in human : x.sec <= Half}
        prices == Those(Admitted(tape), Priced)
        first == IF prices = <<>> THEN None ELSE Head(prices).price
        entry == IF prices = <<>> THEN None ELSE Last(prices).price
        bounds == {x.price : x \in ToSet(prices)}
    IN  [human_trades |-> Cardinality(human),
         buys |-> Cardinality(Buys(human)), sells |-> Cardinality(Sells(human)),
         unique_wallets |-> Cardinality(Wallets(human)),
         unique_buyers |-> Cardinality(Wallets(Buys(human))),
         unique_sellers |-> Cardinality(Wallets(Sells(human))),
         buy_volume |-> Volume(Buys(valid)), sell_volume |-> Volume(Sells(valid)),
         recent_trades |-> Cardinality(recent), prior_trades |-> Cardinality(prior),
         recent_buyers |-> Cardinality(Wallets(Buys(recent))),
         prior_buyers |-> Cardinality(Wallets(Buys(prior))),
         recent_volume |-> Volume(recent \cap valid), prior_volume |-> Volume(prior \cap valid),
         first_price |-> first, entry_price |-> entry,
         price_return |-> IF prices = <<>> THEN None ELSE <<entry - first, first>>,
         price_range_ratio |-> IF prices = <<>> THEN None ELSE <<Max(bounds), Min(bounds)>>,
         last_trade_gap_sec |-> IF human = {} THEN None ELSE Age - Max({x.sec : x \in human}),
         creator_buy_volume |-> Volume({x \in Buys(valid) : x.user = creator})]

Missing(features) == {k \in DOMAIN features : features[k] = None}

-----------------------------------------------------------------------------
(* build_livecore_v2_features, the eleven fields of the gate *)

(* What one wallet bought, what a set of wallets did, the most any k did,  *)
(* and the sum of the squares.                                             *)
Bought(buys, w) == Volume({x \in buys : x.user = w})

Spent(buys, W) == MapThenSumSet(LAMBDA w : Bought(buys, w), W)

TopVolume(buys, k) == LargestOf({Spent(buys, W) : W \in {V \in SUBSET Wallets(buys) : Cardinality(V) <= k}})

Squares(buys) == MapThenSumSet(LAMBDA w : Bought(buys, w) * Bought(buys, w), Wallets(buys))

FlowFeatures(creator, tape) ==
    LET rows == Admitted(tape)
        human == Human(tape)
        buyers == Wallets(Buys(human))
        sellers == Wallets(Sells(human))
        validBuys == {x \in Buys(human) : ValidSol(x)}
        prior == Wallets({x \in Buys(human) : x.sec <= Half})
        bin(x) == Min({x.sec \div Bin, LastBin})
        prices == Those(rows, Priced)
        early == Those(prices, LAMBDA x : x.sec <= Half)
    IN  [total |-> Volume(validBuys),
         sold |-> Volume({x \in Sells(human) : ValidSol(x)}),
         top |-> TopVolume(validBuys, 1), top3 |-> TopVolume(validBuys, 3),
         squares |-> Squares(validBuys),
         creator |-> Bought(validBuys, creator),
         buyers |-> Cardinality(buyers),
         wallets |-> Cardinality(buyers \cup sellers),
         roundtrips |-> Cardinality(buyers \cap sellers),
         recentNew |-> Cardinality(buyers \ prior),
         trades |-> Cardinality(human),
         busiest |-> LargestOf({Cardinality({y \in human : bin(y) = bin(x)}) : x \in human}),
         entry |-> IF prices = <<>> THEN None ELSE Last(prices).price,
         half |-> IF prices = <<>> THEN None ELSE IF early = <<>> THEN Head(prices).price ELSE Last(early).price,
         peak |-> IF prices = <<>> THEN None ELSE LargestOf({x.price : x \in ToSet(prices)})]

-----------------------------------------------------------------------------
(* assess_adversarial_risk *)

(* In hundredths, and counts. *)
THRESHOLDS ==
    [extreme_top_buyer_share |-> 90, top_buyer_share |-> 75, top3_buyer_share |-> 90,
     effective_buyers |-> 250, roundtrip_wallet_share |-> 70, negative_net_buy_volume_ratio |-> -5,
     creator_buy_share |-> 50, recent_new_buyers |-> 1, trade_burst_ratio |-> 50,
     peak_to_entry_drawdown |-> -40, recent30_return |-> -25]

FewEffective(f, hundredths) == f.squares = 0 \/ 100 * f.total * f.total < hundredths * f.squares

Dominant(f, volume, share) == f.total > 0 /\ 100 * volume >= share * f.total

Falls(from, to, return) == 100 * (to - from) <= return * from

(* The .01 SOL and 1e-12 in the denominators make some limits strict. *)
Critical(f) ==
    LET t == THRESHOLDS
    IN  {flag \in {"single", "collapse", "top3", "roundtrip", "creator"} :
        \/ flag = "single" /\ Dominant(f, f.top, t.top_buyer_share)
        \/ flag = "collapse" /\ f.buyers >= Nominal /\ FewEffective(f, t.effective_buyers)
        \/ flag = "top3" /\ Dominant(f, f.top3, t.top3_buyer_share) /\ FewEffective(f, 400)
        \/ flag = "roundtrip"
            /\ 100 * f.roundtrips > t.roundtrip_wallet_share * f.wallets
            /\ 100 * (f.total - f.sold) <= t.negative_net_buy_volume_ratio * (f.total + f.sold + Dust)
        \/ flag = "creator" /\ 100 * f.creator >= t.creator_buy_share * (f.total + Dust)}

Warnings(f) ==
    LET t == THRESHOLDS
    IN  {flag \in {"late", "burst", "drawdown", "recent"} :
        \/ flag = "late" /\ f.recentNew <= t.recent_new_buyers /\ f.buyers >= Nominal
        \/ flag = "burst" /\ 100 * f.busiest > t.trade_burst_ratio * f.trades
        \/ flag = "drawdown" /\ Falls(f.peak, f.entry, t.peak_to_entry_drawdown)
        \/ flag = "recent" /\ Falls(f.half, f.entry, t.recent30_return)}

Extreme(f) == Dominant(f, f.top, THRESHOLDS.extreme_top_buyer_share)

Paper == {"PAPER_PRIORITY", "PAPER_CANDIDATE"}

GateAssessment(status, suggested, score, critical, warnings) ==
    [status |-> status, suggested_decision |-> suggested, risk_score |-> score,
     critical_flags |-> critical, warning_flags |-> warnings]

Assessed(f, decision) ==
    LET critical == Critical(f)
        warnings == Warnings(f)
        score == 2 * Cardinality(critical) + Cardinality(warnings)
        of(status, suggested) == GateAssessment(status, suggested, score, critical, warnings)
    IN  IF Extreme(f) \/ Cardinality(critical) >= 2 THEN of("VETO", "PAPER_VETO")
        ELSE IF critical # {} \/ Cardinality(warnings) >= 2 THEN of("REVIEW", "PAPER_REVIEW")
        ELSE of("PASS", decision)

NotApplicable(decision) == GateAssessment("NOT_APPLICABLE", decision, 0, {}, {})

(* A missing risk field read as a quiet one. *)
OptimisticGate(f, decision) ==
    IF decision \notin Paper \/ f.entry = None THEN NotApplicable(decision) ELSE Assessed(f, decision)

assess_adversarial_risk(f, decision) ==
    IF decision \notin Paper THEN NotApplicable(decision)
    ELSE IF f.entry = None THEN GateAssessment("REVIEW_DATA", "PAPER_REVIEW_DATA", 99, {}, {})
    ELSE Assessed(f, decision)

-----------------------------------------------------------------------------
(* summarize_action_tape *)

Rounded(sol) == (2 * sol + SizeUnit) \div (2 * SizeUnit)

FirstSec(xs, w) == Min({x.sec : x \in {y \in xs : y.user = w}})

Roundtrips(human) ==
    {w \in Wallets(Buys(human)) \cap Wallets(Sells(human)) :
        FirstSec(Sells(human), w) >= FirstSec(Buys(human), w)}

Forensics(tape) ==
    LET human == {x \in ToSet(tape) : 0 <= x.sec /\ x.sec <= Age /\ x.user \notin NonHuman}
        sized == {x \in Buys(human) : x.sol > 0}
        round(x) == Rounded(x.sol)
        pair(x) == <<x.sec \div 2, Rounded(x.sol)>>
    IN  [wallets |-> Cardinality(Wallets(human)),
         buyers |-> Cardinality(Wallets(Buys(human))),
         sameSignature |-> MostWallets(human, LAMBDA x : x.sig),
         sameSecond |-> MostWallets(Buys(human), LAMBDA x : x.sec),
         sameSize |-> MostWallets(sized, round),
         cluster |-> MostWallets(sized, pair),
         roundtrips |-> Cardinality(Roundtrips(human)),
         fast |-> Cardinality({w \in Roundtrips(human) :
             FirstSec(Sells(human), w) - FirstSec(Buys(human), w) <= Fast})]
================================================================================
