--------------------------------- MODULE HtRun ---------------------------------
(***************************************************************************)
(* One run of .github/workflows/prospective-highthroughput.yml: the        *)
(* capture (scripts/live60_stream_capture_ht.py) scores every announced    *)
(* launch from the log stream; then, over the files it wrote, the audit    *)
(* set is selected, audited, annotated and packaged.                       *)
(*                                                                         *)
(* A row keeps the trades it was scored from (input); its features are     *)
(* those of that input.  What the models make of features is arbitrary; so *)
(* is the verdict of an audit (module HtAudit).  Time is in ticks; chain   *)
(* times are whole seconds.                                                *)
(***************************************************************************)
EXTENDS ActionFeatures, EventDecoding, Quotes

CONSTANTS
    Mints,
    Txs,             \* [sig, slot, at, ok, inner, logs]: transactions of the run
    LaunchSig,       \* the creation's signature
    Creator,         \* traderPublicKey
    InitialBuy,      \* [tok, sol, price] of the launch payload, None without one
    Repeats,         \* the mints the feed may announce again
    Collect,         \* collect_s
    MaxMints,        \* max_mints
    MaxClock,        \* bound: how late a decision task wakes
    Ticket,          \* paper_ticket_sol
    Levels,          \* ranks of the models' scores
    Thresholds,      \* score_thresholds: the rank each quantile begins at
    Hash,            \* rank of sha256(run_key|salt|mint), of each salt and mint
    MaxCandidates, RandomControls, WatchAudit, RejectAudit, NearMisses

ASSUME HtRunAssumption ==
    /\ {Collect, MaxMints, MaxClock} \subseteq Nat
    /\ {MaxCandidates, RandomControls, WatchAudit, RejectAudit, NearMisses} \subseteq Nat
    /\ Levels \subseteq Nat
    /\ Repeats \subseteq Mints
    /\ Hash \in [{"mint", "random_all", "watch", "reject_quality"} -> [Mints -> Nat]]
    /\ \A salt \in DOMAIN Hash : \A m, n \in Mints : Hash[salt][m] = Hash[salt][n] => m = n
    /\ \A tx \in Txs : {tx.inner, tx.logs} \subseteq Seq(Payload)
    /\ \A m \in Mints : InitialBuy[m] = None \/ InitialBuy[m].sol \in Int

(* A higher quantile of the same scores is no lower. *)
ASSUME ThresholdsAssumption ==
    /\ Thresholds \in [DOMAIN Thresholds -> Int] /\ "Q99" \in DOMAIN Thresholds
    /\ \A q \in {"Q995", "Q999"} \cap DOMAIN Thresholds : Thresholds["Q99"] <= Thresholds[q]

VARIABLES
    clock,
    stage,      \* the step of the workflow, or lost
    launches,   \* the announcements, in order
    active,     \* mints whose events are kept
    events,     \* what was kept of each mint, in order of arrival
    kept,       \* notifications events were kept of
    decided,    \* announcements whose decision task is over
    rows,       \* scored_rows
    tapes,      \* action_trade_tapes
    package     \* population, rows, tapes and drift report of the ledger package

captureVars == <<clock, launches, active, events, kept, decided>>
vars == <<captureVars, stage, rows, tapes, package>>

NoPackage == [population |-> <<>>, rows |-> <<>>, tapes |-> <<>>, drift |-> None]

Init ==
    /\ clock = 0
    /\ stage = "capture"
    /\ launches = <<>>
    /\ active = {}
    /\ events = [m \in Mints |-> <<>>]
    /\ kept = {}
    /\ decided = {}
    /\ rows = <<>>
    /\ tapes = <<>>
    /\ package = NoPackage

-----------------------------------------------------------------------------
(* Helpers over sequences *)

FirstOf(seq, n) == SubSeq(seq, 1, AtMost(n, Len(seq)))

MintsOf(seq) == {x.mint : x \in ToSet(seq)}

(* {x['mint']: x for x in ...}: the last one of a mint. *)
ByMint(seq, m) == Last(Those(seq, LAMBDA x : x.mint = m))

-----------------------------------------------------------------------------
(* What a decision computes *)

(* normalize_trades: events quoted in SOL, timed from the anchor; the      *)
(* payload's initial buy unless some event has the launch signature; equal *)
(* wallet, side and amounts in one transaction are one trade.              *)
EventPrice(ev) ==
    IF ev.vt <= 0 \/ QuoteReserve(ev) <= 0 THEN None ELSE QuoteReserve(ev) \div ev.vt

AsTrade(ev, anchor) ==
    [sig |-> ev.sig, user |-> ev.user, buy |-> ev.buy, sol |-> ev.sol, tok |-> ev.tok,
     price |-> EventPrice(ev), sec |-> ev.at - anchor]

launch_initial_trade(m) ==
    IF InitialBuy[m] = None THEN <<>>
    ELSE <<[sig |-> LaunchSig[m], user |-> Creator[m], buy |-> TRUE, sol |-> InitialBuy[m].sol,
            tok |-> InitialBuy[m].tok, price |-> InitialBuy[m].price, sec |-> 0]>>

TradeKey(x) == <<x.sig, x.user, x.buy, x.sol, x.tok>>

normalize_trades(m, observed, anchor) ==
    LET sol == Those(observed, LAMBDA ev : ev.mint \in SolMints)
        out == [k \in DOMAIN sol |-> AsTrade(sol[k], anchor)]
        told == \E x \in ToSet(out) : x.sig = LaunchSig[m]
        all == IF told THEN out ELSE out \o launch_initial_trade(m)
    IN  StableBy(LastOfEach(all, TradeKey), LAMBDA x : x.sec)

(* score_tier and the frozen rule of LiveCoreScorer.score *)
Reaches(rank, quantile) == quantile \in DOMAIN Thresholds /\ rank >= Thresholds[quantile]

Decision(ten, twentyFive) ==
    IF Reaches(ten, "Q999") \/ Reaches(ten, "Q995") THEN "PAPER_PRIORITY"
    ELSE IF Reaches(ten, "Q99") THEN "PAPER_CANDIDATE"
    ELSE IF Reaches(ten, "Q95") \/ \E q \in {"Q999", "Q995", "Q99"} : Reaches(twentyFive, q) THEN "WATCH"
    ELSE "REJECT"

BelowQ95(ten) == \A q \in DOMAIN Thresholds : ~Reaches(ten, q)

(* The entry quote: the state of the last event that has one, by event     *)
(* time and slot, even one that buys nothing; a budget of one unit is      *)
(* refused.                                                                *)
Quoted(observed) ==
    Those(StableBy(StableBy(observed, LAMBDA ev : ev.slot), LAMBDA ev : ev.at), QuoteState)

EntryQuote(observed) ==
    IF Quoted(observed) = <<>> \/ Ticket <= 1 THEN None
    ELSE LET last == Last(Quoted(observed))
         IN  [tokens |-> TokensOut(state_from_trade_event(last), SwapIn(EventFees(last), Ticket)),
              fees |-> EventFees(last)]

-----------------------------------------------------------------------------
(* Capture *)

Tick ==
    /\ stage \in {"capture", "gather"} /\ clock < MaxClock
    /\ clock' = clock + 1
    /\ UNCHANGED <<launches, active, events, kept, decided, stage, rows, tapes, package>>

(* A creation message; the feed may repeat one. *)
Announce(m) ==
    /\ stage = "capture" /\ clock < Collect /\ Len(launches) < MaxMints
    /\ m \in MintsOf(launches) => m \in Repeats
    /\ Cardinality({i \in DOMAIN launches : launches[i].mint = m}) < 2
    /\ launches' = Append(launches, [mint |-> m, at |-> clock])
    /\ active' = active \cup {m}
    /\ UNCHANGED <<clock, events, kept, decided, stage, rows, tapes, package>>

(* log_worker: a notification arrives, late or never; only events of       *)
(* active mints are kept.  Arriving in vain is the same as not at all.     *)
Streamed == [tx \in Txs |-> trade_events_from_logs(tx)]

KeptOf(tx, m) ==
    IF m \in active THEN Those(Streamed[tx], LAMBDA ev : ev.token = m) ELSE <<>>

Deliver(tx) ==
    /\ stage \in {"capture", "gather"}
    /\ tx \notin kept /\ tx.at <= clock
    /\ \E m \in Mints : KeptOf(tx, m) # <<>>
    /\ kept' = kept \cup {tx}
    /\ events' = [m \in Mints |-> events[m] \o KeptOf(tx, m)]
    /\ UNCHANGED <<clock, launches, active, decided, stage, rows, tapes, package>>

(* Collected enough, or the feed's connection failed. *)
FeedEnds ==
    /\ stage = "capture"
    /\ stage' = "gather"
    /\ UNCHANGED <<captureVars, rows, tapes, package>>

Observed(launch) == Those(events[launch.mint], LAMBDA ev : ev.at <= launch.at + Age)

(* decide(): wakes at the boundary or later and ends the mint's capture. *)
Decide(i, ten, twentyFive) ==
    LET launch == launches[i]
        observed == Observed(launch)
        trades == normalize_trades(launch.mint, observed, launch.at)
    IN  /\ stage \in {"capture", "gather"}
        /\ i \notin decided /\ clock >= launch.at + Age
        /\ rows' = Append(rows,
               [mint |-> launch.mint, at |-> launch.at, input |-> trades,
                ten |-> ten, decision |-> Decision(ten, twentyFive), quote |-> EntryQuote(observed),
                tags |-> {}, audit |-> "NOT_SELECTED_YET", forensics |-> None, gate |-> None])
        /\ tapes' = Append(tapes, [mint |-> launch.mint, at |-> launch.at, trades |-> trades, raw |-> observed])
        /\ active' = active \ {launch.mint}
        /\ events' = [events EXCEPT ![launch.mint] = <<>>]
        /\ decided' = decided \cup {i}
        /\ UNCHANGED <<clock, launches, kept, stage, package>>

(* The capture's process ends; only its files remain. *)
ProcessEnds ==
    /\ clock' = 0
    /\ active' = {}
    /\ events' = [m \in Mints |-> <<>>]
    /\ kept' = {}
    /\ decided' = {}

(* gather() raises what a decision raised: no file is written.  The job's  *)
(* timeout and a failing step have the same effect at any stage.           *)
Lose ==
    /\ stage \notin {"done", "lost"}
    /\ stage' = "lost"
    /\ ProcessEnds
    /\ launches' = <<>> /\ rows' = <<>> /\ tapes' = <<>>
    /\ UNCHANGED package

SortedByLaunch(seq) == StableBy(StableBy(seq, LAMBDA r : Hash["mint"][r.mint]), LAMBDA r : r.at)

(* Not waiting for the decision tasks. *)
WriteOutEarly ==
    /\ stage = "gather"
    /\ rows' = SortedByLaunch(rows)
    /\ tapes' = SortedByLaunch(tapes)
    /\ stage' = "select"
    /\ ProcessEnds
    /\ UNCHANGED <<launches, package>>

WriteOut ==
    /\ stage = "gather" /\ decided = DOMAIN launches
    /\ rows' = SortedByLaunch(rows)
    /\ tapes' = SortedByLaunch(tapes)
    /\ stage' = "select"
    /\ ProcessEnds
    /\ UNCHANGED <<launches, package>>

-----------------------------------------------------------------------------
(* select_ht_audit_set.py *)

take_hash(some, n, salt) == FirstOf(StableBy(some, LAMBDA r : Hash[salt][r.mint]), n)

BestOf(some, n) == FirstOf(StableBy(some, LAMBDA r : 0 - r.ten), n)

WithDecision(decisions) == Those(rows, LAMBDA r : r.decision \in decisions)

(* Controls drawn from the rows the rule did not reject. *)
PromisingControls == take_hash(WithDecision(Paper \cup {"WATCH"}), RandomControls, "random_all")

RandomPick == take_hash(rows, RandomControls, "random_all")

Picks ==
    [champion_candidate |-> BestOf(WithDecision(Paper), MaxCandidates),
     random_control |-> RandomPick,
     watch_sample |-> take_hash(WithDecision({"WATCH"}), WatchAudit, "watch"),
     reject_quality_sample |-> take_hash(WithDecision({"REJECT"}), RejectAudit, "reject_quality"),
     near_miss_control |-> BestOf(Those(rows, LAMBDA r : BelowQ95(r.ten)), NearMisses)]

TagsOf(m) == {tag \in DOMAIN Picks : m \in MintsOf(Picks[tag])}

Select ==
    /\ stage = "select"
    /\ rows' = [i \in DOMAIN rows |->
           [rows[i] EXCEPT !.tags = TagsOf(rows[i].mint),
                           !.audit = IF TagsOf(rows[i].mint) = {} THEN "NOT_SELECTED" ELSE "SELECTED_PENDING"]]
    /\ stage' = "audit"
    /\ UNCHANGED <<captureVars, tapes, package>>

Selected(r) == r.tags # {}

(* The re-scoring replaces the decision it was meant to check. *)
ApplyRescored(r, verdict) == [r EXCEPT !.audit = verdict, !.decision = "REJECT"]

apply_result(r, verdict) == [r EXCEPT !.audit = verdict]

(* audit_selected_live60.py: every selected row gets a verdict of its own. *)
AuditSelected ==
    /\ stage = "audit"
    /\ \E verdict \in [{i \in DOMAIN rows : Selected(rows[i])} -> {"CONFIRMED", "INVALID"}] :
           rows' = [i \in DOMAIN rows |->
               IF i \in DOMAIN verdict THEN apply_result(rows[i], verdict[i]) ELSE rows[i]]
    /\ stage' = "forensics"
    /\ UNCHANGED <<captureVars, tapes, package>>

(* annotate_action_forensics.py: over the last tape of the mint. *)
Annotate ==
    /\ stage = "forensics"
    /\ rows' = [i \in DOMAIN rows |->
           [rows[i] EXCEPT !.forensics = Forensics(ByMint(tapes, rows[i].mint).trades)]]
    /\ stage' = "gate"
    /\ UNCHANGED <<captureVars, tapes, package>>

RowFeatures(r) == FlowFeatures(Creator[r.mint], r.input)

LiveFeatures(r) == LiveCoreFeatures(Creator[r.mint], r.input)

(* apply_adversarial_gate.py, in its only mode: the decision stays. *)
ApplyGate ==
    /\ stage = "gate"
    /\ rows' = [i \in DOMAIN rows |->
           [rows[i] EXCEPT !.gate = assess_adversarial_risk(RowFeatures(rows[i]), rows[i].decision)]]
    /\ stage' = "drift"
    /\ UNCHANGED <<captureVars, tapes, package>>

(* build_live_drift.py: over the rows of every launch, how often a frozen  *)
(* threshold was reached, and which features were missing, because nobody  *)
(* traded or for another reason.                                           *)
StructuralIfNoHuman ==
    {"last_trade_gap_sec", "first_price", "entry_price", "price_return", "price_range_ratio"}

missing_kind(f, r) ==
    IF f \in StructuralIfNoHuman /\ LiveFeatures(r).human_trades = 0 THEN "structural" ELSE "unexpected"

Count(Test(_)) == Cardinality({i \in DOMAIN rows : Test(rows[i])})

Drift ==
    /\ stage = "drift"
    /\ package' = [package EXCEPT !.drift =
           [occupancy |-> [q \in DOMAIN Thresholds |-> Count(LAMBDA r : Reaches(r.ten, q))],
            missing |-> [kind \in {"structural", "unexpected"} |-> [f \in StructuralIfNoHuman |->
                Count(LAMBDA r : f \in Missing(LiveFeatures(r)) /\ missing_kind(f, r) = kind)]]]]
    /\ stage' = "package"
    /\ UNCHANGED <<captureVars, rows, tapes>>

PopulationEntry(r) ==
    [mint |-> r.mint, at |-> r.at, decision |-> r.decision, ten |-> r.ten,
     audit |-> r.audit, tags |-> r.tags]

(* Tapes cut down to the selection by position. *)
TapesByPosition == FirstOf(tapes, Len(Those(rows, Selected)))

PackagedTapes ==
    LET taken == Those(rows, LAMBDA r : Selected(r) /\ r.mint \in MintsOf(tapes))
    IN  [k \in DOMAIN taken |-> ByMint(tapes, taken[k].mint)]

(* package_ht_ledger.py *)
Package ==
    /\ stage = "package"
    /\ package' = [population |-> [i \in DOMAIN rows |-> PopulationEntry(rows[i])],
                   rows |-> Those(rows, Selected),
                   tapes |-> PackagedTapes,
                   drift |-> package.drift]
    /\ stage' = "done"
    /\ UNCHANGED <<captureVars, rows, tapes>>

Next ==
    \/ Tick
    \/ \E m \in Mints : Announce(m)
    \/ \E tx \in Txs : Deliver(tx)
    \/ FeedEnds
    \/ \E i \in DOMAIN launches, ten \in Levels, twentyFive \in Levels : Decide(i, ten, twentyFive)
    \/ Lose
    \/ WriteOut \/ Select \/ AuditSelected \/ Annotate \/ ApplyGate \/ Drift \/ Package

Spec == Init /\ [][Next]_vars

-----------------------------------------------------------------------------
AnnouncedOnce(m) == Cardinality({i \in DOMAIN launches : launches[i].mint = m}) = 1

(* The package is all or nothing: once there is one, every announcement    *)
(* has its score in the population, made from trades up to its boundary.   *)
PopulationComplete ==
    stage = "done" =>
        /\ Len(package.population) = Len(launches)
        /\ \A i \in DOMAIN launches : \E r \in ToSet(rows) :
             /\ r.mint = launches[i].mint /\ r.at = launches[i].at
             /\ PopulationEntry(r) \in ToSet(package.population)
             /\ \A x \in ToSet(r.input) : x.sec <= Age

(* The tape that enters the ledger with a selected row holds exactly the   *)
(* trades the row was scored from.  (Of a mint announced twice both rows   *)
(* get the tape of the later announcement.)                                *)
PackagedTapeIsInput ==
    \A k \in DOMAIN package.rows : AnnouncedOnce(package.rows[k].mint) =>
        \E t \in ToSet(package.tapes) :
            t.mint = package.rows[k].mint /\ t.trades = package.rows[k].input

(* Random controls are the announcements of the smallest hashes, whatever  *)
(* the models made of them.                                                *)
ControlsIgnoreScores ==
    stage \in {"audit", "forensics", "gate", "drift", "package", "done"} =>
        \A r \in ToSet(rows) :
            "random_control" \in r.tags <=>
                Cardinality({i \in DOMAIN launches :
                    Hash["random_all"][launches[i].mint] < Hash["random_all"][r.mint]}) < RandomControls

(* No later step of the run changes what was decided at action time: every *)
(* row keeps its input, score, decision and quote, and its tape is kept.   *)
ActionPart(r) == <<r.mint, r.at, r.input, r.ten, r.decision, r.quote>>

ActionImmutable ==
    [][stage' # "lost" =>
       /\ \A r \in ToSet(rows) : \E s \in ToSet(rows)' : ActionPart(r) = ActionPart(s)
       /\ ToSet(tapes) \subseteq ToSet(tapes)']_vars

(* What the run reports of its rows is consistent, module by module: the   *)
(* scored and the flow features count the same buyers, volume and price;   *)
(* an extreme buyer raises two critical flags; no candidate passes without *)
(* risk fields or with two warnings; the coordination counts nest; and the *)
(* drift report finds the candidates at the Q99 threshold and calls a      *)
(* missing gap structural exactly when nobody traded.                      *)
RowConsistent(r) ==
    LET f == RowFeatures(r)
        v == LiveFeatures(r)
    IN  /\ <<v.unique_buyers, v.unique_wallets, v.human_trades>> = <<f.buyers, f.wallets, f.trades>>
        /\ <<v.buy_volume, v.sell_volume, v.creator_buy_volume>> = <<f.total, f.sold, f.creator>>
        /\ v.entry_price = f.entry /\ f.recentNew <= v.recent_buyers
        /\ f.buyers <= v.recent_buyers + v.prior_buyers
        /\ f.entry # None /\ Extreme(f) => Cardinality(Critical(f)) >= 2
        /\ r.decision \in Paper /\ f.entry = None => r.gate.suggested_decision \notin Paper
        /\ r.gate.suggested_decision \in Paper => r.gate.risk_score <= 1
        /\ r.forensics.cluster <= r.forensics.sameSize
        /\ r.forensics.fast <= r.forensics.roundtrips
        /\ AnnouncedOnce(r.mint) =>
             /\ r.forensics.buyers = f.buyers /\ r.forensics.wallets = f.wallets
             /\ r.forensics.roundtrips <= f.roundtrips

DiagnosticsConsistent ==
    stage \in {"package", "done"} =>
        /\ \A r \in ToSet(rows) : RowConsistent(r)
        /\ package.drift.occupancy["Q99"] = Count(LAMBDA r : r.decision \in Paper)
        /\ package.drift.missing["unexpected"]["last_trade_gap_sec"] = 0
        /\ package.drift.missing["structural"]["last_trade_gap_sec"] =
             Count(LAMBDA r : RowFeatures(r).wallets = 0)

(* What the capture kept of a transaction is what the audit extracts when  *)
(* it fetches that transaction, field by field.                            *)
Fetched == [tx \in Txs |-> ToSet(extract_trade_events_from_transaction(tx))]

StreamAgreesWithFetch ==
    \A m \in Mints : ToSet(events[m]) \subseteq UNION {Fetched[tx] : tx \in kept}

(* However many bytes of the tail an old program version wrote, or a       *)
(* payload was cut to, each field is read from where it was written, and   *)
(* the fields that are there in full are exactly the ones read.            *)
CutsReadAsWritten ==
    \A holders \in 0..2, extra \in 0..170 :
        LET p == [holders |-> holders, len |-> Body + extra]
        IN  /\ ~Reading(p).astray
            /\ Reading(p).got =
                 {i \in Fields : Offset(holders, i) + Widths(holders)[i] <= p.len}

TailReadsWritten == kept # {} => CutsReadAsWritten
================================================================================
