-------------------------------- MODULE TrackOne --------------------------------
(***************************************************************************)
(* track_one() of scripts/track_pending_outcomes.py: the history of a      *)
(* scored mint, and of the pool it migrated to, is paged and fetched, and  *)
(* the later reserve states are turned into what the entry could have been *)
(* sold for (src/live/executable_outcomes.py).                             *)
(*                                                                         *)
(* A transaction is its position on the chain, the oldest is 1; Python's   *)
(* sorts leave the order of one second to the signature texts, which is    *)
(* any order here.  Multiples are fractions <<n, d>>.                      *)
(***************************************************************************)
EXTENDS Quotes, PumpSwapDecoding, FiniteSets

CONSTANTS
    Txs,            \* kinds of transactions
    MaxChain,       \* bound: transactions that name the mint or its pools
    Entries,        \* paper_curve_quote of the row
    MinFee,         \* MIN_CURRENT_CURVE_FEE_BPS
    Scored, End,    \* scored_ms and end_s, in seconds
    Lookback,       \* history before scored_ms
    Slack,          \* both ends of the window
    Limit,          \* a page
    MaxPages, MaxTxs,
    EntryNetwork, ExitNetwork,
    Targets,
    None

(* A pump transaction is a trade of the mint.  The other ones are of one   *)
(* pool, and what they tell is of their second.                            *)
IsPumpTx(x) == {x.vt, x.virtualQuote, x.virtualSol, x.rt, x.rq} \subseteq Nat /\ x.fees \in Fees

IsPumpSwapTx(x) ==
    /\ {x.inner, x.logs} \subseteq Seq(PumpSwapPayload)
    /\ \A p \in ToSet(x.inner \o x.logs) :
         p.ev.at = x.t /\ p.ev.pool = x.pool /\ (IsPool(p.ev) => x.creates)
    /\ x.creates => x.viaMint

ASSUME TrackOneAssumption ==
    /\ \A x \in Txs :
         /\ x.kind \in {"pump", "pumpswap"}
         /\ x.t \in Nat /\ x.ok \in BOOLEAN /\ x.timed \in BOOLEAN
         /\ IF x.kind = "pump" THEN IsPumpTx(x) ELSE IsPumpSwapTx(x)
    /\ \A e \in Entries : {e.tokens, e.gross} \subseteq Nat
    /\ {MaxChain, Scored, End, Lookback, Slack, EntryNetwork, ExitNetwork} \subseteq Nat
    /\ {Limit, MaxPages, MaxTxs} \subseteq Nat \ {0}
    /\ Targets \subseteq Nat \ {0, 1}
    /\ None \notin Nat \cup {"COMPLETE"}

VARIABLES
    chain,      \* the transactions the node lists, in order
    entry,      \* the row's quote
    pc,         \* mint, mintTxs, pool, poolTxs, summary or done
    before,     \* the paging cursor
    pages, reached, broken,
    found,      \* selected signatures of this history
    flawed,     \* a history was incomplete or a transaction missing
    fetched,    \* fetched transactions of the mint
    pool,       \* the pool event followed, None without one
    fromPool,   \* fetched transactions of the pool
    status, points, summary

pageVars == <<before, pages, reached, broken, found>>
vars == <<chain, entry, pc, pageVars, flawed, fetched, pool, fromPool, status, points, summary>>

Creates(x, p) == x.kind = "pumpswap" /\ x.ok /\ x.creates /\ x.pool = p

(* A pool is created once, and then used. *)
Chains ==
    {c \in SeqOf(Txs, MaxChain) :
        /\ \A i, j \in DOMAIN c : i < j => c[i].t <= c[j].t
        /\ \A i \in DOMAIN c : c[i].kind = "pumpswap" =>
             \E j \in 1..i : Creates(c[j], c[i].pool)
        /\ \A i, j \in DOMAIN c : c[i].kind = "pumpswap" =>
             (Creates(c[i], c[i].pool) /\ Creates(c[j], c[i].pool) => i = j)}

Init ==
    /\ chain \in Chains
    /\ entry \in Entries
    /\ pc = "mint"
    /\ before = MaxChain + 1 /\ pages = 0
    /\ reached = FALSE /\ broken = FALSE
    /\ found = {}
    /\ flawed = FALSE
    /\ fetched = {}
    /\ pool = None
    /\ fromPool = {}
    /\ status = None
    /\ points = <<>>
    /\ summary = None

-----------------------------------------------------------------------------
(* No claim without the quote, or when it paid less than today's fee. *)
Quoted == entry.tokens > 0 /\ entry.gross > 0 /\ entry.fee >= MinFee

Quarantine ==
    /\ pc = "mint" /\ pages = 0
    /\ ~Quoted
    /\ pc' = "done"
    /\ status' = "OUTCOME_INCOMPLETE"
    /\ UNCHANGED <<chain, entry, pageVars, flawed, fetched, pool, fromPool, points, summary>>

(* The addresses of a transaction: a swap may name the mint or not. *)
Names(x, address) ==
    IF address = "mint" THEN x.kind = "pump" \/ x.viaMint
    ELSE x.kind = "pumpswap" /\ x.pool = pool.pool

Address == IF pc = "mint" THEN "mint" ELSE "pool"

Index == {i \in DOMAIN chain : Names(chain[i], Address)}

Start ==
    LET s == AtLeastZero(Scored - Lookback)
    IN  IF Address = "mint" \/ pool.at - Slack < s THEN s ELSE pool.at - Slack

InWindow(i) ==
    chain[i].ok /\ chain[i].timed /\ chain[i].t \in Start - Slack..End + Slack

(* The newest older than the cursor. *)
Page ==
    LET older == {i \in Index : i < before}
    IN  {i \in older : Cardinality({j \in older : i < j}) < Limit}

ReachesStart(page) ==
    \/ Cardinality(page) < Limit
    \/ \E i \in page : chain[i].timed /\ chain[i].t < Start - Slack

Paging ==
    /\ pc \in {"mint", "pool"}
    /\ Quoted
    /\ pages < MaxPages /\ ~reached /\ ~broken

ReadPage ==
    /\ Paging
    /\ pages' = pages + 1
    /\ found' = found \cup {i \in Page : InWindow(i)}
    /\ reached' = ReachesStart(Page)
    /\ before' = IF reached' THEN before ELSE CHOOSE i \in Page : \A j \in Page : i <= j
    /\ UNCHANGED <<chain, entry, pc, broken, flawed, fetched, pool, fromPool, status, points, summary>>

PageFails ==
    /\ Paging
    /\ pages' = pages + 1
    /\ broken' = TRUE
    /\ UNCHANGED <<chain, entry, pc, before, reached, found, flawed, fetched, pool, fromPool,
                   status, points, summary>>

(* A history cut off by the page cap taken for whole. *)
OnlyErrors == broken

HistoryFlaw == ~reached

EndPaging ==
    /\ pc \in {"mint", "pool"}
    /\ reached \/ broken \/ pages = MaxPages
    /\ flawed' = (flawed \/ HistoryFlaw)
    /\ pc' = IF pc = "mint" THEN "mintTxs" ELSE "poolTxs"
    /\ UNCHANGED <<chain, entry, pageVars, fetched, pool, fromPool, status, points, summary>>

-----------------------------------------------------------------------------
(* The oldest MaxTxs signatures, and of those the fetches that succeed. *)
Fetched(got) ==
    \E asked \in SUBSET found :
        /\ Cardinality(asked) = AtMost(Cardinality(found), MaxTxs)
        /\ \A i \in asked, j \in found \ asked : chain[i].t <= chain[j].t
        /\ got \in SUBSET asked

PumpSwapEvents(i) == IF chain[i].kind = "pump" THEN <<>> ELSE extract_pumpswap_events(chain[i])

Pools(got) ==
    {e \in UNION {ToSet(PumpSwapEvents(i)) : i \in got} : IsPool(e) /\ e.base_mint = "mint"}

(* The earliest pool of the mint; Python's min keeps the first of equals. *)
IsFirstPool(e, got) == e \in Pools(got) /\ \A f \in Pools(got) : e.at <= f.at

FetchMint(got) ==
    /\ pc = "mintTxs"
    /\ Fetched(got)
    /\ fetched' = got
    /\ flawed' = (flawed \/ got # found)
    /\ IF Pools(got) = {}
       THEN pool' = None /\ pc' = "summary" /\ UNCHANGED pageVars
       ELSE /\ \E e \in Pools(got) : IsFirstPool(e, got) /\ pool' = e
            /\ pc' = "pool"
            /\ before' = MaxChain + 1 /\ pages' = 0
            /\ reached' = FALSE /\ broken' = FALSE
            /\ found' = {}
    /\ UNCHANGED <<chain, entry, fromPool, status, points, summary>>

FetchPool(got) ==
    /\ pc = "poolTxs"
    /\ Fetched(got)
    /\ fromPool' = got
    /\ flawed' = (flawed \/ got # found)
    /\ pc' = "summary"
    /\ UNCHANGED <<chain, entry, pageVars, fetched, pool, status, points, summary>>

-----------------------------------------------------------------------------
(* Spot and proceeds over what the entry paid. *)
Outlay == entry.gross + EntryNetwork

Point(t, venue, base, quote, net) ==
    [t |-> t, venue |-> venue,
     observed |-> <<quote * entry.tokens, base * entry.gross>>,
     executable |-> <<AtLeastZero(net - ExitNetwork), Outlay>>]

(* In the order of the fetched transactions; another quote gives none. *)
pump_exit_points(order) ==
    LET after == Those(order, LAMBDA i :
            chain[i].kind = "pump" /\ chain[i].t > Scored /\ QuoteState(chain[i]))
        point(x) == LET c == state_from_trade_event(x)
                    IN  Point(x.t, "pump", c.vt, c.vq, quote_sell_tokens_raw(c, EventFees(x), entry.tokens))
    IN  [k \in DOMAIN after |-> point(chain[after[k]])]

state_from_trade(e) == e.pool = pool.pool /\ is_sol_quote(pool) /\ PoolQuotes(e)

pumpswap_exit_points(events) ==
    LET after == Those(events, LAMBDA e : e.at > Scored /\ state_from_trade(e))
    IN  [k \in DOMAIN after |->
            Point(after[k].at, "pumpswap", after[k].base, EffectiveQuote(after[k]),
                  quote_sell_base_raw(after[k], after[k].fees, entry.tokens))]

(* The swaps of the mint's history and those of the pool in its own; a     *)
(* swap in both histories is one.                                          *)
Swaps(order) ==
    LET told(got) == FlattenSeq([k \in DOMAIN order |->
            IF order[k] \in got THEN PumpSwapEvents(order[k]) ELSE <<>>])
        ofMint == Those(told(fetched), LAMBDA e : ~IsPool(e))
        ofPool == Those(told(fromPool), LAMBDA e : ~IsPool(e) /\ e.pool = pool.pool)
    IN  LastOfEach(ofMint \o ofPool, SwapKey)

PoolPoints(order) == IF pool = None THEN <<>> ELSE pumpswap_exit_points(Swaps(order))

Less(a, b) == a[1] * b[2] < b[1] * a[2]

Falls(m) == 2 * m[1] <= m[2]

Reaches(m, target) == m[1] >= target * m[2]

(* sorted by time only, as the points are *)
ByTime(path) == StableBy(path, LAMBDA p : p.t)

Sorted(path) ==
    StableFor(path, LAMBDA a, b : a.t < b.t \/ (a.t = b.t /\ Less(a.m, b.m)))

FirstPassage(path, target) ==
    LET s == Sorted(path)
        i == SelectInSeq(s, LAMBDA p : Falls(p.m) \/ Reaches(p.m, target))
    IN  IF i = 0 THEN [event |-> "censored", t |-> IF path = <<>> THEN None ELSE Last(path).t]
        ELSE [event |-> IF Falls(s[i].m) THEN "drawdown" ELSE "target", t |-> s[i].t]

Path(pts, field) == [i \in DOMAIN pts |-> [t |-> pts[i].t, m |-> pts[i][field]]]

summarize_executable_path(pts) ==
    [field \in {"observed", "executable"} |->
        [target \in Targets |-> FirstPassage(Path(pts, field), target)]]

Summarize ==
    /\ pc = "summary"
    /\ pc' = "done"
    /\ status' = IF flawed THEN "OUTCOME_INCOMPLETE" ELSE "COMPLETE"
    /\ \E order \in SetToSeqs(fetched \cup fromPool) :
         /\ \A i, j \in DOMAIN order : i < j => chain[order[i]].t <= chain[order[j]].t
         /\ points' = StableBy(pump_exit_points(Those(order, LAMBDA i : i \in fetched)) \o PoolPoints(order),
                              LAMBDA p : p.t)
    /\ summary' = summarize_executable_path(points')
    /\ UNCHANGED <<chain, entry, pageVars, flawed, fetched, pool, fromPool>>

Next ==
    \/ Quarantine
    \/ ReadPage \/ PageFails \/ EndPaging
    \/ \E got \in SUBSET found : FetchMint(got) \/ FetchPool(got)
    \/ Summarize

Spec == Init /\ [][Next]_vars
-----------------------------------------------------------------------------
(* A COMPLETE outcome misses no curve trade of the mint between decision   *)
(* and horizon and no pool creation; of the pool it follows every swap the *)
(* decoder knows the layout of gives exactly one point, wherever it was    *)
(* told, if what is told of it quotes alike; and nothing later than the    *)
(* slack after the horizon counts.                                         *)
Due(i) == chain[i].ok /\ chain[i].timed /\ chain[i].t \in Scored + 1..End

SwapsAt(t) ==
    {e \in UNION {ToSet(PumpSwapEvents(i)) : i \in {j \in DOMAIN chain : Due(j)}} :
        e.at = t /\ ~IsPool(e) /\ e.pool = pool.pool}

QuoteAlike(swaps) ==
    \A e, f \in swaps : SwapKey(e) = SwapKey(f) => (PoolQuotes(e) <=> PoolQuotes(f))

CompleteCoversWindow ==
    status = "COMPLETE" =>
        /\ \A k \in DOMAIN points : points[k].t \in Scored + 1..End + Slack
        /\ \A i \in DOMAIN chain :
             Due(i) /\ (chain[i].kind = "pump" \/ chain[i].creates) => i \in fetched
        /\ pool # None => \A t \in Scored + 1..End : QuoteAlike(SwapsAt(t)) =>
             Cardinality({SwapKey(e) : e \in {f \in SwapsAt(t) : state_from_trade(f)}}) =
                 Cardinality({k \in DOMAIN points : points[k].venue = "pumpswap" /\ points[k].t = t})

First(times) == IF times = {} THEN None ELSE CHOOSE t \in times : \A u \in times : t <= u

(* A label depends on the points, not on the order in which the events of  *)
(* one second were assembled: the target counts when it is reached in a    *)
(* second before the first drawdown, and a second with both is a drawdown. *)
LabelOrderFree ==
    summary # None =>
        \A f \in DOMAIN summary, g \in Targets :
            LET m(i) == points[i][f]
                up == First({points[i].t : i \in {j \in DOMAIN points : Reaches(m(j), g)}})
                down == First({points[i].t : i \in {j \in DOMAIN points : Falls(m(j))}})
                label == summary[f][g]
            IN  /\ label.event = "target" <=> up # None /\ (down # None => up < down)
                /\ label.event = "censored" <=> up = None /\ down = None
                /\ label.event = "target" => label.t = up
                /\ label.event = "drawdown" => label.t = down

(* "Materially stricter than a reserve-price touch": whenever the entry    *)
(* could have been sold at a target the price had reached it by then, and  *)
(* a higher target is never reached without the lower ones.                *)
ExecutableStricter ==
    summary # None =>
        \A g \in Targets :
            summary["executable"][g].event = "target" =>
                /\ summary["observed"][g].event = "target"
                /\ summary["observed"][g].t <= summary["executable"][g].t
                /\ \A h \in Targets : h < g => summary["executable"][h].event = "target"
================================================================================
