# Verification of microcap-runner

microcap-runner is a paper-only research system. It watches new Pump launches
on Solana, records a decision about each launch sixty seconds after it was
seen, checks later over RPC whether the data behind the decision was complete,
and tracks what happened to the launch in the following hours. Its value
depends on three promises: the decision uses only what was known at the time,
nothing rewrites it afterwards, and incomplete data is labelled as such. These
specifications are about those promises.

## Inventory

Paths are relative to the repository.

| Part | State | Operations | What is hard | What must hold |
|---|---|---|---|---|
| Stream scanner, `scripts/live60_stream_scan_v4.py` with the tape hook of `..._v5.py` | `events_by_mint`, `states`, `launches`, the captured tapes; written to files once at the end | launch feed, log worker, one decision task per launch, audit loop | one event loop, many tasks; late, lost and out-of-order events; repeated creation messages; an index that trails the chain; failed RPC calls | the audit works on finished rows, a tape is that of its first decision, quotes are recent, VALID means accounted for; a decision never changes, unless its mint is announced again |
| Live-core features, `src/live/feature60.py` | none | normalise a tape, build the features | two anchors (observer and chain), the creator's initial buy arrives by two routes | the same tape gives the same trades; the initial buy counts once |
| Audit pacer, `Pacer` and `rpc` of `scripts/audit_selected_live60.py` | next start, cooldown, an `asyncio.Lock` | `wait`, `penalize`, the retry loop | sleeping under a lock that the cooldown needs; retries; starvation | spacing, cooldowns, every call returns |
| HT audit, rest of `scripts/audit_selected_live60.py` | the rows of the selected mints | page the signature index, sweep, fill gaps, judge | paging against a moving index, caps, reuse of streamed events | VALID only when complete; fail closed on caps |
| HT capture, `scripts/live60_stream_capture_ht.py` | `active`, `events`, decisions, tapes | as v4, with a filter on active mints | events before the launch message or after the decision | tape equals the decision's input |
| HT selection, `scripts/select_ht_audit_set.py` | none | hash sampling | independence from outcomes | quotas, no duplicates |
| Log stream, `src/ingest/pump_log_events.py` | socket, back-off | subscribe, decode, reconnect | gaps while reconnecting | an envelope is decoded or dropped, never guessed |
| Decoders, `src/ingest/pump_trade_event.py` and others | none | parse event bytes | optional tails of several layouts | reject what does not fit |
| Quotes, `src/execution/*.py` | none | buy and sell quotes, fees | integer rounding, caps, fee provenance | no gain from a round trip, fees within proceeds |
| Scoring rule and gate, `src/live/scoring.py`, `src/live/adversarial_gate.py` | none | tiers to a decision; evidence to a gate status | missing fields, boundary scores | the preregistered rule |
| Outcomes, `scripts/track_pending_outcomes.py`, `src/live/executable_outcomes.py` | outcome files in the ledger | select matured rows, rebuild the path, write once | horizon boundaries, order within a second, incomplete results that block a retry | COMPLETE means complete; nothing after the horizon |
| Ledger, the three `prospective-*.yml` workflows | a git branch | append scans, outcomes, snapshots | concurrent workflows, failed pushes, reruns | append-only |
| Reports | none | counts and statistics over rows and outcomes | a snapshot that outlives its sources | the counts are backed by the ledger; the statistics are not modelled |
| Offline research scripts, older scanners | none | statistics, training | - | not modelled |

The parts meet as follows. The launch feed starts decision tasks; the log
stream fills the buffer the decision tasks and, later, the audit read; features,
scoring and the entry quote are called by both decision and audit; the HT lane
writes files that selection, audit and packaging rewrite in turn; the workflows
put the results into the ledger, which the outcome tracker reads and extends.
`PROJECT.json` lists every hazard at its line.

## Modules

| Module | Models | Used by |
|---|---|---|
| `TradeTape` | the tape of `feature60.py`: events re-timed from an anchor, plus the initial buy of the payload | `StreamScan` |
| `StreamScan` | the scanner v4 with the v5 hook, and its environment | `MCStreamScan`, proofs |
| `MCStreamScan` | a deep instance (one mint, three transactions) and a wide one (two mints) | `scan*.cfg` |
| `StreamScanProofs` | its types and its safety properties as theorems | |
| `RateLimit` | what the pacer promises: a rate limiter without tasks or lock | `Pacer` (refinement) |
| `Pacer` | `Pacer` and `rpc` of the HT audit | `MCPacer`, proofs |
| `MCPacer` | three tasks, a short and a long penalty | `pacer.cfg` |
| `PacerProofs` | the types, the refinement and the penalties; the starts between an overload and its cooldown; nobody is stuck | |
| `PythonSeqs` | comprehensions, `sorted` and dictionary deduplication of a list | decoders, `HtRun`, `TrackOne` |
| `PythonSeqsProofs` | what they keep, add, order and count; maxima and sums | `HtRunProofs`, `TrackOneProofs` |
| `EventDecoding` | Pump trade events out of fetched transactions and log notifications | `HtRun` |
| `PumpSwapDecoding` | pool and swap events out of fetched transactions | `TrackOne` |
| `Quotes` | curve and pool quotes, fees | `HtRun`, `TrackOne`, `RoundTrip` |
| `ActionFeatures` | scored features, flow features, risk gate, diagnostics | `HtRun` |
| `HtRun` | one run of the high-throughput workflow, capture to package | `MCHtRun`, proofs |
| `HtRunProofs` | the package from the announcements to the ledger; streamed and fetched events; the reports on a row | |
| `HtAudit` | `signature_sweep` and `audit_one` | `ht_audit.cfg`, proofs |
| `HtAuditProofs` | its types, what a VALID row stands for and the measure that every step of an audit decreases | |
| `TrackOne` | `track_one` and the path summary | `MCTrackOne`, proofs |
| `TrackOneProofs` | what COMPLETE stands for, labels, sold against priced | |
| `RoundTrip` | a paper position bought in steps and quoted back | `MCRoundTrip`, proofs |
| `RoundTripProofs` | types, no gain, budgets | |
| `Ledger` | the ledger branch and the jobs that write it | `MCLedger`, proofs |
| `LedgerProofs` | no refused push, outcomes of matured rows, append-only, snapshots backed | |
| `AppendOnlyLog` | what an append-only ledger promises | `Ledger` (refinement) |

How they fit: `HtRun` composes the decoders, the quotes and the features, and
uses of an audit only its verdict, which is what `HtAudit` decides; every call
of `HtAudit` goes through `Pacer`, whose `EveryCallReturns` is why `HtAudit` may
assume that a call returns. `Ledger` uses of a scan only the kind of its row and
of a tracked row only whether its histories were whole; `TrackOne` is how that
comes about.

### StreamScan and the code

An asyncio task is not interrupted between two awaits, so an action is the code
between two awaits.

| Variable | Code |
|---|---|
| `now` | the observer's clock, in ticks; a chain second is `TicksPerSecond` ticks |
| `landed`, `confirmed`, `indexed` | the chain, the fork that survives, what `getSignaturesForAddress` lists with a block time |
| `arrived` | `events_by_mint`: the tick at which the log worker appended a transaction's event |
| `phase` | collecting, gathering the decision tasks, auditing, files written |
| `launches` | the list `collect_launches` returns: the mint and the `received_ms` of each announcement, so a mint may be in it twice |
| `decided` | positions in that list whose decision task has ended |
| `action` | `states[mint]['action']`, the action-time fields of the row: receipt, observed events, trades, the event the entry quote was taken from |
| `tape` | `captured[mint]` of v5, with its `launch_received_ms` |
| `audit` | the audit loop: launch, step, sweeps done, errors, union of the sweeps, stability of the last |
| `verdict` | the audit fields of the row |

| Action | Code |
|---|---|
| `Tick`, `Land` | environment |
| `Deliver` | one envelope of `iter_pump_trade_events` appended by `log_worker` |
| `ReceiveLaunch` | one creation message: `collect_launches` and `on_launch`, which replaces the state of a mint announced before |
| `CollectEnds`, `FeedFails` | the loop's condition or timeout; an exception of the socket |
| `Decide` | `action_time_decision` of one announcement from the end of its sleep, with the v5 hook |
| `StopLogs` | `gather` returns and the log worker is cancelled |
| `AuditCreate` | `getTransaction` of the creation |
| `Sweep` | one `getSignaturesForAddress` call and the set arithmetic after it |
| `FinishAudit` | the back-fill calls, accounting, judgement and re-scoring of one launch |
| `WriteFiles` | the files, once |

`FinishAudit` covers several awaits: the back-fill calls read nothing that
another task changes, because by then no other task runs, so the set of calls
that succeeded is all that matters.

### Pacer and the code

`lock` and `waiters` are the `asyncio.Lock`, which serves waiters in order;
`next` and `cooldownUntil` are the pacer's fields; `pc`, `until`, `attempt`,
`calls` and `penalty` are the local state of each task in `rpc`, `wait` and
`penalize`. `Enter` and `Start` are the two halves of `wait`, around its sleep
under the lock; `Overload`, `Raise` and `Answer` are the exits of the request;
`Penalize` is `penalize` together with the loop test after it. `served` and
`late` are history variables that only the properties read.

### HtRun and the code

| Variable | Code |
|---|---|
| `clock`, `launches`, `active`, `events` | `live60_stream_capture_ht.py`: time, the announcements, the buffers |
| `kept`, `decided` | notifications that were kept, decision tasks that ended |
| `rows`, `tapes` | `scored_rows.jsonl` and `action_trade_tapes.jsonl`: in memory until `WriteOut`, files afterwards |
| `stage` | the step of `prospective-highthroughput.yml`, or `lost` |
| `package` | what `package_ht_ledger.py` and `build_live_drift.py` leave |

| Action | Code |
|---|---|
| `Announce`, `Deliver`, `FeedEnds` | a creation message; a log notification; the end of the feed loop or its exception |
| `Decide` | `decide` from the end of its sleep: filter by the boundary, normalise, score, quote, tape, forget the mint |
| `Lose` | an exception in a decision, the job's timeout or a failed step: no later file is written |
| `WriteOut` | `gather` returns, rows and tapes are sorted and written |
| `Select`, `AuditSelected`, `Annotate`, `ApplyGate`, `Drift`, `Package` | the scripts of the later steps, each over the files of the one before |

A row keeps the trades it was scored from. A quote that buys nothing is kept, as in the code. The models are an arbitrary rank for
each target, the frozen rule turns ranks into a decision. A mint of `Repeats`
may be announced twice, before or after its first decision.

### HtAudit and the code

A signature is its position on the chain. `index`, `time`, `ok` are the node's
and grow while the audit pages; `before`, `pages`, `reached`, `broken`, `found`
are the locals of `signature_sweep`; `expected`, `added`, `flaw`, `todo`,
`capped`, `fetched`, `lost` those of `audit_one` (`prev`, `added_vs_previous`,
the error and boundary flags, `missing`, `fetch_cap_hit`, `txs`, `txerr`).
`ReadPage`, `PageFails`, `EndSweep`, `Fetch`, `Judge` are the awaits of the two
functions and the code after each. `atStart` and `earlier` are history.

### TrackOne and the code

One chain of transactions, on which the mint's history and then the pool's are
paged (`ReadPage`, `PageFails`, `EndPaging`) and fetched (`FetchMint`,
`FetchPool`). `Quarantine` is the return for a missing or too cheap entry quote.
`Summarize` orders the fetched transactions, decodes them, deduplicates the
swaps, prices every later state and finds the first passages. The code breaks
ties of one second by the text of the signature; the model takes any order.

A transaction trades on the curve or in one pool, its events carry its second, and a
pool is created once, before it is used. `CompleteCoversWindow` counts the points of a
second against the swaps told in it only when swaps with one key quote alike
(`QuoteAlike`): the code keeps the last of a key, and of two that differ in the
reserves that may be the one without a price.

### Ledger and the code

`branch` is `origin/prospective-ledger`, a function from paths to contents;
`version` counts its commits. Each run of a workflow has its `pc`, its `attempt`
and, while it runs, the worktree `tree` made from `base`. `Trigger` and `Start`
are the concurrency group (one running, one pending, a newer one cancels the
pending one), `Kill` is a failed step or a timeout. `Scan` and `Mount` are the
scan workflows; `Mount`, `ScanRows`, `Track`, `NextHorizon`, `Snapshot` and
`Push` the steps of `prospective-outcomes.yml`. `Push` is refused unless the
branch is where the worktree was made, and does nothing when nothing was staged: as
long as the ledger has no outcome, `git add` fails on the missing directory and stages
nothing, not even the snapshot (`Staged`).

### Quotes and RoundTrip

`Quotes` keeps the integer arithmetic of the code as it is, rounding, caps and
fees included; prices, floats in the code, stay fractions. `RoundTrip` applies
buys one after the other (`Buy`) and quotes the holding back (`Sell`).

## Abstractions and bounds

- `StreamScan` leaves out amounts, wallets, prices and the numeric features: a
  trade is a signature and an age. Each transaction carries at most one trade
  of its mint, priced in SOL; the transactions of `NoState` carry no reserves, so
  their events give no curve state to quote from. Failed transactions
  are left out: the code skips them. `HtRun` has all of these, over a fixed set
  of transactions.
- In `StreamScan` a creation message is complete, and may be delivered again at any
  time while the feed is read. Decision tasks wake in the order of their deadlines
  (`Due`), which is how the event loop keeps its timers; the observer's clock does
  not jump.
- `MaxTime` stops the clock. The clock matters only while the scanner streams,
  so `Tick` is disabled afterwards; launches that could not reach their
  boundary before `MaxTime` are not received (`ReceiveLaunch`).
- `scan.cfg`: two ticks a second make receipt in the middle of a second, and so
  a negative age of the creation, possible; three transactions are the creation
  and two others, enough for one to be streamed and one to be missed, for one
  to be inside and one outside the window, or on an abandoned fork. Three sweeps
  are the code's default. The accounting threshold is 60 percent, because 98
  percent of three signatures is all three. One of the two ordinary transactions
  gives no curve state, so the last event may have none while an earlier one has. One
  announcement: what repeats do is the question of `scan_live` and `scan_repeat`.
- `scan_late.cfg`, `scan_capped.cfg`: as `scan.cfg`, but every trade has a state; the
  two ordinary transactions are then interchangeable, hence the symmetry.
- `scan_repeat.cfg`: one mint, announced once or twice; a second has one tick.
- `scan_live.cfg`: two mints and their creations, and two announcements, of both mints
  or twice of one; the liveness questions are about tasks and not about trades, so a
  second has one tick.
- `scan_capped.cfg`: a page of two and a threshold of 98 percent, the code's.
- `pacer.cfg`: three tasks are the least for which a waiter can be overtaken by
  more than one; two attempts are a first one and a last one; one penalty is
  below and one above `MinPenalty`. Past `MaxTime` the clock moves only to end a
  sleep, which keeps the state space finite without blocking anyone.
  The tasks end when they have made their calls, so deadlock is not checked
  there; `EveryCallReturns` says that they stop nowhere else.

- `ht_run.cfg`: two mints, one announced up to twice; five transactions: a
  creation with the creator's buy told twice, two wallets in one transaction of
  older layouts, a sale told twice, a pair not quoted in SOL, a failed one. Three
  ranks reach every decision but `PAPER_PRIORITY`, which differs from
  `PAPER_CANDIDATE` only in name. Each quota is one, so picks compete. `MaxClock`
  lets a decision wake late by one tick or more. Chain times are whole ticks.
  A block's time is the time its events carry.
- `ht_audit.cfg`: three signatures and pages of one entry, so a sweep takes
  several pages and may hit the cap of three; two sweeps are the least that can
  agree; one fetch is allowed, so the fetch cap is hit. Positions may lack a
  block time and get it later. `MinPercent` is 50, to make the fraction forgive
  what the other conditions must not.
- `track_one.cfg`: up to four transactions out of seventeen kinds on a chain
  that spans the decision (3), the horizon (5) and the slack (6); pages of one, a cap of three
  pages and of two transactions, so every way to be incomplete occurs.
- `ledger.cfg`: two scan runs and one outcome run, two attempts each, four jobs in all,
  two horizons, four kinds of rows (a candidate that is also a control and is vetoed,
  a random control of another decision, a near miss, an invalid row), one death.
- `round_trip.cfg`: all curves and fees of a small grid with empty and capped reserves, and
  20 basis points in a whole, which makes rounding matter at these amounts.
  The theorems are for every value.

## Runs

| Run | Result | What it shows |
|---|---|---|
| `scan` | passes | Types. The tape is the decision's input, without a late trade or one of the audit (`TapeFromFirstDecision`). The entry quote is at least as recent as every curve state the stream had delivered before the boundary (`EntryQuoteNotStale`). The audit's re-scoring keeps every trade of the decision that lies in the chain's window, and counts the initial buy once. A VALID row accounts against all of the index of its window, if the history fits a page. |
| `scan_live` | passes | Every launch is decided, one announced again too; the audit starts only when every decision task has ended, on the row of each mint's last announcement (`AuditedRowIsLatest`); the tape is that of the first; the scan ends. |
| `pacer` | passes | The pacer implements `RateLimit`; a task serves its own penalty; at most one request per other task starts between an overload and its cooldown; every call returns. |
| `ht_run` | passes | The package is all or nothing and has the score of every announcement; a selected row enters the ledger with the tape it was scored from; controls are the smallest hashes; no later step changes an action-time field; gate, features, diagnostics and drift report agree; a streamed event is the one the audit extracts; a cut tail is read where it was written. |
| `ht_audit` | passes | A VALID row was scored with every timed success of the window listed when the last sweep began, with nothing of an abandoned fork, and with no credit for losses. The audit ends, whatever fails. |
| `track_one` | passes | A COMPLETE outcome misses nothing of the horizon the decoders know and has nothing after the slack; labels do not depend on the order within a second; an executable hit is a price hit no later. |
| `ledger` | passes | Evidence is append-only through deaths, cancellations and re-runs; no push is refused; outcomes are of matured eligible rows; the reports of a snapshot agree with each other and the branch. |
| `round_trip` | passes | Buying in any number of steps and selling back never pays; budgets cover swap and fees. |
| `scan_repeat` | violation | `ActionImmutable`. The summary says "Action-time decisions are immutable" (v4 line 208), every row the same of itself (line 130). `on_launch` makes the state of a mint anew for every creation message (line 134): a repeated message drops a recorded decision, and a second task writes another one, beside which the files then hold the tape of the first. The audit is not at fault; it only adds fields of its own. |
| `scan_late` | violation | `ObservedByBoundary`. The docstring of v4 (lines 4-5) says the record is built only from information observed by the boundary. The code compares the chain second of an event with the boundary, not its arrival, and the task may wake late: an event that arrives after the boundary is admitted. |
| `scan_capped` | violation | `CappedHistoryInvalid`. The preregistration (line 77) makes collection health a condition of a decision. The sweep of v4 reads one page only; with more history than that, a row is VALID although indexed transactions of its window were never seen. The HT audit pages and fails closed instead. |
| `ledger_rerun` | violation | `SnapshotImmutable`. The workflow calls its snapshots immutable (line 48) and names them by the run id alone (line 53): a second attempt overwrites the first. Scans include the attempt, and the evidence itself stays append-only. |

`ValidCoversIndex` and `CappedHistoryInvalid` differ in the premise that the
history fits a page. Neither claims that the index itself is complete: agreeing
sweeps say that the index did not move, and entries it lists without a block
time are skipped by the code.

`ValidCoversWindow` has limits that come from the code. A signature counts as
accounted as soon as one of its events was streamed, so a truncated log is not
noticed; the launch's own transaction is never searched for events. Both are
listed as hazards.

Fairness, used in `scan_live`, `pacer` and `ht_audit` only: in the first two time
passes and the event loop runs every task that can run; a request ends within its
timeout of 25 seconds, and retries are bounded, so every RPC step ends. In the
third the audit task itself goes on, for the same reason; nothing is assumed of the
node. Nothing is assumed of the chain, the stream, the feed, or of the jobs of a
workflow: a job may die at every step, so `HtRun` and `Ledger` promise safety only.

## Proofs

TLAPS proves, for every set of launches and transactions and every option value
allowed by the `ASSUME`s of `TradeTape` and `StreamScan`:

- `TypeCorrect`, by the invariant `IInv`: types, and that only landed
  transactions are buffered, confirmed or announced, and tasks belong to announcements;
- the six safety properties of `scan` and `scan_live`, by `SInv`, for any number of
  announcements of a mint. Types alone are not inductive for them: a decision is
  correct because its inputs do not change later. `Recorded` says that the row still
  is what its inputs give and misses nothing that had arrived by its boundary, which
  needs that a landed transaction keeps its second and an arrival its time.
  `Chronology` says that nothing of a mint lands before its creation or arrives before
  it landed. `Gathered` says that decision tasks end in the order of their receipts and
  none is left once the audit has begun; `Latest`, that a task which has ended left a
  row at least as recent as its announcement, unless a later task of its mint is still
  to come. `Captured` ties the tape to the first decision, and to the row where
  the mint was announced once; `Anchored` says that the audit's anchor is the
  creation's second, `Audited` that the audited trades come from a superset of the
  decision's events, and `Swept` that error-free sweeps have seen the index. Each
  conjunct has its lemma; the properties follow from `SInv` in lemmas that do not
  mention steps.

`PacerProofs` proves for any number of tasks, calls and retries that `Pacer`
implements `RateLimit`, that penalties are served, and the types. The
invariant `Locked` is the reason: a task sleeps exactly while it holds the lock,
so the target it computed is still right when it wakes.

`PacerProofs` also proves `LateStartsBounded`, for any number of tasks. The bound
itself is not inductive: `QInv` adds that a waiting task stands in the queue of the
lock exactly once (`Queued`), and that the late starts plus the tasks still ahead
of a waiter are fewer than all tasks (`Counting`). A start takes one task from
ahead of the waiter to the count; a task that asks again goes to the end.
From `QInv` also follows `NobodyStuck`: until all calls are made some task can call,
have its answer, sleep under the lock it holds, or take the free lock as the first
who waits for it, since whoever stands in the queue does wait; and by `Limits` no
call is retried beyond its attempts. That the clock then reaches the sleeper's target,
and all calls return, is `EveryCallReturns`, which TLC checks.

`HtAuditProofs` proves `TypeOK`, `ValidCoversWindow`, `AuditedConfirmed` and
`NoPartialCredit` for every index, fork, tape, page size, cap, number of sweeps and
fraction. `IInv` follows the audit: what was in the window when the sweep began
stays listed, successful and in the window (`StartStays`); it has been read once the
cursor is below it or the launch is reached (`Paging`, where a page that is not full
is everything below the cursor); whatever is expected, fetched or lost is a confirmed
success (`Collected`); sweeps without a flaw have collected the window and what the
tape lacks is on one of the three lists (`Swept`); and a VALID verdict still has its
reasons (`Judged`). `HtAuditShrinks` gives the measure of an audit: `Left` counts the
pages and ends of sweeps still to come, the gaps and the verdict; every step of the
audit decreases it, the node's steps leave it alone, and it is 0 exactly at a verdict.

`LedgerProofs` proves for any number of runs, attempts, jobs, rows and deaths that
no push is refused (`PushOnHead`), that outcomes belong to matured eligible rows
(`OutcomeOfMaturedRow`), and that the ledger implements `AppendOnlyLog`
(`EvidenceAppendOnly`). The concurrency group lets one job run at a time (`Alone`),
so the branch stays what the running job mounted (`OnHead`), and its worktree is
the branch plus new paths (`Worktrees`): the path of a scan is new because every
attempt on the branch is over (`AttemptsOver`), that of an outcome because the
tracker takes only rows without one (`AllDue`). `AllMatured` carries maturity from
the tracker's clock to the branch. `BoardBacked` needs `AllSound`: a snapshot is backed
by the evidence it was made from, and evidence only grows.

`RoundTripProofs` proves for every curve, fee split and series of buys that the
types hold, that selling back never pays, and that budgets cover their fees. The
invariant `IInv` says that the product of the reserves is at least the opening one,
that what is held left the virtual reserve, and that what was swapped is less than
what was spent once anything was bought. Division is handled in lemmas of its own
(`DivFloor`, `CeilAtLeast`), so that the step lemmas are linear.

`PythonSeqsProofs` holds what the lists of the decoders and of the scripts need, once
and without induction: places ranked by what is before them are each taken once
(`CountingRanks`, `RanksAreTaken`), so a stable sort permutes a list and orders its
keys (`SortingPermutes`), a comprehension keeps what it selects (`SelectedPlaces`), and
deduplication keeps the last of every key and nothing twice (`LastsAreKept`,
`OneOfEachKey`). `SortingKeepsCounts` and `SmallestFirst` count places by bijections.
What `max` and `sum` return is proved by a least counterexample: a finite set of numbers
has a greatest (`FiniteGreatest`), the recursive function a fold chooses exists
(`SumsExist`) and bounds each of its terms (`SumsBound`).

`HtRunProofs` proves for any mints, transactions, announcements, late decisions and
failures that a package has the score of every announcement (`PopulationComplete`) and
the tape it was scored from (`PackagedTapeIsInput`), that the controls are the smallest
hashes (`ControlsIgnoreScores`), and that no step rewrites a decision
(`ActionImmutable`). The invariant `IInv` follows the rows: there are as many as
announcements whose task ended (`Tally`), each announcement has one of its mint and
time (`Scored`), computed from trades up to the boundary (`InTime`); a tape comes with
each row and is the row's input where the mint was announced once (`Paired`); and as
many rows as announcements are below any hash (`Below`), which sorting and annotation
keep: so the controls cannot depend on a score. There is a lemma for each action.
`StreamAgreesWithFetch` needs `Buffered`, that a buffer holds what its notifications
said, and two facts about decoding: the log lines come last in the extraction and
deduplication keeps the last (`LogsComeLast`, `LastDecoded`). `TailReadsWritten` follows
from `TailIsRead`, which says for any number of shareholders and any length which
fields of a tail are read.

`DiagnosticsConsistent` needs a second invariant on top of `IInv`, `RInv`, because the
reports are made by steps far apart: rows are scored from lists of trades (`Traded`), the
candidates are the rows that reach the Q99 threshold (`Ruled`), and after each step of
the annotation, the gate and the drift report what it said of every row is what it would
still say (`Annotated`, `Gated`, `Reported`). The rest is about the features of one tape:
both feature builders count the same sets (`SameCounts`, `BuyersSplit`), trades of one
second and size are trades of one size (`ClustersNest`), a round trip of the diagnostics
is one of the features (`RoundtripsNest`), and a gap is missing exactly where nobody
traded (`GapMissing`). `ExtremeIsCritical` is arithmetic: a buyer with nine tenths of the
volume has more than a quarter of it squared (`FewWhenExtreme`), so the flag of the three
largest buyers comes with the flag of the single one.

`TrackOneProofs` proves for any chain, page size, caps, losses and entry the three
properties of `track_one`. `IInv` follows the two histories: above the paging cursor
everything due has been found, and once the start is reached all of it (`Paged`, where
a page that is not full is the last one and a page with something before the window
reaches everything in it); without a flaw what was owed was found and fetched
(`Collected`); the pool followed was told by a fetched transaction (`Followed`), which
with its single creation puts every swap of it inside the window. Then
`SummarizeHolds` counts: deduplicated swaps, their points and the sorted points
correspond one to one. `Passage` shows that sorting by second and multiple makes the
first passage depend on the earliest seconds only, because a multiple at half or less
is below every target of at least two. `Worth` bounds the proceeds by the price: a
constant product pays less than the spot, and caps and fees only take away.

The assumptions are those of the modules, which TLC evaluates on every run: amounts are
natural numbers, payloads carry what the layouts name, the hashes of one salt differ,
one horizon is the longest, a block has the second its events carry, targets are at
least two, a missing value is no number, and the thresholds of a model, quantiles of one
set of scores (`github_livecore60_models.py:86`), rise with the quantile.

Only model-checked: the liveness properties, which are out of the prover's reach. For
`EveryCallReturns` and `AuditEnds` the part that is safety is proved (`NobodyStuck`,
`HtAuditShrinks`); that fair steps then get there is left to TLC. Every safety property
a run checks as an invariant is also proved.

## Plan

1. Proofs: what the quotes of `HtRun`'s decisions and of `TrackOne`'s entries have in
   common.
2. Exceptions in a decision of the v4 scanner; the controls of its lane
   (`select_prospective_controls.py`).
3. The reconnection loop of the log stream, with gaps.

## Not modelled

- The older scanners and probes: superseded by v4/v5 and the HT lane.
- The historical research pipelines, labels, simulator and model evaluation:
  offline numeric code over finished files, without state or order to get wrong
  beyond what a test reaches.
- `costs.py`, `dynamic_fees.py`, `outcomes.py`: called by no script of the two lanes.
- Base58, base64, Borsh integers and the provider adapters: byte-level I/O.
- Ratios, logarithms and quantiles of features and reports; the trained models and
  the check of their hashes, which fails before anything is captured.
- The work queue of the HT audit: its tasks share nothing but the pacer.
- Where the fees of a quote came from. `pump_curve_quote.py` (lines 103-104) promises to
  keep it on every downstream quote; the HT capture writes one constant instead (line
  71), so a fallback cannot be told from an event's fees. The two lines show it.
