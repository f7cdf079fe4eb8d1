------------------------------ MODULE StreamScan ------------------------------
(***************************************************************************)
(* The prospective scanner scripts/live60_stream_scan_v4.py with the tape  *)
(* capture of live60_stream_scan_v5.py: one asyncio process whose tasks    *)
(* are the launch feed, the log stream, one decision task per launch and   *)
(* the main task, which after the decisions audits every launch over RPC.  *)
(* The feed may announce a mint again: every announcement is a launch with *)
(* a decision task of its own, but they share the mint's row and tape.     *)
(*                                                                         *)
(* The environment is the chain (transactions land, and a transaction seen *)
(* at "processed" may be on a fork that is never confirmed), the log       *)
(* stream (delivers a landed transaction late or never) and the RPC node   *)
(* (errors, and a signature index that trails the confirmed chain).        *)
(*                                                                         *)
(* An asyncio task runs without interruption between two awaits, so one    *)
(* action is the code between two awaits.                                  *)
(***************************************************************************)
EXTENDS TradeTape, Sequences

CONSTANTS
    MaxTime,    \* bound: the clock stops here
    CollectFor, \* --collect-s, in ticks
    MaxMints,   \* --max-mints
    Sweeps,     \* --sweeps
    TxLimit,    \* --tx-limit
    Slack,      \* the two seconds around the audit window, in ticks
    MinPct,     \* --min-accounting-fraction, in percent
    NoState,    \* trade events without reserves: they give no curve state
    None        \* no value yet (JSON null)

ASSUME ScanAssumption ==
    /\ MaxTime \in Nat
    /\ CollectFor \in Nat
    /\ MaxMints \in Nat
    /\ Sweeps \in Nat \ {0}
    /\ TxLimit \in Nat
    /\ Slack \in Nat
    /\ MinPct \in 0..100
    /\ NoState \subseteq Txs
    /\ None \notin Int \cup Txs

VARIABLES
    now,        \* the observer's clock
    landed,     \* chain second of each transaction, None before it lands
    confirmed,  \* the landed transactions that are not on an abandoned fork
    arrived,    \* when the log worker buffered it (events_by_mint)
    phase,      \* where the main task is
    launches,   \* the list collect_launches returns, with its received_ms
    decided,    \* the positions whose decision task has ended
    action,     \* states[mint]['action']: the action-time fields of the row
    tape,       \* captured[mint]: the v5 action tape
    indexed,    \* the transactions getSignaturesForAddress lists with a time
    audit,      \* the main task's progress in the audit loop
    verdict     \* the audit fields of the row

chainVars == <<landed, confirmed>>
liveVars == <<arrived, launches>>
rowVars == <<action, tape, verdict>>
auditVars == <<indexed, audit>>
vars == <<now, chainVars, liveVars, decided, phase, rowVars, auditVars>>

Phases == {"collect", "gather", "audit", "done"}

(* An announcement: the mint and when it was received. *)
Launch == [mint : Mints, at : Nat]

(* at is launch_received_ms; quote is the event last_state was taken from. *)
ActionRecord ==
    [at : Nat, observed : SUBSET Txs, trades : SUBSET Trades,
     quote : Txs \cup {None}]

TapeRecord == [at : Nat, trades : SUBSET Trades]

AuditState ==
    [pos : Nat \ {0}, pc : {"create", "sweep", "backfill"}, createOk : BOOLEAN,
     launchS : Int \cup {None}, sweeps : Nat, errors : BOOLEAN,
     seen : SUBSET Txs, stable : BOOLEAN]

Verdict ==
    [status : {"VALID", "DATA_INVALID"}, launchS : Int \cup {None},
     direct : SUBSET Txs, expected : SUBSET Txs, accounted : SUBSET Txs,
     trades : SUBSET Trades]

ASSUME NoneAssumption ==
    None \notin ActionRecord \cup TapeRecord \cup Verdict

TypeOK ==
    /\ now \in Nat
    /\ landed \in [Txs -> Int \cup {None}]
    /\ confirmed \in SUBSET Txs
    /\ arrived \in [Txs -> Int \cup {None}]
    /\ phase \in Phases
    /\ launches \in Seq(Launch)
    /\ decided \in SUBSET Nat
    /\ action \in [Mints -> ActionRecord \cup {None}]
    /\ tape \in [Mints -> TapeRecord \cup {None}]
    /\ indexed \in SUBSET Txs
    /\ audit \in AuditState
    /\ verdict \in [Mints -> Verdict \cup {None}]

(* A cursor that counts the launches from zero. *)
AuditFromZero(pos) ==
    [pos |-> pos - 1, pc |-> "create", createOk |-> FALSE, launchS |-> None,
     sweeps |-> 0, errors |-> FALSE, seen |-> {}, stable |-> FALSE]

(* The audit of the pos-th launch, before its first call. *)
AuditStart(pos) ==
    [pos |-> pos, pc |-> "create", createOk |-> FALSE, launchS |-> None,
     sweeps |-> 0, errors |-> FALSE, seen |-> {}, stable |-> FALSE]

Init ==
    /\ now = 0
    /\ landed = [t \in Txs |-> None]
    /\ confirmed = {}
    /\ arrived = [t \in Txs |-> None]
    /\ phase = "collect"
    /\ launches = <<>>
    /\ decided = {}
    /\ action = [m \in Mints |-> None]
    /\ tape = [m \in Mints |-> None]
    /\ indexed = {}
    /\ audit = AuditStart(1)
    /\ verdict = [m \in Mints |-> None]

Launched == {launches[k].mint : k \in DOMAIN launches}
Pending == DOMAIN launches \ decided
Streaming == phase \in {"collect", "gather"}
Buffer(m) == {t \in TradeTxs \cap TxsOf(m) : arrived[t] # None}
BoundaryMs(at) == at + Age

(* The buffered events of a mint up to the decision boundary of a receipt. *)
Snapshot(m, at) == {t \in Buffer(m) : landed[t] <= BoundaryMs(at)}

(***************************************************************************)
(* Environment                                                             *)
(***************************************************************************)

(* The clock matters only while the scanner streams: nothing the audit    *)
(* reads depends on the time at which it is read.                         *)
Tick ==
    /\ Streaming
    /\ now < MaxTime
    /\ now' = now + 1
    /\ UNCHANGED <<chainVars, liveVars, decided, phase, rowVars, auditVars>>

(* A transaction succeeds on chain; the fork it is on may be abandoned. *)
Land(t) ==
    /\ landed[t] = None
    /\ IsCreate(t) \/ landed[CreateTx[MintOf[t]]] # None
    /\ landed' = [landed EXCEPT ![t] = ChainSecond(now)]
    /\ confirmed' \in {confirmed, confirmed \cup {t}}
    /\ UNCHANGED <<now, liveVars, decided, phase, rowVars, auditVars>>

(***************************************************************************)
(* log_worker: buffers whatever the stream delivers until it is cancelled. *)
(***************************************************************************)

Deliver(t) ==
    /\ Streaming
    /\ t \in TradeTxs
    /\ landed[t] # None
    /\ arrived[t] = None
    /\ arrived' = [arrived EXCEPT ![t] = now]
    /\ UNCHANGED <<now, chainVars, launches, decided, phase, rowVars, auditVars>>

(***************************************************************************)
(* collect_launches and on_launch                                          *)
(***************************************************************************)

(* The loop tests its deadline before it waits, and a wait lasts up to a   *)
(* second after the deadline.  now + Age <= MaxTime is the model's bound.  *)
(* Nothing compares the mint with those already announced: on_launch makes *)
(* its state anew, so a row that was already decided is gone until the new *)
(* decision task ends.                                                     *)
ReceiveLaunch(m) ==
    /\ phase = "collect"
    /\ landed[CreateTx[m]] # None
    /\ Len(launches) < MaxMints
    /\ now < CollectFor + TicksPerSecond
    /\ now + Age <= MaxTime
    /\ launches' = Append(launches, [mint |-> m, at |-> now])
    /\ action' = [action EXCEPT ![m] = None]
    /\ UNCHANGED <<now, chainVars, arrived, decided, phase, tape, verdict, auditVars>>

(* A feed loop without its time limit leaves only when it has MaxMints. *)
CollectUntilFull ==
    /\ phase = "collect"
    /\ Len(launches) >= MaxMints
    /\ phase' = "gather"
    /\ UNCHANGED <<now, chainVars, liveVars, decided, rowVars, auditVars>>

CollectEnds ==
    /\ phase = "collect"
    /\ Len(launches) >= MaxMints \/ now >= CollectFor
    /\ phase' = "gather"
    /\ UNCHANGED <<now, chainVars, liveVars, decided, rowVars, auditVars>>

(* An exception of the feed's socket ends collection with what it has. *)
FeedFails ==
    /\ phase = "collect"
    /\ phase' = "gather"
    /\ UNCHANGED <<now, chainVars, liveVars, decided, rowVars, auditVars>>

(***************************************************************************)
(* action_time_decision                                                    *)
(***************************************************************************)

(* A hook that keeps the trades of the last scoring of a mint. *)
CaptureLatest(m, at, trades) ==
    [tape EXCEPT ![m] = [at |-> at, trades |-> trades]]

(* The v5 hook keeps the trades of the first scoring of a mint. *)
CaptureTape(m, at, trades) ==
    IF tape[m] = None THEN [tape EXCEPT ![m] = [at |-> at, trades |-> trades]]
    ELSE tape

(* Quoting from the last event whatever it gives: none if it has no state. *)
LastEventState(seen) ==
    IF seen = {} THEN {None}
    ELSE {IF t \in NoState THEN None ELSE t :
            t \in {x \in seen : \A u \in seen : landed[u] <= landed[x]}}

(* The events whose curve state can be the last one in (time, slot) order: *)
(* an event that gives no state leaves the one before it.                  *)
LatestStates(seen) ==
    LET withState == seen \ NoState
    IN IF withState = {} THEN {None}
       ELSE {t \in withState : \A u \in withState : landed[u] <= landed[t]}

(* Decision tasks that do not outlive the collection loop. *)
DueWhileCollecting(k) ==
    /\ phase = "collect"
    /\ now >= BoundaryMs(launches[k].at)
    /\ \A j \in Pending : launches[k].at <= launches[j].at

(* The sleep ends at the boundary or, on a busy loop, later; the event     *)
(* loop wakes sleepers in the order of their deadlines.                    *)
Due(k) ==
    /\ now >= BoundaryMs(launches[k].at)
    /\ \A j \in Pending : launches[k].at <= launches[j].at

(* From the end of the sleep to the end of the task there is no await. *)
Decide(k) ==
    /\ k \in Pending
    /\ Due(k)
    /\ LET m == launches[k].mint
           at == launches[k].at
           observed == Snapshot(m, at)
           trades == NormalizeTrades(m, observed, landed, at)
       IN /\ \E q \in LatestStates(observed) :
               action' = [action EXCEPT ![m] = [at |-> at, observed |-> observed,
                                                trades |-> trades, quote |-> q]]
          /\ tape' = CaptureTape(m, at, trades)
    /\ decided' = decided \cup {k}
    /\ UNCHANGED <<now, chainVars, liveVars, phase, verdict, auditVars>>

(***************************************************************************)
(* The main task: gather the decisions, stop the stream, audit             *)
(***************************************************************************)

(* A main task that keeps one decision task per mint and waits for those. *)
StopLogsByMint ==
    /\ phase = "gather"
    /\ \A m \in Launched : \E k \in decided : launches[k].mint = m
    /\ phase' = "audit"
    /\ UNCHANGED <<now, chainVars, liveVars, decided, rowVars, auditVars>>

StopLogs ==
    /\ phase = "gather"
    /\ Pending = {}
    /\ phase' = "audit"
    /\ UNCHANGED <<now, chainVars, liveVars, decided, rowVars, auditVars>>

Auditing(m, pc) ==
    /\ phase = "audit"
    /\ audit.pos <= Len(launches)
    /\ m = launches[audit.pos].mint
    /\ audit.pc = pc

(* The row must be there.  getTransaction of the creation: an error or     *)
(* null, a transaction without a block time, or the whole transaction.     *)
AuditCreate(m) ==
    /\ Auditing(m, "create")
    /\ action[m] # None
    /\ \E found \in BOOLEAN, launchS \in {None, landed[CreateTx[m]]} :
         /\ found => CreateTx[m] \in confirmed
         /\ launchS # None => found
         /\ audit' = [audit EXCEPT !.createOk = found,
                                   !.launchS = launchS,
                                   !.pc = IF launchS = None THEN "backfill" ELSE "sweep"]
    /\ UNCHANGED <<now, chainVars, liveVars, decided, phase, rowVars, indexed>>

(* One getSignaturesForAddress call returns the newest TxLimit entries. *)
NewestPage(entries) ==
    IF Cardinality(entries) <= TxLimit THEN {entries}
    ELSE {page \in SUBSET entries :
            /\ Cardinality(page) = TxLimit
            /\ \A x \in page, y \in entries \ page : landed[y] <= landed[x]}

InWindow(t, launchS) ==
    /\ launchS - Slack <= landed[t]
    /\ landed[t] <= launchS + Age + Slack

(* Between two calls the index may have learnt confirmed transactions. *)
IndexGrows == indexed' \in {s \in SUBSET confirmed : indexed \subseteq s}

(* A sweep that does not record its error. *)
SweepErrorForgotten(m) ==
    /\ Auditing(m, "sweep")
    /\ IndexGrows
    /\ \E page \in NewestPage(indexed' \cap TxsOf(m)) \cup {{}} :
         LET cur == {t \in page : InWindow(t, audit.launchS)} \cup {CreateTx[m]}
         IN audit' = [audit EXCEPT
              !.seen = @ \cup cur,
              !.stable = cur \subseteq audit.seen,
              !.sweeps = @ + 1,
              !.pc = IF audit.sweeps + 1 < Sweeps THEN "sweep" ELSE "backfill"]
    /\ UNCHANGED <<now, chainVars, liveVars, decided, phase, rowVars>>

(* A failed call leaves an empty page and is remembered. *)
Sweep(m) ==
    /\ Auditing(m, "sweep")
    /\ IndexGrows
    /\ \E failed \in BOOLEAN :
       \E page \in IF failed THEN {{}} ELSE NewestPage(indexed' \cap TxsOf(m)) :
         LET cur == {t \in page : InWindow(t, audit.launchS)} \cup {CreateTx[m]}
         IN audit' = [audit EXCEPT
              !.errors = @ \/ failed,
              !.seen = @ \cup cur,
              !.stable = cur \subseteq audit.seen,
              !.sweeps = @ + 1,
              !.pc = IF audit.sweeps + 1 < Sweeps THEN "sweep" ELSE "backfill"]
    /\ UNCHANGED <<now, chainVars, liveVars, decided, phase, rowVars>>

Expected(m) == IF audit.sweeps = 0 THEN {CreateTx[m]} ELSE audit.seen

(* The buffer cut just before the end of the chain's own window. *)
DirectInAuditWindow(m) ==
    {t \in Buffer(m) : audit.launchS # None /\ landed[t] < audit.launchS + Age}

Direct(m) == Snapshot(m, action[m].at)

IsValid(accounted, expected) ==
    /\ audit.createOk
    /\ audit.launchS # None
    /\ ~audit.errors
    /\ audit.sweeps >= 2
    /\ audit.stable
    /\ Cardinality(accounted) * 100 >= MinPct * Cardinality(expected)

(* An audit that re-scores from the observer's anchor. *)
AuditTradesFromReceipt(m, events) ==
    NormalizeTrades(m, events, landed, action[m].at)

AuditTrades(m, events) == NormalizeTrades(m, events, landed, audit.launchS)

(***************************************************************************)
(* Fetch the expected signatures the stream did not deliver (each call may *)
(* fail), account for them, judge the row, re-score from the chain anchor. *)
(* The trade of the creation transaction itself is never extracted from    *)
(* create_tx: only fetched transactions are decoded.  The audit writes     *)
(* fields of its own beside the action-time ones.                          *)
(***************************************************************************)
FinishAudit(m) ==
    /\ Auditing(m, "backfill")
    /\ LET create == IF audit.createOk THEN {CreateTx[m]} ELSE {}
           missing == (Expected(m) \ Direct(m)) \ create
       IN \E got \in SUBSET (missing \cap confirmed) :
            LET accounted == (Direct(m) \cap Expected(m)) \cup create \cup got
                rescored == audit.launchS # None
                trades == AuditTrades(m, Direct(m) \cup (got \cap TradeTxs))
            IN /\ verdict' = [verdict EXCEPT ![m] =
                    [status |-> IF IsValid(accounted, Expected(m))
                                THEN "VALID" ELSE "DATA_INVALID",
                     launchS |-> audit.launchS, direct |-> Direct(m),
                     expected |-> Expected(m), accounted |-> accounted,
                     trades |-> IF rescored THEN trades ELSE {}]]
               /\ tape' = IF rescored
                          THEN CaptureTape(m, launches[audit.pos].at, trades) ELSE tape
    /\ audit' = AuditStart(audit.pos + 1)
    /\ UNCHANGED <<now, chainVars, liveVars, decided, phase, action, indexed>>

(* The files are written once, when every launch is audited. *)
WriteFiles ==
    /\ phase = "audit"
    /\ audit.pos > Len(launches)
    /\ phase' = "done"
    /\ UNCHANGED <<now, chainVars, liveVars, decided, rowVars, auditVars>>

Terminated == phase = "done" /\ UNCHANGED vars

-----------------------------------------------------------------------------

Next ==
    \/ Tick
    \/ \E t \in Txs : Land(t)
    \/ \E t \in Txs : Deliver(t)
    \/ \E m \in Mints : ReceiveLaunch(m)
    \/ CollectEnds
    \/ FeedFails
    \/ \E k \in DOMAIN launches : Decide(k)
    \/ StopLogs
    \/ \E m \in Mints : AuditCreate(m)
    \/ \E m \in Mints : Sweep(m)
    \/ \E m \in Mints : FinishAudit(m)
    \/ WriteFiles
    \/ Terminated

Spec == Init /\ [][Next]_vars

(* Time passes, and the event loop runs every task that is ready: a sleep  *)
(* ends, and every RPC call answers, fails or exhausts its retries.        *)
Fairness ==
    /\ WF_vars(Tick)
    /\ WF_vars(CollectEnds)
    /\ WF_vars(StopLogs)
    /\ WF_vars(WriteFiles)
    /\ \A k \in 1..MaxMints : WF_vars(k \in DOMAIN launches /\ Decide(k))
    /\ \A m \in Mints :
         /\ WF_vars(AuditCreate(m))
         /\ WF_vars(Sweep(m))
         /\ WF_vars(FinishAudit(m))

FairSpec == Spec /\ Fairness

-----------------------------------------------------------------------------
(***************************************************************************)
(* Properties                                                              *)
(***************************************************************************)

AnnouncedOnce(m) ==
    \A j, k \in DOMAIN launches :
        launches[j].mint = m /\ launches[k].mint = m => j = k

(* Gather waits for every decision task, repeated announcements included:  *)
(* the row an audit works on and the files keep is that of the last        *)
(* announcement of its mint, and no task that would replace it is left.    *)
AuditedRowIsLatest ==
    phase \in {"audit", "done"} =>
        \A k \in DOMAIN launches :
            /\ action[launches[k].mint] # None
            /\ launches[k].at <= action[launches[k].mint].at

(* The v5 tape of a mint is the input of its first decision and of nothing *)
(* later: of its earliest announcement, without a trade the stream had not *)
(* delivered or one after the boundary, although the hook also sees later  *)
(* decisions and the audit's re-scoring.  It is what the row was decided   *)
(* from when the mint was announced once.                                  *)
TapeFromFirstDecision ==
    \A m \in Mints : tape[m] # None =>
        /\ \A k \in DOMAIN launches :
             launches[k].mint = m => tape[m].at <= launches[k].at
        /\ \A r \in tape[m].trades : r # LaunchInitialTrade(m) =>
             arrived[r.sig] # None /\ landed[r.sig] <= BoundaryMs(tape[m].at)
        /\ AnnouncedOnce(m) => action[m] # None /\ tape[m].trades = action[m].trades

(* No event that the stream had delivered before the decision boundary has *)
(* a more recent curve state than the one the row's paper entry is quoted  *)
(* from, in whatever order events arrived, late decisions and repeated     *)
(* announcements included, and whether or not the last event has a state.  *)
EntryQuoteNotStale ==
    \A m \in Mints : action[m] # None =>
        \A t \in Buffer(m) \ NoState : arrived[t] < BoundaryMs(action[m].at) =>
            /\ action[m].quote # None
            /\ landed[t] <= landed[action[m].quote]

(* Re-scoring from the chain anchor keeps every trade the decision used,   *)
(* unless it landed after the chain's own decision window.                 *)
AuditKeepsActionTrades ==
    \A m \in Mints : verdict[m] # None /\ verdict[m].launchS # None =>
        \A r \in FeatureTrades(action[m].trades) :
            landed[r.sig] - verdict[m].launchS <= Age =>
                \E a \in FeatureTrades(verdict[m].trades) : a.sig = r.sig

(* The audited tape counts the creator's initial buy exactly once, at      *)
(* second zero: streamed, backfilled or from the launch payload.           *)
AuditCountsInitialBuy ==
    \A m \in DevBuys : verdict[m] # None /\ verdict[m].launchS # None =>
        {r \in verdict[m].trades : r.sig = CreateTx[m]} = {LaunchInitialTrade(m)}

IndexedWindow(m, launchS) == {t \in indexed \cap TxsOf(m) : InWindow(t, launchS)}

(* A row becomes VALID only if the audit's signature set holds every       *)
(* transaction of the launch window that the node's index listed at the    *)
(* last sweep: in particular no sweep's error went unnoticed.  Histories   *)
(* longer than one page are excepted (see CappedHistoryInvalid).           *)
ValidCoversIndex ==
    [][\A m \in Mints :
         /\ verdict'[m] # verdict[m]
         /\ verdict'[m].status = "VALID"
         /\ Cardinality(indexed \cap TxsOf(m)) <= TxLimit
         => IndexedWindow(m, verdict'[m].launchS) \subseteq verdict'[m].expected]_vars

(* "Collection health is sufficient to avoid knowingly incomplete trade    *)
(* counts": a row whose page of signatures was full is not VALID while the *)
(* index lists a transaction of its window that the audit never saw.       *)
CappedHistoryInvalid ==
    [][\A m \in Mints :
         /\ verdict'[m] # verdict[m]
         /\ verdict'[m].status = "VALID"
         => IndexedWindow(m, verdict'[m].launchS) \subseteq verdict'[m].expected]_vars

(* "The action-time record is built only from information observed by the  *)
(* 60-second boundary": every event of the record arrived by then.         *)
ObservedByBoundary ==
    \A m \in Mints : action[m] # None =>
        \A t \in action[m].observed : arrived[t] <= BoundaryMs(action[m].at)

(* "Action-time decisions are immutable": once written, the action-time    *)
(* fields of a row are neither replaced nor removed.                       *)
ActionImmutable ==
    [][\A m \in Mints : action[m] # None => action'[m] = action[m]]_vars

(* Every reported launch gets its action-time decision, also when it was   *)
(* announced again after an earlier one.                                   *)
EveryLaunchDecided ==
    \A m \in Mints : m \in Launched ~> action[m] # None

(* The scan ends and writes its files, however the stream, the feed and    *)
(* the RPC node behave.                                                    *)
ScanFinishes == <>(phase = "done")
=============================================================================
