--------------------------- MODULE StreamScanProofs ---------------------------
(***************************************************************************)
(* The types and the safety properties of StreamScan for every set of      *)
(* launches and transactions and every value of the scanner's options.     *)
(* The inductive invariant says what each stored record was computed from  *)
(* and that its inputs have not changed since.                             *)
(***************************************************************************)
EXTENDS StreamScan, TLAPS

(* What the variables say about each other: only landed transactions are   *)
(* buffered, confirmed or announced, and tasks belong to announcements.    *)
Linked ==
    /\ \A t \in Txs : arrived[t] # None => landed[t] # None
    /\ \A t \in confirmed : landed[t] # None
    /\ indexed \subseteq confirmed
    /\ \A k \in DOMAIN launches : landed[CreateTx[launches[k].mint]] # None
    /\ decided \subseteq DOMAIN launches

IInv == TypeOK /\ Linked

USE DEF TxsOf, TradeTxs, IsCreate

-----------------------------------------------------------------------------
(* Re-timing landed transactions from an integer anchor gives trades. *)
LEMMA NormalizeTradesType ==
    ASSUME NEW m \in Mints, NEW seen \in SUBSET Txs, NEW anchor \in Int,
           NEW time, \A t \in seen \cap TxsOf(m) : time[t] \in Int
    PROVE  NormalizeTrades(m, seen, time, anchor) \in SUBSET Trades
<1>1. \A t \in seen \cap TxsOf(m) : EventToTrade(t, time, anchor) \in Trades
  BY DEF EventToTrade, Trades
<1>2. \A x \in {m} : LaunchInitialTrade(x) \in Trades
  BY TapeAssumption DEF LaunchInitialTrade, Trades
<1> QED BY <1>1, <1>2 DEF NormalizeTrades

(* A chain second is an integer. *)
LEMMA ChainSecondType == ASSUME NEW k \in Int PROVE ChainSecond(k) \in Int
  BY TapeAssumption DEF ChainSecond

(* Capturing a tape keeps the tapes of the other mints. *)
LEMMA CaptureTapeType ==
    ASSUME TypeOK, NEW m \in Mints, NEW at \in Nat, NEW trades \in SUBSET Trades
    PROVE  CaptureTape(m, at, trades) \in [Mints -> TapeRecord \cup {None}]
  BY DEF TypeOK, CaptureTape, TapeRecord

(* The entries of the launch list. *)
LEMMA LaunchType ==
    ASSUME TypeOK
    PROVE  /\ DOMAIN launches = 1..Len(launches) /\ Len(launches) \in Nat
           /\ \A k \in DOMAIN launches :
                /\ k \in Nat \ {0}
                /\ launches[k].mint \in Mints
                /\ launches[k].at \in Nat
<1>1. launches \in Seq(Launch)
  BY DEF TypeOK
<1>2. DOMAIN launches = 1..Len(launches) /\ Len(launches) \in Nat
  BY <1>1
<1>3. \A k \in DOMAIN launches : launches[k] \in Launch
  BY <1>1, <1>2
<1> QED BY <1>2, <1>3 DEF Launch

LEMMA InitIInv == Init => IInv
<1> SUFFICES ASSUME Init PROVE IInv
  OBVIOUS
<1>1. TypeOK
  BY ScanAssumption DEF Init, TypeOK, Phases, AuditStart, AuditState
<1>2. Linked
  BY <1>1 DEF Init, Linked, TypeOK
<1> QED BY <1>1, <1>2 DEF IInv

(* The audit's bookkeeping keeps its type whatever a call returned. *)
LEMMA AuditStartType == ASSUME NEW k \in Nat \ {0} PROVE AuditStart(k) \in AuditState
  BY DEF AuditStart, AuditState

LEMMA SweepRecordType ==
    ASSUME NEW a \in AuditState, NEW e \in BOOLEAN, NEW seen \in SUBSET Txs,
           NEW st \in BOOLEAN, NEW n \in Nat, NEW pc \in {"sweep", "backfill"}
    PROVE  [a EXCEPT !.errors = e, !.seen = seen, !.stable = st,
                     !.sweeps = n, !.pc = pc] \in AuditState
  BY DEF AuditState

-----------------------------------------------------------------------------
LEMMA DecideKeepsIInv ==
    ASSUME IInv, NEW k \in DOMAIN launches, Decide(k)
    PROVE  IInv'
<1> DEFINE m == launches[k].mint
           at == launches[k].at
           observed == Snapshot(m, at)
           trades == NormalizeTrades(m, observed, landed, at)
<1>1. PICK q \in LatestStates(observed) :
        action' = [action EXCEPT ![m] = [at |-> at, observed |-> observed,
                                         trades |-> trades, quote |-> q]]
  BY DEF Decide
<1>2. /\ tape' = CaptureTape(m, at, trades)
      /\ decided' = decided \cup {k}
      /\ UNCHANGED <<now, landed, confirmed, arrived, launches, phase,
                     verdict, indexed, audit>>
  BY DEF Decide, chainVars, liveVars, auditVars
<1>3. observed \in SUBSET Txs /\ \A t \in observed : landed[t] \in Int
  BY DEF Snapshot, Buffer, IInv, Linked, TypeOK
<1>4. m \in Mints /\ at \in Nat /\ k \in Nat
  BY LaunchType DEF IInv
<1>5. trades \in SUBSET Trades
  <2> HIDE DEF observed, m, at
  <2> QED BY <1>3, <1>4, NormalizeTradesType
<1>6. q \in Txs \cup {None}
  BY <1>3 DEF LatestStates
<1>7. [at |-> at, observed |-> observed, trades |-> trades, quote |-> q] \in ActionRecord
  BY <1>3, <1>4, <1>5, <1>6 DEF ActionRecord
<1>8. action' \in [Mints -> ActionRecord \cup {None}]
  BY <1>1, <1>7 DEF IInv, TypeOK
<1>9. tape' \in [Mints -> TapeRecord \cup {None}]
  BY <1>2, <1>4, <1>5, CaptureTapeType DEF IInv
<1>10. TypeOK'
  BY <1>2, <1>4, <1>8, <1>9 DEF IInv, TypeOK
<1>11. Linked'
  BY <1>2 DEF IInv, Linked
<1> QED BY <1>10, <1>11 DEF IInv

LEMMA AuditCreateKeepsIInv ==
    ASSUME IInv, NEW m \in Mints, AuditCreate(m)
    PROVE  IInv'
<1>1. PICK found \in BOOLEAN, launchS \in {None, landed[CreateTx[m]]} :
        audit' = [audit EXCEPT !.createOk = found, !.launchS = launchS,
                    !.pc = IF launchS = None THEN "backfill" ELSE "sweep"]
  BY DEF AuditCreate
<1>2. UNCHANGED <<now, landed, confirmed, arrived, launches, decided, phase,
                  action, tape, verdict, indexed>>
  BY DEF AuditCreate, chainVars, liveVars, rowVars
<1>3. launchS \in Int \cup {None}
  BY TapeAssumption DEF IInv, TypeOK
<1>4. audit' \in AuditState
  BY <1>1, <1>3 DEF IInv, TypeOK, AuditState
<1>5. TypeOK'
  BY <1>2, <1>4 DEF IInv, TypeOK
<1> QED BY <1>2, <1>5 DEF IInv, Linked

LEMMA SweepKeepsIInv ==
    ASSUME IInv, NEW m \in Mints, Sweep(m)
    PROVE  IInv'
<1>a. PICK failed \in BOOLEAN :
        \E page \in IF failed THEN {{}} ELSE NewestPage(indexed' \cap TxsOf(m)) :
          LET cur == {t \in page : InWindow(t, audit.launchS)} \cup {CreateTx[m]}
          IN audit' = [audit EXCEPT
              !.errors = @ \/ failed,
              !.seen = @ \cup cur,
              !.stable = cur \subseteq audit.seen,
              !.sweeps = @ + 1,
              !.pc = IF audit.sweeps + 1 < Sweeps THEN "sweep" ELSE "backfill"]
  BY DEF Sweep
<1>1. PICK page \in IF failed THEN {{}} ELSE NewestPage(indexed' \cap TxsOf(m)) :
        LET cur == {t \in page : InWindow(t, audit.launchS)} \cup {CreateTx[m]}
        IN audit' = [audit EXCEPT
              !.errors = @ \/ failed,
              !.seen = @ \cup cur,
              !.stable = cur \subseteq audit.seen,
              !.sweeps = @ + 1,
              !.pc = IF audit.sweeps + 1 < Sweeps THEN "sweep" ELSE "backfill"]
  BY <1>a
<1>2. /\ UNCHANGED <<now, landed, confirmed, arrived, launches, decided, phase,
                     action, tape, verdict>>
      /\ indexed' \subseteq confirmed
  BY DEF Sweep, IndexGrows, chainVars, liveVars, rowVars
<1>3. page \in SUBSET Txs
  BY <1>2 DEF NewestPage, IInv, TypeOK
<1>4. CreateTx[m] \in Txs
  BY TapeAssumption
<1>5. audit' \in AuditState
  <2> DEFINE cur == {t \in page : InWindow(t, audit.launchS)} \cup {CreateTx[m]}
  <2>1. PICK e \in BOOLEAN : e = (audit.errors \/ failed)
    OBVIOUS
  <2>2. PICK st \in BOOLEAN : st = (cur \subseteq audit.seen)
    OBVIOUS
  <2>3. PICK seen \in SUBSET Txs : seen = audit.seen \cup cur
    BY <1>3, <1>4 DEF IInv, TypeOK, AuditState
  <2>4. audit' = [audit EXCEPT
              !.errors = e, !.seen = seen, !.stable = st, !.sweeps = @ + 1,
              !.pc = IF audit.sweeps + 1 < Sweeps THEN "sweep" ELSE "backfill"]
    BY <1>1, <2>1, <2>2, <2>3, Zenon
  <2>5. audit \in AuditState /\ audit.sweeps + 1 \in Nat
    BY DEF IInv, TypeOK, AuditState
  <2> HIDE DEF cur
  <2> QED BY <2>4, <2>5, SweepRecordType
<1>6. TypeOK'
  BY <1>2, <1>5 DEF IInv, TypeOK
<1> QED BY <1>2, <1>6 DEF IInv, Linked

LEMMA FinishAuditKeepsIInv ==
    ASSUME IInv, NEW m \in Mints, FinishAudit(m)
    PROVE  IInv'
<1> DEFINE create == IF audit.createOk THEN {CreateTx[m]} ELSE {}
           missing == (Expected(m) \ Direct(m)) \ create
           accounted(got) == (Direct(m) \cap Expected(m)) \cup create \cup got
           trades(got) == AuditTrades(m, Direct(m) \cup (got \cap TradeTxs))
           row(got) == [status |-> IF IsValid(accounted(got), Expected(m))
                                   THEN "VALID" ELSE "DATA_INVALID",
                        launchS |-> audit.launchS, direct |-> Direct(m),
                        expected |-> Expected(m), accounted |-> accounted(got),
                        trades |-> IF audit.launchS # None THEN trades(got) ELSE {}]
<1>1. PICK got \in SUBSET (missing \cap confirmed) :
        /\ verdict' = [verdict EXCEPT ![m] = row(got)]
        /\ tape' = IF audit.launchS # None
                   THEN CaptureTape(m, launches[audit.pos].at, trades(got)) ELSE tape
  BY DEF FinishAudit
<1>2. /\ UNCHANGED <<now, landed, confirmed, arrived, launches, decided, phase,
                     action, indexed>>
      /\ audit' = AuditStart(audit.pos + 1)
  BY DEF FinishAudit, chainVars, liveVars
<1>3. Expected(m) \in SUBSET Txs
  BY TapeAssumption DEF Expected, IInv, TypeOK, AuditState
<1>4. Direct(m) \in SUBSET Txs /\ \A t \in Direct(m) : landed[t] \in Int
  BY DEF Direct, Snapshot, Buffer, IInv, Linked, TypeOK
<1>5. create \in SUBSET Txs
  BY TapeAssumption
<1>6. accounted(got) \in SUBSET Txs
  BY <1>3, <1>4, <1>5
<1>7. \A t \in got : landed[t] \in Int
  BY DEF IInv, Linked, TypeOK
<1>8. ASSUME audit.launchS # None PROVE trades(got) \in SUBSET Trades
  <2>1. audit.launchS \in Int
    BY <1>8 DEF IInv, TypeOK, AuditState
  <2>2. Direct(m) \cup (got \cap TradeTxs) \in SUBSET Txs
    BY <1>3, <1>4
  <2>3. \A t \in (Direct(m) \cup (got \cap TradeTxs)) \cap TxsOf(m) : landed[t] \in Int
    BY <1>4, <1>7
  <2> QED BY <2>1, <2>2, <2>3, NormalizeTradesType DEF AuditTrades
<1>9. row(got) \in Verdict
  BY <1>3, <1>4, <1>6, <1>8 DEF Verdict, IInv, TypeOK, AuditState
<1>10. verdict' \in [Mints -> Verdict \cup {None}]
  BY <1>1, <1>9 DEF IInv, TypeOK
<1>11. tape' \in [Mints -> TapeRecord \cup {None}]
  <2>1. launches[audit.pos].at \in Nat
    BY LaunchType DEF FinishAudit, Auditing, IInv, TypeOK, AuditState
  <2> QED BY <1>1, <1>8, <2>1, CaptureTapeType DEF IInv, TypeOK
<1>12. audit' \in AuditState
  <2>1. audit.pos + 1 \in Nat \ {0}
    BY DEF IInv, TypeOK, AuditState
  <2> QED BY <1>2, <2>1, AuditStartType
<1>13. TypeOK'
  BY <1>1, <1>2, <1>10, <1>11, <1>12 DEF IInv, TypeOK
<1> QED BY <1>2, <1>13 DEF IInv, Linked

LEMMA NextKeepsIInv == IInv /\ [Next]_vars => IInv'
<1> SUFFICES ASSUME IInv, [Next]_vars PROVE IInv'
  OBVIOUS
<1> USE DEF chainVars, liveVars, rowVars, auditVars
<1>1. CASE Tick
  BY <1>1 DEF Tick, IInv, TypeOK, Linked
<1>2. ASSUME NEW t \in Txs, Land(t) PROVE IInv'
  <2>1. ChainSecond(now) \in Int
    BY ChainSecondType DEF IInv, TypeOK
  <2>2. landed' \in [Txs -> Int \cup {None}] /\ confirmed' \in SUBSET Txs
    BY <1>2, <2>1 DEF Land, IInv, TypeOK
  <2>3. TypeOK'
    BY <1>2, <2>2 DEF Land, IInv, TypeOK
  <2>4. \A x \in Txs : landed'[x] # None <=> landed[x] # None \/ x = t
    BY <1>2, <2>1, ScanAssumption DEF Land, IInv, TypeOK
  <2>5. Linked'
    BY <1>2, <2>4, TapeAssumption DEF Land, IInv, TypeOK, Linked
  <2> QED BY <2>3, <2>5 DEF IInv
<1>3. ASSUME NEW t \in Txs, Deliver(t) PROVE IInv'
  BY <1>3 DEF Deliver, IInv, TypeOK, Linked
<1>4. ASSUME NEW m \in Mints, ReceiveLaunch(m) PROVE IInv'
  <2>1. [mint |-> m, at |-> now] \in Launch
    BY DEF IInv, TypeOK, Launch
  <2>2. TypeOK'
    BY <1>4, <2>1 DEF ReceiveLaunch, IInv, TypeOK
  <2>3. Linked'
    BY <1>4, <2>1 DEF ReceiveLaunch, IInv, TypeOK, Linked
  <2> QED BY <2>2, <2>3 DEF IInv
<1>5. CASE CollectEnds
  BY <1>5 DEF CollectEnds, IInv, TypeOK, Linked, Phases
<1>6. CASE FeedFails
  BY <1>6 DEF FeedFails, IInv, TypeOK, Linked, Phases
<1>7. CASE StopLogs
  BY <1>7 DEF StopLogs, IInv, TypeOK, Linked, Phases
<1>8. CASE WriteFiles
  BY <1>8 DEF WriteFiles, IInv, TypeOK, Linked, Phases
<1>9. CASE UNCHANGED vars
  BY <1>9 DEF vars, IInv, TypeOK, Linked
<1>10. CASE Terminated
  BY <1>9, <1>10 DEF Terminated
<1> QED
  BY <1>1, <1>2, <1>3, <1>4, <1>5, <1>6, <1>7, <1>8, <1>9, <1>10, DecideKeepsIInv,
     AuditCreateKeepsIInv, SweepKeepsIInv, FinishAuditKeepsIInv DEF Next

(* Every variable keeps its type, on every launch population. *)
THEOREM TypeCorrect == Spec => []TypeOK
<1>1. IInv => TypeOK
  BY DEF IInv
<1> QED BY InitIInv, NextKeepsIInv, <1>1, PTL DEF Spec

-----------------------------------------------------------------------------
(* The safety properties. *)

(* Nothing of a mint lands before its creation, nor after it is seen. *)
Chronology ==
    \A t \in Txs : landed[t] # None =>
        /\ landed[t] <= ChainSecond(now)
        /\ landed[CreateTx[MintOf[t]]] # None
        /\ landed[CreateTx[MintOf[t]]] <= landed[t]
        /\ arrived[t] # None => landed[t] <= arrived[t]

(* Decision tasks end in the order of their announcements, and none is     *)
(* left when the audit starts.                                             *)
Gathered ==
    /\ \A k \in DOMAIN launches : launches[k].at <= now
    /\ \A j \in decided, k \in Pending : launches[j].at <= launches[k].at
    /\ phase \in {"audit", "done"} => Pending = {}

(* A task that has ended left a row at least as recent as its own, unless  *)
(* the mint was announced again and that task is still to come.            *)
Latest ==
    \A k \in decided :
        \/ /\ action[launches[k].mint] # None
           /\ launches[k].at <= action[launches[k].mint].at
        \/ \E j \in Pending : launches[j].mint = launches[k].mint

(* The action record is what its inputs, unchanged since, still give, and  *)
(* misses nothing that had arrived before its boundary.                    *)
Recorded ==
    \A m \in Mints : action[m] # None =>
        /\ BoundaryMs(action[m].at) <= now
        /\ action[m].observed \subseteq Direct(m)
        /\ \A t \in Buffer(m) : arrived[t] < BoundaryMs(action[m].at) =>
             t \in action[m].observed
        /\ action[m].trades =
             NormalizeTrades(m, action[m].observed, landed, action[m].at)
        /\ action[m].quote \in LatestStates(action[m].observed)

(* A mint has a tape exactly when a decision of it was made, and the tape  *)
(* is that of the first one.                                               *)
Captured ==
    /\ \A k \in decided : tape[launches[k].mint] # None
    /\ \A m \in Mints : tape[m] # None => \E k \in decided : launches[k].mint = m
    /\ TapeFromFirstDecision

(* The audit's anchor is the chain second of the creation, and nothing is  *)
(* swept before it is known.                                               *)
Anchored ==
    /\ audit.launchS # None =>
         /\ audit.pos \in 1..Len(launches)
         /\ audit.launchS = landed[CreateTx[launches[audit.pos].mint]]
    /\ audit.pc = "create" => audit.sweeps = 0 /\ audit.launchS = None
    /\ audit.pc = "sweep" => audit.launchS # None

(* The audited trades are those of at least the decision's events. *)
Audited ==
    \A m \in Mints : verdict[m] # None /\ verdict[m].launchS # None =>
        /\ phase \in {"audit", "done"}
        /\ action[m] # None
        /\ landed[CreateTx[m]] = verdict[m].launchS
        /\ \E events \in SUBSET Txs :
             /\ action[m].observed \subseteq events
             /\ \A t \in events : landed[t] # None
             /\ verdict[m].trades =
                  NormalizeTrades(m, events, landed, verdict[m].launchS)

(* Sweeps without an error have seen every listed transaction of a window  *)
(* that fits a page.                                                       *)
Swept ==
    audit.sweeps > 0 =>
        /\ audit.pos \in 1..Len(launches)
        /\ audit.launchS # None
        /\ ~audit.errors
           /\ Cardinality(indexed \cap TxsOf(launches[audit.pos].mint)) <= TxLimit
             => IndexedWindow(launches[audit.pos].mint, audit.launchS) \subseteq audit.seen

SInv ==
    /\ IInv
    /\ Chronology
    /\ Gathered
    /\ Latest
    /\ Recorded
    /\ Captured
    /\ Anchored
    /\ Audited
    /\ Swept

USE DEF TxsOf, TradeTxs, IsCreate

-----------------------------------------------------------------------------
(* Re-timing depends only on the times of the events of the mint. *)
LEMMA NormalizeTradesStable ==
    ASSUME NEW m, NEW seen, NEW anchor, NEW time1, NEW time2,
           \A t \in seen \cap TxsOf(m) : time1[t] = time2[t]
    PROVE  NormalizeTrades(m, seen, time1, anchor) = NormalizeTrades(m, seen, time2, anchor)
  BY DEF NormalizeTrades, EventToTrade

(* A later tick has a later chain second, which is not in the future. *)
LEMMA ChainSecondMonotone ==
    ASSUME NEW k \in Nat
    PROVE  ChainSecond(k) <= ChainSecond(k + 1)
<1> DEFINE n == TicksPerSecond
           a == k \div n
           b == (k + 1) \div n
<1>1. n \in Nat \ {0}
  BY TapeAssumption
<1>2. a \in Int /\ b \in Int /\ a <= b
  BY <1>1
<1>3. a * n <= b * n
  <2> HIDE DEF a, b, n
  <2> QED BY <1>1, <1>2
<1> QED BY <1>3 DEF ChainSecond

LEMMA ChainSecondPast == ASSUME NEW k \in Nat PROVE ChainSecond(k) <= k
<1> DEFINE n == TicksPerSecond
           a == k \div n
           b == k % n
<1>1. n \in Nat \ {0}
  BY TapeAssumption
<1>2. k = n * a + b /\ b >= 0 /\ a \in Int /\ b \in Int
  BY <1>1
<1>3. a * n <= k
  <2> HIDE DEF a, b, n
  <2> QED BY <1>1, <1>2
<1> QED BY <1>3 DEF ChainSecond

(* What happened is not rewritten: time passes, a landed transaction keeps *)
(* its second and an arrival its time.                                     *)
LEMMA HistoryStays ==
    ASSUME IInv, [Next]_vars
    PROVE  /\ now <= now'
           /\ \A t \in Txs : landed[t] # None => landed'[t] = landed[t]
           /\ \A t \in Txs : arrived[t] # None => arrived'[t] = arrived[t]
<1> USE DEF chainVars, liveVars, rowVars, auditVars, IInv, TypeOK
<1>1. CASE Tick
  BY <1>1 DEF Tick
<1>2. CASE \E t \in Txs : Land(t)
  BY <1>2 DEF Land
<1>3. CASE \E t \in Txs : Deliver(t)
  BY <1>3 DEF Deliver
<1>4. CASE ~Tick /\ ~(\E t \in Txs : Land(t)) /\ ~(\E t \in Txs : Deliver(t))
  <2>1. UNCHANGED <<now, landed, arrived>>
    BY <1>4 DEF Next, ReceiveLaunch, CollectEnds, FeedFails, StopLogs, Decide, AuditCreate,
       Sweep, FinishAudit, WriteFiles, Terminated, vars
  <2> QED BY <2>1
<1> QED BY <1>1, <1>2, <1>3, <1>4

(* Only announcements and decisions touch the launches and the rows' *)
(* action-time fields.                                               *)
LEMMA RowsStay ==
    ASSUME [Next]_vars, ~(\E m \in Mints : ReceiveLaunch(m)),
           ~(\E k \in DOMAIN launches : Decide(k))
    PROVE  UNCHANGED <<launches, decided, action>>
  BY DEF Next, Tick, Land, Deliver, CollectEnds, FeedFails, StopLogs, AuditCreate, Sweep,
     FinishAudit, WriteFiles, Terminated, vars, liveVars, rowVars

(* The launches already reported stay where they are in the list, and the  *)
(* chain second of their creation stays what it was.                       *)
LEMMA LaunchesStay ==
    ASSUME IInv, [Next]_vars, NEW i \in 1..Len(launches)
    PROVE  /\ i \in 1..Len(launches')
           /\ launches'[i] = launches[i]
           /\ launches[i].mint \in Mints
           /\ landed[CreateTx[launches[i].mint]] # None
           /\ landed'[CreateTx[launches[i].mint]] = landed[CreateTx[launches[i].mint]]
<1> USE DEF IInv, TypeOK
<1>1. launches[i].mint \in Mints /\ landed[CreateTx[launches[i].mint]] # None
  BY LaunchType DEF Linked
<1>2. landed'[CreateTx[launches[i].mint]] = landed[CreateTx[launches[i].mint]]
  BY <1>1, HistoryStays, TapeAssumption
<1>3. CASE \E m \in Mints : ReceiveLaunch(m)
  BY <1>1, <1>2, <1>3 DEF ReceiveLaunch
<1>4. CASE ~(\E m \in Mints : ReceiveLaunch(m))
  <2>1. launches' = launches
    BY <1>4, RowsStay DEF Decide, liveVars
  <2> QED BY <1>1, <1>2, <2>1
<1> QED BY <1>3, <1>4

(* After the gather no announcement and no decision can come. *)
LEMMA RowsStayAfterGather ==
    ASSUME SInv, [Next]_vars, phase \in {"audit", "done"}
    PROVE  phase' \in {"audit", "done"} /\ UNCHANGED <<launches, decided, action>>
<1>1. ~(\E m \in Mints : ReceiveLaunch(m)) /\ ~(\E k \in DOMAIN launches : Decide(k))
  BY DEF ReceiveLaunch, Decide, SInv, Gathered
<1>2. phase' \in {"audit", "done"}
  BY <1>1 DEF Next, Tick, Land, Deliver, CollectEnds, FeedFails, StopLogs, AuditCreate,
     Sweep, FinishAudit, WriteFiles, Terminated, vars
<1> QED BY <1>1, <1>2, RowsStay

(* The audited launch has a row. *)
LEMMA AuditedHasRow ==
    ASSUME SInv, phase \in {"audit", "done"}, NEW k \in DOMAIN launches
    PROVE  /\ action[launches[k].mint] # None
           /\ launches[k].at <= action[launches[k].mint].at
           /\ tape[launches[k].mint] # None
  BY DEF SInv, Gathered, Latest, Captured, Pending

-----------------------------------------------------------------------------
LEMMA InitSInv == Init => SInv
<1> SUFFICES ASSUME Init PROVE SInv
  OBVIOUS
<1>1. IInv
  BY InitIInv
<1>2. Gathered /\ Latest
  BY DEF Init, Gathered, Latest, Pending
<1>3. Chronology /\ Recorded /\ Captured /\ Audited
  BY DEF Init, Chronology, Recorded, Captured, TapeFromFirstDecision, Audited
<1>4. Anchored /\ Swept
  BY DEF Init, AuditStart, Anchored, Swept
<1> QED BY <1>1, <1>2, <1>3, <1>4 DEF SInv

LEMMA ChronologyKept ==
    ASSUME SInv, [Next]_vars PROVE Chronology'
<1> USE DEF SInv, IInv, TypeOK
<1>1. CASE Tick
  <2>1. ChainSecond(now) <= ChainSecond(now')
    BY <1>1, ChainSecondMonotone DEF Tick
  <2>2. ChainSecond(now) \in Int /\ ChainSecond(now') \in Int
    BY <1>1, ChainSecondType DEF Tick
  <2>3. landed' = landed /\ arrived' = arrived
    BY <1>1 DEF Tick, chainVars, liveVars
  <2> QED BY <2>1, <2>2, <2>3, TapeAssumption DEF Chronology
<1>2. ASSUME NEW t \in Txs, Land(t) PROVE Chronology'
  <2>1. ChainSecond(now) \in Int
    BY ChainSecondType
  <2>2. now' = now /\ arrived' = arrived /\ landed' = [landed EXCEPT ![t] = ChainSecond(now)]
    BY <1>2 DEF Land, liveVars
  <2>3. landed[t] = None /\ (t = CreateTx[MintOf[t]] \/ landed[CreateTx[MintOf[t]]] # None)
    BY <1>2 DEF Land
  <2>4. ChainSecond(now) # None /\ arrived[t] = None
    BY <2>1, <2>3, ScanAssumption DEF Linked
  <2>5. CreateTx[MintOf[t]] \in Txs
    BY TapeAssumption
  <2>6. ASSUME NEW x \in Txs, landed'[x] # None
        PROVE  /\ landed'[x] <= ChainSecond(now)
               /\ landed'[CreateTx[MintOf[x]]] # None
               /\ landed'[CreateTx[MintOf[x]]] <= landed'[x]
               /\ arrived[x] # None => landed'[x] <= arrived[x]
    <3>1. CASE x = t
      BY <2>1, <2>2, <2>3, <2>4, <2>5, <3>1 DEF Chronology
    <3>2. CASE x # t
      <4>1. landed'[x] = landed[x] /\ landed[x] # None
        BY <2>2, <2>6, <3>2
      <4>2. /\ CreateTx[MintOf[x]] \in Txs
            /\ landed[CreateTx[MintOf[x]]] # None
        BY <4>1, TapeAssumption DEF Chronology
      <4>3. landed'[CreateTx[MintOf[x]]] = landed[CreateTx[MintOf[x]]]
        BY <2>2, <2>3, <4>2
      <4> QED BY <4>1, <4>2, <4>3 DEF Chronology
    <3> QED BY <3>1, <3>2
  <2> QED BY <2>2, <2>6 DEF Chronology
<1>3. ASSUME NEW t \in Txs, Deliver(t) PROVE Chronology'
  <2>1. landed' = landed /\ now' = now /\ arrived' = [arrived EXCEPT ![t] = now]
    BY <1>3 DEF Deliver, chainVars
  <2>2. landed[t] \in Int /\ landed[t] <= ChainSecond(now)
    BY <1>3 DEF Deliver, Chronology
  <2>3. landed[t] <= now
    BY <2>2, ChainSecondPast, ChainSecondType
  <2> QED BY <2>1, <2>3 DEF Chronology
<1>4. CASE ~Tick /\ ~(\E t \in Txs : Land(t)) /\ ~(\E t \in Txs : Deliver(t))
  <2>1. now' = now /\ landed' = landed /\ arrived' = arrived
    BY <1>4 DEF Next, ReceiveLaunch, CollectEnds, FeedFails, StopLogs, Decide, AuditCreate,
       Sweep, FinishAudit, WriteFiles, Terminated, chainVars, liveVars, vars
  <2> QED BY <2>1 DEF Chronology
<1> QED BY <1>1, <1>2, <1>3, <1>4

(* A new announcement is the youngest, and the task that ends is the       *)
(* oldest of those still asleep.                                           *)
LEMMA GatheredKept ==
    ASSUME SInv, [Next]_vars PROVE Gathered'
<1> USE DEF SInv, IInv, TypeOK, Linked
<1>1. ASSUME NEW m \in Mints, ReceiveLaunch(m) PROVE Gathered'
  <2>1. /\ launches' = Append(launches, [mint |-> m, at |-> now])
        /\ now' = now /\ decided' = decided /\ phase' = "collect"
    BY <1>1 DEF ReceiveLaunch
  <2>2. /\ DOMAIN launches' = DOMAIN launches \cup {Len(launches) + 1}
        /\ \A k \in DOMAIN launches : launches'[k] = launches[k]
        /\ launches'[Len(launches) + 1].at = now
    BY <2>1
  <2>3. \A k \in DOMAIN launches : launches[k].at <= now
    BY DEF Gathered
  <2>4. \A k \in DOMAIN launches' : launches'[k].at <= now'
    BY <2>1, <2>2, <2>3
  <2>5. ASSUME NEW j \in decided', NEW k \in Pending'
        PROVE  launches'[j].at <= launches'[k].at
    <3>1. j \in decided /\ j \in DOMAIN launches
      BY <2>1
    <3>2. k \in Pending \/ k = Len(launches) + 1
      BY <2>1, <2>2 DEF Pending
    <3> QED BY <2>2, <2>3, <3>1, <3>2 DEF Gathered, Pending
  <2> QED BY <2>1, <2>4, <2>5 DEF Gathered
<1>2. ASSUME NEW k \in DOMAIN launches, Decide(k) PROVE Gathered'
  <2>1. /\ launches' = launches /\ now' = now /\ phase' = phase
        /\ decided' = decided \cup {k} /\ k \in Pending
        /\ \A j \in Pending : launches[k].at <= launches[j].at
    BY <1>2 DEF Decide, Due, liveVars
  <2>2. Pending' \subseteq Pending
    BY <2>1 DEF Pending
  <2> QED BY <2>1, <2>2 DEF Gathered
<1>3. CASE ~(\E m \in Mints : ReceiveLaunch(m)) /\ ~(\E k \in DOMAIN launches : Decide(k))
  <2>1. launches' = launches /\ decided' = decided /\ Pending' = Pending
    BY <1>3, RowsStay DEF Pending
  <2>2. \A k \in DOMAIN launches : launches[k].at <= now'
    <3>1. now \in Int /\ now' \in Int /\ now <= now'
      BY NextKeepsIInv, HistoryStays
    <3>2. \A k \in DOMAIN launches : launches[k].at \in Int /\ launches[k].at <= now
      BY LaunchType DEF Gathered
    <3> QED BY <3>1, <3>2
  <2>3. phase' \in {"audit", "done"} => Pending = {}
    <3>1. CASE StopLogs
      BY <3>1 DEF StopLogs
    <3>2. CASE ~StopLogs
      <4>1. phase' \in {"audit", "done"} => phase \in {"audit", "done"}
        BY <1>3, <3>2 DEF Next, Tick, Land, Deliver, CollectEnds, FeedFails, AuditCreate,
           Sweep, FinishAudit, WriteFiles, Terminated, vars
      <4> QED BY <4>1 DEF Gathered
    <3> QED BY <3>1, <3>2
  <2> QED BY <2>1, <2>2, <2>3 DEF Gathered
<1> QED BY <1>1, <1>2, <1>3

(* The record a decision task writes. *)
LEMMA DecideWrites ==
    ASSUME IInv, NEW k \in DOMAIN launches, Decide(k)
    PROVE  LET m == launches[k].mint
               at == launches[k].at
               observed == Snapshot(m, at)
               trades == NormalizeTrades(m, observed, landed, at)
           IN /\ m \in Mints /\ at \in Nat
              /\ action'[m] # None
              /\ action'[m].at = at
              /\ action'[m].observed = observed
              /\ action'[m].trades = trades
              /\ action'[m].quote \in LatestStates(observed)
              /\ \A x \in Mints \ {m} : action'[x] = action[x]
              /\ tape' = CaptureTape(m, at, trades)
              /\ [at |-> at, trades |-> trades] \in TapeRecord
              /\ [at |-> at, trades |-> trades] # None
<1> DEFINE m == launches[k].mint
           at == launches[k].at
           observed == Snapshot(m, at)
           trades == NormalizeTrades(m, observed, landed, at)
<1>1. PICK q \in LatestStates(observed) :
        action' = [action EXCEPT ![m] = [at |-> at, observed |-> observed,
                                         trades |-> trades, quote |-> q]]
  BY DEF Decide
<1>2. tape' = CaptureTape(m, at, trades)
  BY DEF Decide
<1>3. m \in Mints /\ at \in Nat
  BY LaunchType DEF IInv
<1>4. observed \in SUBSET Txs /\ \A t \in observed : landed[t] \in Int
  BY DEF Snapshot, Buffer, IInv, Linked, TypeOK
<1>5. trades \in SUBSET Trades
  <2> HIDE DEF observed, m, at
  <2> QED BY <1>3, <1>4, NormalizeTradesType
<1>6. q \in Txs \cup {None}
  BY <1>4 DEF LatestStates
<1> DEFINE row == [at |-> at, observed |-> observed, trades |-> trades, quote |-> q]
<1>7. row \in ActionRecord
  BY <1>3, <1>4, <1>5, <1>6 DEF ActionRecord
<1>8. row # None
  BY <1>7, NoneAssumption
<1>9. action'[m] = row /\ \A x \in Mints \ {m} : action'[x] = action[x]
  BY <1>1, <1>3 DEF IInv, TypeOK
<1>10. /\ row.at = at /\ row.observed = observed
       /\ row.trades = trades /\ row.quote = q
  OBVIOUS
<1>11. [at |-> at, trades |-> trades] \in TapeRecord
  BY <1>3, <1>5 DEF TapeRecord
<1>12. [at |-> at, trades |-> trades] # None
  BY <1>11, NoneAssumption
<1> HIDE DEF row, trades, observed, m, at
<1> QED BY <1>1, <1>2, <1>3, <1>8, <1>9, <1>10, <1>11, <1>12
           DEF m, at, observed, trades

LEMMA LatestKept ==
    ASSUME SInv, [Next]_vars PROVE Latest'
<1> USE DEF SInv, IInv, TypeOK, Linked
<1>1. ASSUME NEW m \in Mints, ReceiveLaunch(m) PROVE Latest'
  <2>1. /\ launches' = Append(launches, [mint |-> m, at |-> now])
        /\ decided' = decided /\ action' = [action EXCEPT ![m] = None]
    BY <1>1 DEF ReceiveLaunch
  <2> DEFINE new == Len(launches) + 1
  <2>2. /\ \A k \in DOMAIN launches : launches'[k] = launches[k]
        /\ launches'[new].mint = m
        /\ new \in Pending'
        /\ Pending \subseteq Pending'
    BY <2>1 DEF Pending
  <2>3. ASSUME NEW k \in decided
        PROVE  \/ /\ action'[launches'[k].mint] # None
                  /\ launches'[k].at <= action'[launches'[k].mint].at
               \/ \E j \in Pending' : launches'[j].mint = launches'[k].mint
    <3>1. k \in DOMAIN launches /\ launches'[k] = launches[k]
      BY <2>2
    <3>2. CASE launches[k].mint = m
      BY <2>2, <3>1, <3>2
    <3>3. CASE launches[k].mint # m
      <4>1. action'[launches[k].mint] = action[launches[k].mint]
        BY <2>1, <3>1, <3>3
      <4> QED BY <2>2, <3>1, <4>1 DEF Latest, Pending
    <3> QED BY <3>2, <3>3
  <2> QED BY <2>1, <2>3 DEF Latest
<1>2. ASSUME NEW i \in DOMAIN launches, Decide(i) PROVE Latest'
  <2>1. /\ launches' = launches /\ decided' = decided \cup {i} /\ i \in Pending
    BY <1>2 DEF Decide, liveVars
  <2>2. Pending' = Pending \ {i}
    BY <2>1 DEF Pending
  <2>3. ASSUME NEW k \in decided \cup {i}
        PROVE  \/ /\ action'[launches[k].mint] # None
                  /\ launches[k].at <= action'[launches[k].mint].at
               \/ \E j \in Pending' : launches[j].mint = launches[k].mint
    <3>1. /\ k \in DOMAIN launches /\ launches[k].mint \in Mints
          /\ launches[k].at \in Nat
      BY LaunchType
    <3>2. CASE launches[k].mint = launches[i].mint
      <4>1. launches[k].at <= launches[i].at
        BY <2>1, <3>1 DEF Gathered
      <4> QED BY <1>2, <3>2, <4>1, DecideWrites
    <3>3. CASE launches[k].mint # launches[i].mint
      <4>1. action'[launches[k].mint] = action[launches[k].mint]
        BY <1>2, <3>1, <3>3, DecideWrites
      <4> QED BY <2>2, <3>3, <4>1 DEF Latest
    <3> QED BY <3>2, <3>3
  <2> QED BY <2>1, <2>3 DEF Latest
<1>3. CASE ~(\E m \in Mints : ReceiveLaunch(m)) /\ ~(\E k \in DOMAIN launches : Decide(k))
  <2>1. launches' = launches /\ decided' = decided /\ action' = action
        /\ Pending' = Pending
    BY <1>3, RowsStay DEF Pending
  <2> QED BY <2>1 DEF Latest
<1> QED BY <1>1, <1>2, <1>3

(* The inputs of a decision stay what they were, so it can be recomputed;  *)
(* what arrives after it does so at its boundary or later.                 *)
LEMMA RecordedKept ==
    ASSUME SInv, [Next]_vars PROVE Recorded'
<1> USE DEF SInv, IInv, TypeOK
<1> DEFINE latest(obs) ==
             IF obs \ NoState = {} THEN {None}
             ELSE {t \in obs \ NoState : \A u \in obs \ NoState : landed'[u] <= landed'[t]}
<1>1. ASSUME NEW m \in Mints, action'[m] # None
      PROVE  /\ action'[m].at \in Nat
             /\ BoundaryMs(action'[m].at) <= now
             /\ action'[m].observed \subseteq Snapshot(m, action'[m].at)
             /\ \A t \in Buffer(m) : arrived[t] < BoundaryMs(action'[m].at) =>
                  t \in action'[m].observed
             /\ action'[m].trades =
                  NormalizeTrades(m, action'[m].observed, landed, action'[m].at)
             /\ action'[m].quote \in LatestStates(action'[m].observed)
  <2>1. CASE action'[m] = action[m]
    <3>1. action[m] \in ActionRecord
      BY <1>1, <2>1
    <3>2. action[m].at \in Nat
      BY <3>1 DEF ActionRecord
    <3> QED BY <1>1, <2>1, <3>2 DEF Recorded, Direct
  <2>2. CASE action'[m] # action[m]
    <3>1. ~(\E x \in Mints : ReceiveLaunch(x))
      BY <1>1, <2>2 DEF ReceiveLaunch
    <3>2. PICK k \in DOMAIN launches : Decide(k)
      BY <2>2, <3>1, RowsStay
    <3>3. m = launches[k].mint
      BY <2>2, <3>2, DecideWrites
    <3> DEFINE at == launches[k].at
    <3>4. /\ at \in Nat /\ action'[m].at = at
          /\ action'[m].observed = Snapshot(m, at)
          /\ action'[m].trades = NormalizeTrades(m, Snapshot(m, at), landed, at)
          /\ action'[m].quote \in LatestStates(Snapshot(m, at))
      BY <3>2, <3>3, DecideWrites
    <3>5. BoundaryMs(at) <= now
      BY <3>2 DEF Decide, Due
    <3>6. ASSUME NEW t \in Buffer(m), arrived[t] < BoundaryMs(at)
          PROVE  t \in Snapshot(m, at)
      <4>1. /\ t \in Txs /\ arrived[t] \in Int /\ landed[t] \in Int
            /\ landed[t] <= arrived[t]
        BY DEF Buffer, Linked, Chronology
      <4>2. BoundaryMs(at) \in Int
        BY <3>4, TapeAssumption DEF BoundaryMs
      <4> QED BY <3>6, <4>1, <4>2 DEF Snapshot
    <3> HIDE DEF at
    <3> QED BY <3>4, <3>5, <3>6
  <2> QED BY <2>1, <2>2
<1>2. ASSUME NEW m \in Mints, action'[m] # None
      PROVE  /\ BoundaryMs(action'[m].at) <= now'
             /\ action'[m].observed \subseteq Direct(m)'
             /\ \A t \in Buffer(m)' : arrived'[t] < BoundaryMs(action'[m].at) =>
                  t \in action'[m].observed
             /\ action'[m].trades =
                  NormalizeTrades(m, action'[m].observed, landed', action'[m].at)
             /\ action'[m].quote \in latest(action'[m].observed)
  <2> DEFINE obs == action'[m].observed
             at == action'[m].at
  <2>1. /\ at \in Nat /\ obs \subseteq Snapshot(m, at)
        /\ BoundaryMs(at) <= now
    BY <1>1, <1>2
  <2>2. \A t \in Snapshot(m, at) : landed'[t] = landed[t] /\ arrived'[t] = arrived[t]
                             /\ t \in Txs /\ landed[t] # None /\ arrived[t] # None
    BY HistoryStays DEF Snapshot, Buffer, Linked
  <2>3. obs \subseteq Direct(m)'
    BY <2>1, <2>2 DEF Direct, Snapshot, Buffer
  <2>4. NormalizeTrades(m, obs, landed', at) = NormalizeTrades(m, obs, landed, at)
    BY <2>1, <2>2, NormalizeTradesStable
  <2>5. \A t \in obs : landed'[t] = landed[t]
    BY <2>1, <2>2
  <2>6. action'[m].quote \in latest(obs)
    BY <1>1, <1>2, <2>5 DEF LatestStates
  <2>7. BoundaryMs(at) \in Int /\ now \in Int /\ now' \in Int
    <3>1. TypeOK'
      BY NextKeepsIInv
    <3> QED BY <2>1, <3>1, TapeAssumption DEF BoundaryMs
  <2>8. ASSUME NEW t \in Buffer(m)', arrived'[t] < BoundaryMs(at) PROVE t \in obs
    <3>1. t \in TradeTxs \cap TxsOf(m) /\ arrived'[t] # None
      BY DEF Buffer
    <3>2. CASE arrived[t] # None
      <4>1. t \in Buffer(m) /\ arrived'[t] = arrived[t]
        BY <3>1, <3>2, HistoryStays DEF Buffer
      <4> QED BY <1>1, <1>2, <2>8, <4>1
    <3>3. CASE arrived[t] = None
      <4>1. PICK x \in Txs : Deliver(x)
        BY <3>1, <3>3 DEF Next, Tick, Land, ReceiveLaunch, CollectEnds, FeedFails, StopLogs,
           Decide, AuditCreate, Sweep, FinishAudit, WriteFiles, Terminated, liveVars, vars
      <4>2. arrived' = [arrived EXCEPT ![x] = now]
        BY <4>1 DEF Deliver
      <4>3. arrived'[t] = now
        BY <3>1, <3>3, <4>2
      <4> QED BY <2>1, <2>7, <2>8, <4>3
    <3> QED BY <3>2, <3>3
  <2>9. BoundaryMs(at) <= now'
    BY <2>1, <2>7, HistoryStays
  <2> QED BY <1>1, <1>2, <2>3, <2>4, <2>6, <2>8, <2>9
<1> QED BY <1>2 DEF Recorded, LatestStates, BoundaryMs

(* Only the first decision of a mint reaches its tape, and what it was     *)
(* made from stays streamed and in time.                                   *)
LEMMA CapturedKept ==
    ASSUME SInv, [Next]_vars PROVE Captured'
<1> USE DEF SInv, IInv, TypeOK, Linked
<1> DEFINE mintOf(k) == launches[k].mint
           Streamed(m, trades, at) == \A r \in trades : r # LaunchInitialTrade(m) =>
             arrived[r.sig] # None /\ landed[r.sig] <= BoundaryMs(at)
           StreamedAfter(m, trades, at) == \A r \in trades : r # LaunchInitialTrade(m) =>
             arrived'[r.sig] # None /\ landed'[r.sig] <= BoundaryMs(at)
<1>1. ASSUME NEW m \in Mints, NEW at, NEW trades \in SUBSET Trades, Streamed(m, trades, at)
      PROVE  StreamedAfter(m, trades, at)
  <2>1. \A r \in trades : r.sig \in Txs
    BY DEF Trades
  <2> QED BY <1>1, <2>1, HistoryStays
<1>2. ASSUME NEW m \in Mints, tape[m] # None
      PROVE  /\ tape[m].trades \in SUBSET Trades /\ tape[m].at \in Nat
             /\ \A k \in DOMAIN launches : mintOf(k) = m => tape[m].at <= launches[k].at
             /\ Streamed(m, tape[m].trades, tape[m].at)
             /\ AnnouncedOnce(m) => action[m] # None /\ tape[m].trades = action[m].trades
  <2>1. tape[m] \in TapeRecord
    BY <1>2
  <2> QED BY <1>2, <2>1 DEF TapeRecord, Captured, TapeFromFirstDecision
<1>a. ASSUME NEW m \in Mints, tape[m] # None
      PROVE  StreamedAfter(m, tape[m].trades, tape[m].at)
  <2>1. tape[m].trades \in SUBSET Trades /\ Streamed(m, tape[m].trades, tape[m].at)
    BY <1>2, <1>a
  <2> HIDE DEF Streamed, StreamedAfter
  <2> QED BY <1>1, <2>1
<1>b. ASSUME \A m \in Mints : tape'[m] # None =>
               /\ \A k \in DOMAIN launches' :
                    launches'[k].mint = m => tape'[m].at <= launches'[k].at
               /\ StreamedAfter(m, tape'[m].trades, tape'[m].at)
               /\ AnnouncedOnce(m)' => action'[m] # None /\ tape'[m].trades = action'[m].trades
      PROVE  TapeFromFirstDecision'
  BY <1>b DEF TapeFromFirstDecision, BoundaryMs
<1>3. ASSUME NEW x \in Mints, ReceiveLaunch(x) PROVE Captured'
  <2>1. /\ launches' = Append(launches, [mint |-> x, at |-> now])
        /\ decided' = decided /\ tape' = tape
        /\ action' = [action EXCEPT ![x] = None]
    BY <1>3 DEF ReceiveLaunch
  <2> DEFINE new == Len(launches) + 1
  <2>2. /\ DOMAIN launches' = DOMAIN launches \cup {new}
        /\ new \notin DOMAIN launches
        /\ \A k \in DOMAIN launches : launches'[k] = launches[k]
        /\ launches'[new].mint = x /\ launches'[new].at = now
    BY <2>1
  <2>3. ASSUME NEW m \in Mints, tape[m] # None
        PROVE  \A k \in DOMAIN launches' :
                 launches'[k].mint = m => tape[m].at <= launches'[k].at
    <3>1. PICK j \in decided : launches[j].mint = m
      BY <2>3 DEF Captured
    <3>2. tape[m].at <= launches[j].at /\ launches[j].at <= now
      BY <1>2, <2>3, <3>1 DEF Gathered
    <3>3. tape[m].at \in Nat /\ launches[j].at \in Nat
      BY <1>2, <2>3, <3>1, LaunchType
    <3>4. tape[m].at <= now
      BY <3>2, <3>3
    <3> QED BY <1>2, <2>2, <2>3, <3>4
  <2>4. ASSUME NEW m \in Mints, tape[m] # None, AnnouncedOnce(m)'
        PROVE  action'[m] # None /\ tape[m].trades = action'[m].trades
    <3>1. PICK j \in decided : launches[j].mint = m
      BY <2>4 DEF Captured
    <3>2. m # x
      BY <2>2, <2>4, <3>1 DEF AnnouncedOnce
    <3>3. AnnouncedOnce(m)
      BY <2>2, <2>4 DEF AnnouncedOnce
    <3> QED BY <1>2, <2>1, <2>4, <3>2, <3>3
  <2>5. \A k \in decided' : tape'[launches'[k].mint] # None
    BY <2>1, <2>2 DEF Captured
  <2>6. \A m \in Mints : tape'[m] # None => \E k \in decided' : launches'[k].mint = m
    BY <2>1, <2>2 DEF Captured
  <2>7. TapeFromFirstDecision'
    BY <1>a, <1>b, <2>1, <2>3, <2>4
  <2> QED BY <2>5, <2>6, <2>7 DEF Captured
<1>4. ASSUME NEW i \in DOMAIN launches, Decide(i) PROVE Captured'
  <2> DEFINE x == launches[i].mint
             at == launches[i].at
             trades == NormalizeTrades(x, Snapshot(x, at), landed, at)
  <2>1. /\ launches' = launches /\ decided' = decided \cup {i}
        /\ i \in Pending /\ \A j \in Pending : at <= launches[j].at
    BY <1>4 DEF Decide, Due, liveVars
  <2>2. /\ x \in Mints /\ at \in Nat
        /\ action'[x] # None /\ action'[x].trades = trades
        /\ \A m \in Mints \ {x} : action'[m] = action[m]
        /\ tape' = CaptureTape(x, at, trades)
        /\ [at |-> at, trades |-> trades] \in TapeRecord
        /\ [at |-> at, trades |-> trades] # None
    BY <1>4, DecideWrites
  <2>3. \A m \in Mints \ {x} : tape'[m] = tape[m]
    BY <2>2 DEF CaptureTape
  <2>4. AnnouncedOnce(x)' = AnnouncedOnce(x) /\ \A m : AnnouncedOnce(m)' = AnnouncedOnce(m)
    BY <2>1 DEF AnnouncedOnce
  <2> HIDE DEF trades
  <2>5. tape'[x] # None
    BY <2>2 DEF CaptureTape
  <2>6. /\ \A k \in DOMAIN launches : mintOf(k) = x => tape'[x].at <= launches[k].at
        /\ StreamedAfter(x, tape'[x].trades, tape'[x].at)
        /\ AnnouncedOnce(x) => tape'[x].trades = action'[x].trades
    <3>1. CASE tape[x] = None
      <4>1. tape'[x] = [at |-> at, trades |-> trades]
        BY <2>2, <3>1 DEF CaptureTape
      <4>2. tape'[x].at = at /\ tape'[x].trades = trades
        BY <4>1
      <4>3. \A k \in DOMAIN launches : mintOf(k) = x => k \in Pending
        BY <3>1 DEF Captured, Pending
      <4>4. Streamed(x, trades, at)
        BY DEF NormalizeTrades, EventToTrade, Snapshot, Buffer, trades
      <4>5. trades \in SUBSET Trades
        BY <2>2 DEF TapeRecord
      <4>6. StreamedAfter(x, trades, at)
        BY <1>1, <2>2, <4>4, <4>5
      <4> QED BY <2>1, <2>2, <4>2, <4>3, <4>6
    <3>2. CASE tape[x] # None
      <4>1. tape' = tape
        BY <2>2, <3>2 DEF CaptureTape
      <4>2. PICK j \in decided : launches[j].mint = x
        BY <2>2, <3>2 DEF Captured
      <4>3. ~AnnouncedOnce(x)
        BY <2>1, <4>2 DEF Pending, AnnouncedOnce
      <4>4. \A k \in DOMAIN launches : mintOf(k) = x => tape[x].at <= launches[k].at
        BY <1>2, <2>2, <3>2
      <4>5. StreamedAfter(x, tape[x].trades, tape[x].at)
        BY <1>a, <2>2, <3>2
      <4> QED BY <4>1, <4>3, <4>4, <4>5
    <3> QED BY <3>1, <3>2
  <2>7. ASSUME NEW m \in Mints, m # x, tape'[m] # None
        PROVE  /\ \A k \in DOMAIN launches : mintOf(k) = m => tape'[m].at <= launches[k].at
               /\ StreamedAfter(m, tape'[m].trades, tape'[m].at)
               /\ AnnouncedOnce(m) => action'[m] # None /\ tape'[m].trades = action'[m].trades
    <3>1. m \in Mints \ {x} /\ tape'[m] = tape[m] /\ action'[m] = action[m]
      BY <2>2, <2>3, <2>7
    <3>2. /\ \A k \in DOMAIN launches : mintOf(k) = m => tape[m].at <= launches[k].at
          /\ AnnouncedOnce(m) => action[m] # None /\ tape[m].trades = action[m].trades
      BY <1>2, <2>7, <3>1
    <3>3. StreamedAfter(m, tape[m].trades, tape[m].at)
      BY <1>a, <2>7, <3>1
    <3> QED BY <3>1, <3>2, <3>3
  <2>8. \A k \in decided' : tape'[launches'[k].mint] # None
    <3>1. \A k \in decided : launches[k].mint \in Mints /\ tape[launches[k].mint] # None
      BY LaunchType DEF Captured
    <3> QED BY <2>1, <2>3, <2>5, <3>1
  <2>9. \A m \in Mints : tape'[m] # None => \E k \in decided' : launches'[k].mint = m
    BY <2>1, <2>3 DEF Captured
  <2>10. TapeFromFirstDecision'
    <3> HIDE DEF x, StreamedAfter
    <3> QED BY <1>b, <2>1, <2>2, <2>4, <2>6, <2>7
  <2> QED BY <2>8, <2>9, <2>10 DEF Captured
<1>5. CASE ~(\E m \in Mints : ReceiveLaunch(m)) /\ ~(\E k \in DOMAIN launches : Decide(k))
  <2>1. launches' = launches /\ decided' = decided /\ action' = action
    BY <1>5, RowsStay
  <2>2. tape' = tape
    <3>1. ASSUME NEW m \in Mints, FinishAudit(m) PROVE tape' = tape
      <4>1. audit.pos \in DOMAIN launches /\ m = launches[audit.pos].mint /\ phase = "audit"
        BY <3>1 DEF FinishAudit, Auditing, AuditState
      <4>2. tape[m] # None
        BY <4>1, AuditedHasRow
      <4> QED BY <3>1, <4>2 DEF FinishAudit, CaptureTape
    <3>2. CASE ~(\E m \in Mints : FinishAudit(m))
      BY <1>5, <3>2 DEF Next, Tick, Land, Deliver, CollectEnds, FeedFails, StopLogs,
         AuditCreate, Sweep, WriteFiles, Terminated, vars, rowVars
    <3> QED BY <3>1, <3>2
  <2>3. \A m : AnnouncedOnce(m)' = AnnouncedOnce(m)
    BY <2>1 DEF AnnouncedOnce
  <2>4. TapeFromFirstDecision'
    BY <1>a, <1>b, <1>2, <2>1, <2>2, <2>3
  <2> QED BY <2>1, <2>2, <2>4 DEF Captured
<1> QED BY <1>3, <1>4, <1>5

LEMMA AnchoredKept ==
    ASSUME SInv, [Next]_vars PROVE Anchored'
<1> USE DEF SInv, IInv, TypeOK
<1>1. ASSUME NEW m \in Mints, AuditCreate(m) PROVE Anchored'
  <2>1. PICK launchS \in {None, landed[CreateTx[m]]}, found \in BOOLEAN :
          audit' = [audit EXCEPT !.createOk = found, !.launchS = launchS,
                      !.pc = IF launchS = None THEN "backfill" ELSE "sweep"]
    BY <1>1 DEF AuditCreate
  <2>2. /\ audit'.pos = audit.pos /\ audit'.launchS = launchS
        /\ audit'.pc = IF launchS = None THEN "backfill" ELSE "sweep"
    BY <2>1 DEF AuditState
  <2>3. audit.pos \in 1..Len(launches) /\ m = launches[audit.pos].mint
    BY <1>1 DEF AuditCreate, Auditing, AuditState
  <2>4. launches' = launches /\ landed' = landed
    BY <1>1 DEF AuditCreate, liveVars, chainVars
  <2> QED BY <2>2, <2>3, <2>4 DEF Anchored
<1>2. ASSUME NEW m \in Mints, Sweep(m) PROVE Anchored'
  <2>1. /\ audit'.pos = audit.pos /\ audit'.launchS = audit.launchS
        /\ audit'.pc \in {"sweep", "backfill"} /\ audit.pc = "sweep"
    BY <1>2 DEF Sweep, Auditing, AuditState
  <2>2. launches' = launches /\ landed' = landed
    BY <1>2 DEF Sweep, liveVars, chainVars
  <2> QED BY <2>1, <2>2 DEF Anchored
<1>3. ASSUME NEW m \in Mints, FinishAudit(m) PROVE Anchored'
  BY <1>3 DEF FinishAudit, AuditStart, Anchored
<1>4. CASE ~(\E m \in Mints : AuditCreate(m) \/ Sweep(m) \/ FinishAudit(m))
  <2>1. audit' = audit
    BY <1>4 DEF Next, Tick, Land, Deliver, ReceiveLaunch, CollectEnds, FeedFails, StopLogs,
       Decide, WriteFiles, Terminated, auditVars, vars
  <2> QED BY <2>1, LaunchesStay DEF Anchored
<1> QED BY <1>1, <1>2, <1>3, <1>4

(* The audited trades of a row are computed from the launch's anchor, and  *)
(* after the gather nothing they were computed from changes.               *)
LEMMA AuditedKept ==
    ASSUME SInv, [Next]_vars PROVE Audited'
<1> USE DEF SInv, IInv, TypeOK
<1>1. ASSUME NEW m \in Mints, verdict'[m] = verdict[m],
             verdict'[m] # None, verdict'[m].launchS # None
      PROVE  /\ phase' \in {"audit", "done"}
             /\ action'[m] # None
             /\ landed'[CreateTx[m]] = verdict'[m].launchS
             /\ \E events \in SUBSET Txs :
                  /\ action'[m].observed \subseteq events
                  /\ \A t \in events : landed'[t] # None
                  /\ verdict'[m].trades =
                       NormalizeTrades(m, events, landed', verdict'[m].launchS)
  <2>1. PICK events \in SUBSET Txs :
          /\ action[m].observed \subseteq events
          /\ \A t \in events : landed[t] # None
          /\ verdict[m].trades = NormalizeTrades(m, events, landed, verdict[m].launchS)
    BY <1>1 DEF Audited
  <2>2. \A t \in events : landed'[t] = landed[t]
    BY <2>1, HistoryStays
  <2>3. NormalizeTrades(m, events, landed', verdict[m].launchS)
          = NormalizeTrades(m, events, landed, verdict[m].launchS)
    BY <2>2, NormalizeTradesStable
  <2>4. phase \in {"audit", "done"} /\ action[m] # None
    BY <1>1 DEF Audited
  <2>5. phase' \in {"audit", "done"} /\ action' = action
    BY <2>4, RowsStayAfterGather
  <2>6. CreateTx[m] \in Txs /\ landed[CreateTx[m]] = verdict[m].launchS
    BY <1>1, TapeAssumption DEF Audited
  <2>7. landed'[CreateTx[m]] = verdict[m].launchS
    BY <1>1, <2>6, HistoryStays
  <2> QED BY <1>1, <2>1, <2>2, <2>3, <2>4, <2>5, <2>7
<1>2. ASSUME NEW m \in Mints, verdict'[m] # verdict[m],
             verdict'[m] # None, verdict'[m].launchS # None
      PROVE  /\ phase' \in {"audit", "done"}
             /\ action'[m] # None
             /\ landed'[CreateTx[m]] = verdict'[m].launchS
             /\ \E events \in SUBSET Txs :
                  /\ action'[m].observed \subseteq events
                  /\ \A t \in events : landed'[t] # None
                  /\ verdict'[m].trades =
                       NormalizeTrades(m, events, landed', verdict'[m].launchS)
  <2>1. FinishAudit(m)
    <3>1. PICK x \in Mints : FinishAudit(x)
      BY <1>2 DEF Next, Tick, Land, Deliver, ReceiveLaunch, CollectEnds, FeedFails,
         StopLogs, Decide, AuditCreate, Sweep, WriteFiles, Terminated, rowVars, vars
    <3>2. \A y \in Mints \ {x} : verdict'[y] = verdict[y]
      BY <3>1 DEF FinishAudit
    <3> QED BY <1>2, <3>1, <3>2
  <2>2. action' = action /\ landed' = landed /\ phase' = "audit"
    BY <2>1 DEF FinishAudit, Auditing, chainVars
  <2>3. audit.pos \in 1..Len(launches) /\ m = launches[audit.pos].mint
    BY <2>1 DEF FinishAudit, Auditing, AuditState
  <2>4. action[m] # None
    BY <2>1, <2>3, AuditedHasRow DEF FinishAudit, Auditing
  <2> DEFINE create == IF audit.createOk THEN {CreateTx[m]} ELSE {}
             missing == (Expected(m) \ Direct(m)) \ create
             accounted(got) == (Direct(m) \cap Expected(m)) \cup create \cup got
             row(got) ==
               [status |-> IF IsValid(accounted(got), Expected(m))
                           THEN "VALID" ELSE "DATA_INVALID",
                launchS |-> audit.launchS, direct |-> Direct(m),
                expected |-> Expected(m), accounted |-> accounted(got),
                trades |-> IF audit.launchS # None
                           THEN AuditTrades(m, Direct(m) \cup (got \cap TradeTxs)) ELSE {}]
  <2>a. PICK got \in SUBSET (missing \cap confirmed) :
          verdict' = [verdict EXCEPT ![m] = row(got)]
    BY <2>1 DEF FinishAudit
  <2>5. /\ verdict'[m].launchS = audit.launchS
        /\ verdict'[m].trades = IF audit.launchS # None
             THEN AuditTrades(m, Direct(m) \cup (got \cap TradeTxs)) ELSE {}
    BY <2>a
  <2> DEFINE events == Direct(m) \cup (got \cap TradeTxs)
  <2>6. events \in SUBSET Txs /\ action[m].observed \subseteq events
    BY <2>4, <2>a DEF Recorded, Direct, Snapshot, Buffer
  <2>7. \A t \in events : landed[t] # None
    BY <2>a DEF Direct, Snapshot, Buffer, Linked
  <2>8. verdict'[m].trades = NormalizeTrades(m, events, landed, verdict'[m].launchS)
    BY <1>2, <2>5 DEF AuditTrades
  <2>9. landed[CreateTx[m]] = verdict'[m].launchS
    BY <1>2, <2>3, <2>5 DEF Anchored
  <2> HIDE DEF events
  <2> QED BY <2>2, <2>4, <2>6, <2>7, <2>8, <2>9
<1> QED BY <1>1, <1>2 DEF Audited

(* Between sweeps the index does not change, and a sweep reads all of it.  *)
LEMMA SweptKept ==
    ASSUME SInv, [Next]_vars PROVE Swept'
<1> USE DEF SInv, IInv, TypeOK
<1>1. ASSUME NEW m \in Mints, Sweep(m) PROVE Swept'
  <2>1. /\ audit.pos \in 1..Len(launches) /\ m = launches[audit.pos].mint
        /\ audit.launchS # None
    BY <1>1 DEF Sweep, Auditing, AuditState, Anchored
  <2>2. /\ audit'.pos = audit.pos /\ audit'.launchS = audit.launchS
        /\ launches' = launches /\ landed' = landed
    BY <1>1 DEF Sweep, AuditState, liveVars, chainVars
  <2>3. ASSUME ~audit'.errors, Cardinality(indexed' \cap TxsOf(m)) <= TxLimit
        PROVE  {t \in indexed' \cap TxsOf(m) : InWindow(t, audit.launchS)}
                 \subseteq audit'.seen
    BY <1>1, <2>3 DEF Sweep, NewestPage, AuditState
  <2> QED BY <2>1, <2>2, <2>3 DEF Swept, IndexedWindow, InWindow
<1>2. ASSUME NEW m \in Mints, FinishAudit(m) PROVE Swept'
  BY <1>2 DEF FinishAudit, AuditStart, Swept
<1>3. ASSUME NEW m \in Mints, AuditCreate(m) PROVE Swept'
  <2>1. audit'.sweeps = 0
    BY <1>3 DEF AuditCreate, Auditing, Anchored, AuditState
  <2> QED BY <2>1 DEF Swept
<1>4. CASE ~(\E m \in Mints : AuditCreate(m) \/ Sweep(m) \/ FinishAudit(m))
  <2>1. audit' = audit /\ indexed' = indexed
    BY <1>4 DEF Next, Tick, Land, Deliver, ReceiveLaunch, CollectEnds, FeedFails, StopLogs,
       Decide, WriteFiles, Terminated, auditVars, vars
  <2>2. \A t \in indexed : landed'[t] = landed[t]
    BY HistoryStays DEF Linked
  <2>3. ASSUME audit.sweeps > 0
        PROVE  /\ audit.pos \in 1..Len(launches')
               /\ audit.launchS # None
               /\ launches'[audit.pos] = launches[audit.pos]
    BY <2>3, LaunchesStay DEF Swept
  <2>4. ASSUME NEW k \in Mints
        PROVE  {t \in indexed \cap TxsOf(k) : InWindow(t, audit.launchS)}'
                 = {t \in indexed \cap TxsOf(k) : InWindow(t, audit.launchS)}
    BY <2>1, <2>2 DEF InWindow
  <2>5. ASSUME audit.sweeps > 0 PROVE launches[audit.pos].mint \in Mints
    BY <2>5, LaunchType DEF Swept
  <2>6. ASSUME audit.sweeps > 0, ~audit.errors,
               Cardinality(indexed \cap TxsOf(launches[audit.pos].mint)) <= TxLimit
        PROVE  {t \in indexed \cap TxsOf(launches[audit.pos].mint) :
                  InWindow(t, audit.launchS)}' \subseteq audit.seen
    <3>1. {t \in indexed \cap TxsOf(launches[audit.pos].mint) : InWindow(t, audit.launchS)}
            \subseteq audit.seen
      BY <2>6 DEF Swept, IndexedWindow
    <3> QED BY <2>1, <2>3, <2>4, <2>5, <2>6, <3>1
  <2>7. ASSUME audit.sweeps > 0
        PROVE  TxsOf(launches[audit.pos].mint)' = TxsOf(launches[audit.pos].mint)
    BY <2>1, <2>3, <2>7
  <2> HIDE DEF TxsOf
  <2> QED BY <2>1, <2>3, <2>6, <2>7 DEF Swept, IndexedWindow
<1> QED BY <1>1, <1>2, <1>3, <1>4

LEMMA NextKeepsSInv == SInv /\ [Next]_vars => SInv'
<1> SUFFICES ASSUME SInv, [Next]_vars PROVE SInv'
  OBVIOUS
<1>1. IInv'
  BY NextKeepsIInv DEF SInv
<1> QED
  BY <1>1, ChronologyKept, GatheredKept, LatestKept, RecordedKept, CapturedKept,
     AnchoredKept, AuditedKept, SweptKept DEF SInv

LEMMA Invariance == Spec => []SInv
  BY InitSInv, NextKeepsSInv, PTL DEF Spec

-----------------------------------------------------------------------------
(* What each property needs of the invariant, and nothing else. *)

(* A trade of the decision is either a re-timed event it observed or the   *)
(* payload's initial buy.                                                  *)
LEMMA DecisionTrade ==
    ASSUME SInv, NEW m \in Mints, action[m] # None, NEW r \in action[m].trades
    PROVE  \/ /\ r.sig \in action[m].observed \cap TxsOf(m)
              /\ r.sec = landed[r.sig] - action[m].at
           \/ r = LaunchInitialTrade(m) /\ m \in DevBuys
  BY DEF SInv, Recorded, NormalizeTrades, EventToTrade

LEMMA QuoteIsLatest == SInv => EntryQuoteNotStale
<1> SUFFICES ASSUME SInv, NEW m \in Mints, action[m] # None,
                    NEW t \in Buffer(m) \ NoState,
                    arrived[t] < BoundaryMs(action[m].at)
             PROVE  action[m].quote # None /\ landed[t] <= landed[action[m].quote]
  BY DEF EntryQuoteNotStale
<1>1. action[m].quote \in LatestStates(action[m].observed)
  BY DEF SInv, Recorded
<1>2. t \in action[m].observed \ NoState
  BY DEF SInv, Recorded
<1>3. action[m].quote \in action[m].observed /\ landed[t] <= landed[action[m].quote]
  BY <1>1, <1>2 DEF LatestStates
<1>4. action[m].observed \subseteq Txs
  BY DEF SInv, Recorded, Direct, Snapshot, Buffer
<1> QED BY <1>3, <1>4, ScanAssumption

LEMMA RescoringKeeps == SInv => AuditKeepsActionTrades
<1> SUFFICES ASSUME SInv, NEW m \in Mints, verdict[m] # None, verdict[m].launchS # None,
                    NEW r \in FeatureTrades(action[m].trades),
                    landed[r.sig] - verdict[m].launchS <= Age
             PROVE  \E a \in FeatureTrades(verdict[m].trades) : a.sig = r.sig
  BY DEF AuditKeepsActionTrades
<1> DEFINE anchor == verdict[m].launchS
<1>1. PICK events \in SUBSET Txs :
        /\ action[m].observed \subseteq events
        /\ \A t \in events : landed[t] # None
        /\ verdict[m].trades = NormalizeTrades(m, events, landed, anchor)
  BY DEF SInv, Audited
<1>2. action[m] # None /\ landed[CreateTx[m]] = anchor /\ CreateTx[m] \in TxsOf(m)
  BY TapeAssumption DEF SInv, Audited
<1>3. anchor \in Int
  BY DEF SInv, IInv, TypeOK, Verdict
<1>4. CASE r.sig \in events \cap TxsOf(m)
  <2>1. /\ landed[r.sig] \in Int
        /\ landed[CreateTx[m]] <= landed[r.sig]
    BY <1>1, <1>4 DEF SInv, IInv, TypeOK, Chronology
  <2>2. EventToTrade(r.sig, landed, anchor) \in verdict[m].trades
    BY <1>1, <1>4 DEF NormalizeTrades
  <2>3. EventToTrade(r.sig, landed, anchor) \in FeatureTrades(verdict[m].trades)
    BY <1>2, <1>3, <2>1, <2>2, TapeAssumption DEF FeatureTrades, EventToTrade
  <2> QED BY <2>3 DEF EventToTrade
<1>5. CASE r = LaunchInitialTrade(m) /\ m \in DevBuys /\ r.sig \notin events
  <2>1. r \in verdict[m].trades
    BY <1>1, <1>5 DEF NormalizeTrades, LaunchInitialTrade
  <2>2. r.sec = 0
    BY <1>5 DEF LaunchInitialTrade
  <2> QED BY <2>1, <2>2, TapeAssumption DEF FeatureTrades
<1>6. r \in action[m].trades
  BY DEF FeatureTrades
<1>7. r = LaunchInitialTrade(m) => r.sig \in TxsOf(m)
  BY <1>2 DEF LaunchInitialTrade
<1> QED BY <1>1, <1>2, <1>4, <1>5, <1>6, <1>7, DecisionTrade

LEMMA InitialBuyOnce == SInv => AuditCountsInitialBuy
<1> SUFFICES ASSUME SInv, NEW m \in DevBuys, verdict[m] # None, verdict[m].launchS # None
             PROVE  {r \in verdict[m].trades : r.sig = CreateTx[m]} = {LaunchInitialTrade(m)}
  BY DEF AuditCountsInitialBuy
<1>1. m \in Mints /\ CreateTx[m] \in TxsOf(m)
  BY TapeAssumption
<1>2. landed[CreateTx[m]] = verdict[m].launchS /\ verdict[m].launchS \in Int
  BY <1>1 DEF SInv, Audited, IInv, TypeOK, Verdict
<1>3. PICK events \in SUBSET Txs :
        verdict[m].trades = NormalizeTrades(m, events, landed, verdict[m].launchS)
  BY <1>1 DEF SInv, Audited
<1>4. EventToTrade(CreateTx[m], landed, verdict[m].launchS) = LaunchInitialTrade(m)
  BY <1>2 DEF EventToTrade, LaunchInitialTrade
<1>5. \A t \in Txs : EventToTrade(t, landed, verdict[m].launchS).sig = t
  BY DEF EventToTrade
<1>6. LaunchInitialTrade(m).sig = CreateTx[m]
  BY DEF LaunchInitialTrade
<1> HIDE DEF TxsOf
<1>7. \A r \in verdict[m].trades : r.sig = CreateTx[m] => r = LaunchInitialTrade(m)
  BY <1>3, <1>4, <1>5 DEF NormalizeTrades, TxsOf
<1>8. LaunchInitialTrade(m) \in verdict[m].trades
  BY <1>1, <1>3, <1>4 DEF NormalizeTrades
<1> QED BY <1>6, <1>7, <1>8

LEMMA ValidRowsCovered ==
    ASSUME SInv, [Next]_vars, NEW m \in Mints,
           verdict'[m] # verdict[m], verdict'[m].status = "VALID",
           Cardinality(indexed \cap TxsOf(m)) <= TxLimit
    PROVE  IndexedWindow(m, verdict'[m].launchS) \subseteq verdict'[m].expected
<1> USE DEF SInv, IInv, TypeOK
<1>1. FinishAudit(m)
  <2>1. PICK x \in Mints : FinishAudit(x)
    BY DEF Next, Tick, Land, Deliver, ReceiveLaunch, CollectEnds, FeedFails, StopLogs,
       Decide, AuditCreate, Sweep, WriteFiles, Terminated, rowVars, vars
  <2>2. \A y \in Mints \ {x} : verdict'[y] = verdict[y]
    BY <2>1 DEF FinishAudit
  <2> QED BY <2>1, <2>2
<1>2. m = launches[audit.pos].mint
  BY <1>1 DEF FinishAudit, Auditing
<1>3. PICK accounted : \E direct, trades : verdict' = [verdict EXCEPT ![m] =
        [status |-> IF IsValid(accounted, Expected(m)) THEN "VALID" ELSE "DATA_INVALID",
         launchS |-> audit.launchS, direct |-> direct, expected |-> Expected(m),
         accounted |-> accounted, trades |-> trades]]
  BY <1>1 DEF FinishAudit
<1>4. /\ IsValid(accounted, Expected(m))
      /\ verdict'[m].launchS = audit.launchS
      /\ verdict'[m].expected = Expected(m)
  BY <1>3
<1>5. ~audit.errors /\ audit.sweeps > 0 /\ Expected(m) = audit.seen
  BY <1>4 DEF IsValid, Expected, AuditState
<1> QED BY <1>2, <1>4, <1>5 DEF Swept

-----------------------------------------------------------------------------
(* Whatever was announced again, the audit and the files work on the row   *)
(* of the last announcement.                                               *)
THEOREM AuditOnLatestRow == Spec => []AuditedRowIsLatest
<1>1. SInv => AuditedRowIsLatest
  BY AuditedHasRow DEF AuditedRowIsLatest
<1> QED BY Invariance, <1>1, PTL

(* The tape of a mint is the input of its first decision: nothing later,   *)
(* and nothing the audit supplied.                                         *)
THEOREM TapeOfFirstDecision == Spec => []TapeFromFirstDecision
<1>1. SInv => TapeFromFirstDecision
  BY DEF SInv, Captured
<1> QED BY Invariance, <1>1, PTL

(* Nothing that had arrived before the decision boundary has a more recent *)
(* curve state than the entry quote.                                       *)
THEOREM QuoteFresh == Spec => []EntryQuoteNotStale
  BY Invariance, QuoteIsLatest, PTL

(* Re-scoring from the chain anchor loses no trade of the decision that    *)
(* belongs to the chain's own window.                                      *)
THEOREM RescoringConservative == Spec => []AuditKeepsActionTrades
  BY Invariance, RescoringKeeps, PTL

(* The audited tape counts the creator's initial buy exactly once. *)
THEOREM InitialBuyCountedOnce == Spec => []AuditCountsInitialBuy
  BY Invariance, InitialBuyOnce, PTL

(* A VALID row accounts against the whole index of its window, provided    *)
(* the history fits the page the code asks for.                            *)
THEOREM ValidIsComplete == Spec => ValidCoversIndex
<1>1. SInv /\ [Next]_vars =>
        [\A m \in Mints :
           /\ verdict'[m] # verdict[m]
           /\ verdict'[m].status = "VALID"
           /\ Cardinality(indexed \cap TxsOf(m)) <= TxLimit
           => IndexedWindow(m, verdict'[m].launchS) \subseteq verdict'[m].expected]_vars
  BY ValidRowsCovered
<1> QED BY Invariance, <1>1, PTL DEF Spec, ValidCoversIndex
=============================================================================
