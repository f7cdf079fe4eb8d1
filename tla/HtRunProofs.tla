------------------------------ MODULE HtRunProofs ------------------------------
(***************************************************************************)
(* The safety properties of HtRun, for any mints, transactions, scores and *)
(* quotas.  A row is made from the buffer of its mint when the decision    *)
(* wakes and is only sorted and annotated afterwards; so every             *)
(* announcement keeps its row, the row its tape (IInv), and what the later *)
(* steps said of the row stays what they would say of it (RInv).           *)
(***************************************************************************)
EXTENDS HtRun, PythonSeqsProofs

Capturing == stage \in {"capture", "gather"}

Later == {"audit", "forensics", "gate", "drift", "package", "done"}

IsList(s) == s \in Seq(ToSet(s))

RowFields ==
    {"mint", "at", "input", "ten", "decision", "quote", "tags", "audit", "forensics", "gate"}

Types ==
    /\ clock \in Nat
    /\ stage \in {"capture", "gather", "select", "lost"} \cup Later
    /\ launches \in Seq([mint : Mints, at : Nat])
    /\ DOMAIN events = Mints
    /\ \A m \in Mints : IsList(events[m]) /\ \A ev \in ToSet(events[m]) : ev.at \in Nat
    /\ kept \subseteq Txs
    /\ decided \subseteq DOMAIN launches
    /\ IsList(rows) /\ IsList(tapes)
    /\ \A r \in ToSet(rows) : DOMAIN r = RowFields /\ r.mint \in Mints /\ r.at \in Nat
    /\ \A t \in ToSet(tapes) : t.mint \in Mints /\ t.at \in Nat

(* What is buffered came with a notification that was kept. *)
Buffered == \A m \in Mints : ToSet(events[m]) \subseteq UNION {ToSet(Streamed[tx]) : tx \in kept}

(* The announcements that have their row: all, once the capture is over.   *)
Known == IF Capturing THEN decided ELSE DOMAIN launches

Tally == Len(rows) = Cardinality(Known)

Scored ==
    \A i \in Known : \E r \in ToSet(rows) : r.mint = launches[i].mint /\ r.at = launches[i].at

InTime == \A r \in ToSet(rows) : \A x \in ToSet(r.input) : x.sec <= Age

(* Rows and tapes are of known announcements, and made together. *)
Origin == \A x \in ToSet(rows) \cup ToSet(tapes) : \E i \in Known : launches[i].mint = x.mint

Paired ==
    \A r \in ToSet(rows) :
        /\ \E t \in ToSet(tapes) : t.mint = r.mint
        /\ AnnouncedOnce(r.mint) => \A t \in ToSet(tapes) : t.mint = r.mint => t.trades = r.input

(* As many rows as announcements are below a hash. *)
Under(seq, places, h) == {i \in places : Hash["random_all"][seq[i].mint] < h}

Below ==
    \A m \in Mints :
        LET h == Hash["random_all"][m]
        IN  Cardinality(Under(rows, DOMAIN rows, h)) = Cardinality(Under(launches, Known, h))

Packaged ==
    /\ stage # "done" => package.population = <<>> /\ package.rows = <<>>
    /\ PopulationComplete /\ PackagedTapeIsInput

IInv ==
    /\ Types /\ Buffered /\ Tally /\ Scored /\ InTime /\ Origin /\ Paired /\ Below
    /\ ControlsIgnoreScores /\ Packaged
-----------------------------------------------------------------------------
(* What a notification and a fetched transaction say *)

(* The payloads that decode, those without a later one of the same event. *)
Decoding(ps) == {i \in DOMAIN ps : Decodes(ps[i])}

Kept(ps) ==
    {i \in Decoding(ps) : \A j \in Decoding(ps) :
        j > i => EventKey(decode_trade_event_bytes(ps[j])) # EventKey(decode_trade_event_bytes(ps[i]))}

(* The extraction has one event of each kept payload.  *)
LEMMA LastDecoded ==
    ASSUME NEW ps \in Seq(Payload)
    PROVE  /\ IsList(LastOfEach(DecodedOf(ps), EventKey))
           /\ ToSet(LastOfEach(DecodedOf(ps), EventKey)) = {decode_trade_event_bytes(ps[i]) : i \in Kept(ps)}
<1> DEFINE I == Decoding(ps)
           dec(i) == decode_trade_event_bytes(ps[i])
<1>1. I \subseteq 1..Len(ps) /\ IsFiniteSet(I)
  <2>1. I \subseteq 1..Len(ps)
    BY DEF Decoding
  <2> QED
    BY <2>1, FS_Interval, FS_Subset
<1>2. PICK order : order = Ascending(I)
  OBVIOUS
<1>3. PICK c \in Nat : c = Cardinality(I)
  BY <1>1, AscendingPlaces
<1>4. /\ order \in [1..c -> I] /\ ToSet(order) = I
      /\ \A k, l \in 1..c : k < l => order[k] < order[l]
  BY <1>1, <1>2, <1>3, AscendingPlaces
<1>5. PICK D : D = DecodedOf(ps)
  OBVIOUS
<1>6. DOMAIN D = 1..c /\ \A k \in 1..c : D[k] = dec(order[k])
  <2>1. D = [k \in DOMAIN At(ps, order) |-> decode_trade_event_bytes(At(ps, order)[k])]
    BY <1>2, <1>5 DEF DecodedOf, Those, Decoding
  <2>2. At(ps, order) = [k \in 1..c |-> ps[order[k]]]
    BY <1>4 DEF At
  <2> QED
    BY <2>1, <2>2
<1>7. PICK keys : keys = [k \in DOMAIN D |-> EventKey(D[k])]
  OBVIOUS
<1>8. D \in Seq(ToSet(D)) /\ Len(D) = c
  <2>1. D = [k \in 1..c |-> D[k]]
    BY <1>5, <1>6 DEF DecodedOf
  <2>2. D \in [1..c -> ToSet(D)]
    BY <1>6, <2>1 DEF ToSet
  <2> QED
    BY <2>2
<1> DEFINE last == {k \in 1..c : \A l \in 1..c : l > k => keys[l] # keys[k]}
<1>9. /\ At(D, LastPlaces(keys)) \in Seq(ToSet(D))
      /\ ToSet(At(D, LastPlaces(keys))) = {D[k] : k \in last}
  <2>1. DOMAIN keys = 1..Len(D)
    BY <1>6, <1>7, <1>8
  <2>2. /\ At(D, LastPlaces(keys)) \in Seq(ToSet(D))
        /\ ToSet(At(D, LastPlaces(keys))) = {D[l] : l \in Lasts(keys)}
    BY <1>8, <2>1, LastOnesKept
  <2>3. Lasts(keys) = last
    BY <1>6, <1>7 DEF Lasts
  <2> QED
    BY <2>2, <2>3
<1>10. LastOfEach(D, EventKey) = At(D, LastPlaces(keys))
  BY <1>7 DEF LastOfEach
<1>11. \A k \in 1..c : keys[k] = EventKey(dec(order[k]))
  BY <1>6, <1>7
<1>12. \A k \in 1..c : k \in last <=> order[k] \in Kept(ps)
  <2> TAKE k \in 1..c
  <2>1. ASSUME k \in last PROVE order[k] \in Kept(ps)
    <3>1. ASSUME NEW j \in I, j > order[k] PROVE EventKey(dec(j)) # EventKey(dec(order[k]))
      <4>1. PICK l \in 1..c : order[l] = j
        BY <1>4 DEF ToSet
      <4>2. l > k
        BY <1>1, <1>4, <3>1, <4>1
      <4> QED
        BY <1>11, <2>1, <4>1, <4>2
    <3>2. order[k] \in I
      BY <1>4
    <3> QED
      BY <3>1, <3>2 DEF Kept
  <2>2. ASSUME order[k] \in Kept(ps) PROVE k \in last
    <3>1. ASSUME NEW l \in 1..c, l > k PROVE keys[l] # keys[k]
      <4>1. order[l] \in I /\ order[l] > order[k]
        BY <1>1, <1>4, <3>1
      <4> QED
        BY <1>11, <2>2, <4>1 DEF Kept
    <3> QED
      BY <3>1
  <2> QED
    BY <2>1, <2>2
<1>13. {D[k] : k \in last} = {dec(i) : i \in Kept(ps)}
  <2>1. ASSUME NEW k \in last PROVE \E i \in Kept(ps) : D[k] = dec(i)
    BY <1>6, <1>12
  <2>2. ASSUME NEW i \in Kept(ps) PROVE \E k \in last : D[k] = dec(i)
    <3>1. PICK k \in 1..c : order[k] = i
      BY <1>4 DEF ToSet, Kept
    <3>2. k \in last
      BY <1>12, <3>1
    <3> QED
      BY <1>6, <3>1, <3>2
  <2> HIDE DEF last, dec
  <2> QED
    BY <2>1, <2>2
<1>14. ToSet(LastOfEach(D, EventKey)) \subseteq ToSet(D) => IsList(LastOfEach(D, EventKey))
  <2>1. PICK m \in Nat : DOMAIN At(D, LastPlaces(keys)) = 1..m
    BY <1>9
  <2> QED
    BY <1>9, <1>10, <2>1 DEF IsList, ToSet
<1>15. ToSet(LastOfEach(D, EventKey)) \subseteq ToSet(D)
  BY <1>6, <1>9, <1>10 DEF ToSet
<1> QED
  BY <1>5, <1>9, <1>10, <1>13, <1>14, <1>15

(* Of the instructions and the log lines together, what the log lines      *)
(* alone would give is there: their payloads come last.                    *)
LEMMA LogsComeLast ==
    ASSUME NEW inner \in Seq(Payload), NEW logs \in Seq(Payload)
    PROVE  ToSet(LastOfEach(DecodedOf(logs), EventKey))
             \subseteq ToSet(LastOfEach(DecodedOf(inner \o logs), EventKey))
<1> DEFINE all == inner \o logs
           n == Len(inner)
<1>1. all \in Seq(Payload) /\ Len(all) = n + Len(logs)
  OBVIOUS
<1>2. \A j \in DOMAIN logs : n + j \in DOMAIN all /\ all[n + j] = logs[j]
  OBVIOUS
<1>3. \A j \in DOMAIN all : j > n => j - n \in DOMAIN logs /\ all[j] = logs[j - n]
  OBVIOUS
<1>4. n \in Nat /\ (\A j \in DOMAIN logs : j \in Nat \ {0}) /\ (\A j \in DOMAIN all : j \in Nat)
  OBVIOUS
<1> HIDE DEF all, n
<1>5. ASSUME NEW i \in Kept(logs) PROVE n + i \in Kept(all) /\ all[n + i] = logs[i]
  <2>1. i \in DOMAIN logs /\ Decodes(logs[i])
    BY DEF Kept, Decoding
  <2>2. n + i \in Decoding(all) /\ all[n + i] = logs[i]
    BY <1>2, <2>1 DEF Decoding
  <2>3. ASSUME NEW j \in Decoding(all), j > n + i
        PROVE  EventKey(decode_trade_event_bytes(all[j])) # EventKey(decode_trade_event_bytes(all[n + i]))
    <3>1. j \in DOMAIN all /\ Decodes(all[j])
      BY DEF Decoding
    <3>2. j > n /\ j - n > i
      BY <1>4, <2>1, <2>3, <3>1
    <3>3. j - n \in Decoding(logs) /\ all[j] = logs[j - n]
      BY <1>3, <3>1, <3>2 DEF Decoding
    <3> QED
      BY <2>2, <3>2, <3>3 DEF Kept
  <2> QED
    BY <2>2, <2>3 DEF Kept
<1>6. {decode_trade_event_bytes(logs[i]) : i \in Kept(logs)}
        \subseteq {decode_trade_event_bytes(all[i]) : i \in Kept(all)}
  BY <1>5
<1> QED
  BY <1>1, <1>6, LastDecoded DEF all

(* What the worker reads in a notification: events with a time and an      *)
(* amount, each of which the audit finds when it fetches the transaction.                  *)
LEMMA FetchHasStream ==
    ASSUME NEW tx \in Txs
    PROVE  /\ IsList(Streamed[tx])
           /\ \A ev \in ToSet(Streamed[tx]) : ev.at \in Nat /\ ev.sol \in Nat
           /\ ToSet(Streamed[tx]) \subseteq Fetched[tx]
<1>1. tx.inner \in Seq(Payload) /\ tx.logs \in Seq(Payload)
  BY HtRunAssumption
<1>2. /\ Streamed[tx] = trade_events_from_logs(tx)
      /\ Fetched[tx] = ToSet(extract_trade_events_from_transaction(tx))
  BY DEF Streamed, Fetched
<1>3. CASE tx.ok
  <2>1. /\ Streamed[tx] = LastOfEach(DecodedOf(tx.logs), EventKey)
        /\ Fetched[tx] = ToSet(LastOfEach(DecodedOf(tx.inner \o tx.logs), EventKey))
    BY <1>2, <1>3 DEF trade_events_from_logs, extract_trade_events_from_transaction
  <2>2. \A p \in Payload : decode_trade_event_bytes(p).at \in Nat /\ decode_trade_event_bytes(p).sol \in Nat
    <3> TAKE p \in Payload
    <3>1. p.ev \in PumpTradeEvent
      BY DEF Payload
    <3>2. DOMAIN p.ev = {"token", "user", "at", "buy", "sol", "tok", "virtualSol", "vt", "realSol", "rt",
                         "quote", "mint", "virtualQuote", "rq", "fees", "sig", "slot"} /\ p.ev.at \in Nat /\ p.ev.sol \in Nat
      BY <3>1 DEF PumpTradeEvent
    <3>3. decode_trade_event_bytes(p).at = p.ev.at /\ decode_trade_event_bytes(p).sol = p.ev.sol
      BY <3>2 DEF decode_trade_event_bytes
    <3> QED
      BY <3>2, <3>3
  <2>3. \A i \in Kept(tx.logs) : tx.logs[i] \in Payload
    BY <1>1 DEF Kept, Decoding
  <2>4. \A ev \in ToSet(Streamed[tx]) : ev.at \in Nat /\ ev.sol \in Nat
    BY <1>1, <2>1, <2>2, <2>3, LastDecoded
  <2> QED
    BY <1>1, <2>1, <2>4, LastDecoded, LogsComeLast
<1>4. CASE ~tx.ok
  <2>1. Streamed[tx] = <<>>
    BY <1>2, <1>4 DEF trade_events_from_logs
  <2> QED
    BY <2>1 DEF IsList, ToSet
<1> QED
  BY <1>3, <1>4
-----------------------------------------------------------------------------
(* The tail of a payload *)

(* Where the tail's field i ends. *)
End(holders, i) == IF i = 0 THEN Body ELSE Offset(holders, i) + Widths(holders)[i]

(* The first field begins behind the body, each next one where the one     *)
(* before it ends.                                                         *)
LEMMA FieldsFollow ==
    ASSUME NEW holders \in Nat
    PROVE  \A i \in Fields : Offset(holders, i) \in Nat /\ Offset(holders, i) = End(holders, i - 1)
<1> DEFINE w == Widths(holders)
           isStart(f) == f = [j \in Fields |-> IF j = 1 THEN Body ELSE f[j - 1] + w[j - 1]]
           start == CHOOSE f : isStart(f)
           tail == <<0, 1, 9, 17, 25, 33, 37 + 34 * holders, 69 + 34 * holders, 77 + 34 * holders, 85 + 34 * holders>>
           f0 == [j \in Fields |-> Body + tail[j]]
<1>1. Body \in Nat
  BY DecodingAssumption
<1>2. Fields = 1..10 /\ \A j \in Fields : j = 1 \/ j - 1 \in 1..9
  BY DEF Fields
<1>3. \A j \in 1..10 : tail[j] \in Nat
  OBVIOUS
<1>4. tail[1] = 0 /\ \A j \in 1..9 : tail[j + 1] = tail[j] + w[j] /\ w[j] \in Nat
  BY DEF Widths
<1>5. isStart(f0)
  <2>1. ASSUME NEW j \in Fields
        PROVE  Body + tail[j] = IF j = 1 THEN Body ELSE f0[j - 1] + w[j - 1]
    <3>1. CASE j = 1
      BY <1>1, <1>4, <3>1
    <3>2. CASE j # 1
      <4>1. PICK k \in 1..9 : k = j - 1
        BY <1>2, <3>2
      <4>2. j = k + 1 /\ k \in Fields
        BY <1>2, <4>1
      <4>3. f0[k] = Body + tail[k]
        BY <4>2
      <4>4. tail[j] = tail[k] + w[k] /\ tail[k] \in Nat /\ w[k] \in Nat
        BY <1>3, <1>4, <4>2
      <4> HIDE DEF tail, w, f0
      <4> QED
        BY <1>1, <3>2, <4>1, <4>3, <4>4
    <3> QED
      BY <3>1, <3>2
  <2> HIDE DEF tail, w
  <2> QED
    BY <2>1
<1>6. isStart(start)
  <2> HIDE DEF f0, isStart
  <2> QED
    BY <1>5
<1>7. \A i \in Fields : Offset(holders, i) = start[i]
  BY DEF Offset
<1> HIDE DEF start, w, tail, f0
<1>8. start[1] = Body /\ \A j \in 1..9 : start[j + 1] = start[j] + w[j]
  <2>1. \A j \in 1..10 : start[j] = IF j = 1 THEN Body ELSE start[j - 1] + w[j - 1]
    BY <1>2, <1>6
  <2>2. ASSUME NEW j \in 1..9 PROVE start[j + 1] = start[j] + w[j]
    <3>1. j + 1 \in 1..10 /\ j + 1 # 1 /\ (j + 1) - 1 = j
      OBVIOUS
    <3> QED
      BY <2>1, <3>1
  <2> QED
    BY <2>1, <2>2
<1>9. /\ start[1] \in Nat /\ start[2] \in Nat /\ start[3] \in Nat /\ start[4] \in Nat /\ start[5] \in Nat
      /\ start[6] \in Nat /\ start[7] \in Nat /\ start[8] \in Nat /\ start[9] \in Nat /\ start[10] \in Nat
  <2>1. \A j \in 1..9 : start[j] \in Nat => start[j + 1] \in Nat
    BY <1>4, <1>8
  <2> HIDE DEF isStart
  <2>2. start[1] \in Nat /\ start[2] \in Nat /\ start[3] \in Nat /\ start[4] \in Nat
    BY <1>1, <1>8, <2>1
  <2>3. start[5] \in Nat /\ start[6] \in Nat /\ start[7] \in Nat
    BY <2>1, <2>2
  <2> QED
    BY <2>1, <2>2, <2>3
<1>10. \A i \in 1..10 : start[i] \in Nat
  BY <1>9
<1>11. ASSUME NEW i \in Fields PROVE start[i] = End(holders, i - 1)
  <2>1. CASE i = 1
    BY <1>8, <2>1 DEF End
  <2>2. CASE i # 1
    <3>1. PICK k \in 1..9 : k = i - 1
      BY <1>2, <2>2
    <3>2. i = k + 1 /\ k # 0 /\ k \in Fields
      BY <1>2, <3>1
    <3>3. start[i] = start[k] + w[k]
      BY <1>8, <3>2
    <3>4. End(holders, k) = start[k] + w[k]
      BY <1>7, <3>2 DEF End, w
    <3> QED
      BY <3>1, <3>3, <3>4
  <2> QED
    BY <2>1, <2>2
<1> QED
  BY <1>2, <1>7, <1>10, <1>11
(* What was read when i fields were tried: those that are there in full.   *)
(* Past the end nothing that is left is as long as a field.                *)
ReadUpTo(p, r, i) ==
    /\ r.astray = FALSE /\ r.pos \in Nat /\ r.pos <= p.len
    /\ r.got = {j \in 1..i : End(p.holders, j) <= p.len}
    /\ End(p.holders, i) <= p.len => r.pos = End(p.holders, i)
    /\ End(p.holders, i) > p.len => p.len - r.pos < 4 /\ (i < Shareholders => r.pos = p.len)

LEMMA OneFieldMore ==
    ASSUME NEW p, p.holders \in Nat, p.len \in Nat, NEW r, DOMAIN r = {"pos", "got", "astray"},
           NEW i \in Fields, ReadUpTo(p, r, i - 1)
    PROVE  DOMAIN Take(p, r, i) = {"pos", "got", "astray"} /\ ReadUpTo(p, Take(p, r, i), i)
<1>1. End(p.holders, i - 1) \in Nat /\ r.pos \in Nat
  <2>1. End(p.holders, i - 1) \in Nat
    BY FieldsFollow
  <2>2. r.pos \in Nat
    BY DEF ReadUpTo
  <2> QED
    BY <2>1, <2>2
<1>2. PICK len \in Nat, old \in Nat, pos \in Nat : len = p.len /\ old = End(p.holders, i - 1) /\ pos = r.pos
  BY <1>1
<1>3. PICK w, new : w = Widths(p.holders)[i] /\ new = End(p.holders, i)
  OBVIOUS
<1>4. /\ len = p.len /\ w = Widths(p.holders)[i] /\ pos = r.pos
      /\ old = End(p.holders, i - 1) /\ new = End(p.holders, i)
  BY <1>2, <1>3
<1>5. /\ w \in Nat /\ w >= 1 /\ (i = Shareholders => w >= 4) /\ (i > Shareholders => w >= 8)
  <2>1. PICK h \in Nat : h = p.holders
    OBVIOUS
  <2>2. i = 1 \/ i = 2 \/ i = 3 \/ i = 4 \/ i = 5 \/ i = 6 \/ i = 7 \/ i = 8 \/ i = 9 \/ i = 10
    BY DEF Fields
  <2> QED
    BY <1>4, <2>1, <2>2 DEF Widths, Shareholders
<1>6. Offset(p.holders, i) = old /\ new = old + w
  <2>1. Offset(p.holders, i) = old
    BY <1>4, FieldsFollow
  <2>2. new = Offset(p.holders, i) + w
    BY <1>4 DEF End, Fields
  <2> QED
    BY <2>1, <2>2
<1>7. /\ r.astray = FALSE /\ pos <= len /\ (old <= len => pos = old)
      /\ (old > len => len - pos < 4 /\ (i - 1 < Shareholders => pos = len))
      /\ r.got = {j \in 1..i - 1 : End(p.holders, j) <= len}
  BY <1>4 DEF ReadUpTo
<1>8. i \in 1..10 /\ Shareholders = 6
  BY DEF Fields, Shareholders
<1>9. PICK least \in Nat : least = IF i = Shareholders THEN 4 ELSE 1
  OBVIOUS
<1>10. PICK G : G = {j \in 1..i : End(p.holders, j) <= len}
  OBVIOUS
<1>11. (new <= len => G = r.got \cup {i}) /\ (new > len => G = r.got)
  <2>1. \A j : j \in 1..i <=> j \in 1..i - 1 \/ j = i
    BY <1>8
  <2>2. \A j : j \in G <=> j \in 1..i /\ End(p.holders, j) <= len
    BY <1>10
  <2>3. \A j : j \in r.got <=> j \in 1..i - 1 /\ End(p.holders, j) <= len
    BY <1>7
  <2>4. End(p.holders, i) = new /\ new \in Nat
    BY <1>4, <1>5, <1>6
  <2>5. new > len => ~(new <= len)
    BY <2>4
  <2> QED
    BY <2>1, <2>2, <2>3, <2>4, <2>5
<1>12. CASE len - pos < least
  <2>1. Take(p, r, i) = r
    BY <1>4, <1>9, <1>12 DEF Take
  <2>2. new > len /\ len - pos < 4 /\ (i < Shareholders => pos = len)
    BY <1>5, <1>6, <1>7, <1>8, <1>9, <1>12
  <2> QED
    BY <1>4, <1>7, <1>10, <1>11, <2>1, <2>2 DEF ReadUpTo
<1>13. CASE len - pos >= least /\ pos + w > len
  <2>1. Take(p, r, i) = [r EXCEPT !.pos = len]
    BY <1>4, <1>9, <1>13 DEF Take
  <2>2. new > len
    BY <1>5, <1>6, <1>7, <1>13
  <2>3. PICK s : s = [r EXCEPT !.pos = len]
    OBVIOUS
  <2>4. DOMAIN s = {"pos", "got", "astray"} /\ s.pos = len /\ s.got = r.got /\ s.astray = r.astray
    BY <2>3
  <2>5. ReadUpTo(p, s, i)
    BY <1>4, <1>7, <1>10, <1>11, <2>2, <2>4 DEF ReadUpTo
  <2> QED
    BY <2>1, <2>3, <2>4, <2>5
<1>14. CASE len - pos >= least /\ pos + w <= len
  <2>1. old <= len /\ pos = old
    BY <1>5, <1>7, <1>8, <1>9, <1>14
  <2>2. Take(p, r, i) = [pos |-> new, got |-> r.got \cup {i}, astray |-> FALSE]
    <3>1. ~(len - pos < least) /\ ~(pos + w > len)
      BY <1>5, <1>14
    <3>2. Take(p, r, i) = [pos |-> pos + w, got |-> r.got \cup {i},
                           astray |-> r.astray \/ pos # Offset(p.holders, i)]
      BY <1>4, <1>9, <3>1 DEF Take
    <3> QED
      BY <1>6, <1>7, <2>1, <3>2
  <2>3. new <= len /\ new \in Nat
    BY <1>5, <1>6, <1>14, <2>1
  <2> QED
    BY <1>4, <1>10, <1>11, <2>2, <2>3 DEF ReadUpTo
<1> QED
  BY <1>5, <1>12, <1>13, <1>14

(* However many shareholders and however many bytes: each field is read    *)
(* where it was written, and those that are there in full are read.        *)
THEOREM TailIsRead ==
    ASSUME NEW p, p.holders \in Nat, p.len \in Nat, Body <= p.len
    PROVE  /\ Reading(p).astray = FALSE
           /\ Reading(p).got = {i \in Fields : Offset(p.holders, i) + Widths(p.holders)[i] <= p.len}
<1> DEFINE first == [pos |-> Body, got |-> {}, astray |-> FALSE]
           isRead(f) == f = [i \in 0..10 |-> IF i = 0 THEN first ELSE Take(p, f[i - 1], i)]
           read == CHOOSE f : isRead(f)
<1>1. Reading(p) = read[10]
  BY DEF Reading
<1>2. \E f : isRead(f)
  <2>1. PICK r1, r2, r3, r4, r5 :
          /\ r1 = Take(p, first, 1) /\ r2 = Take(p, r1, 2) /\ r3 = Take(p, r2, 3)
          /\ r4 = Take(p, r3, 4) /\ r5 = Take(p, r4, 5)
    OBVIOUS
  <2>2. PICK r6, r7, r8, r9, r10 :
          /\ r6 = Take(p, r5, 6) /\ r7 = Take(p, r6, 7) /\ r8 = Take(p, r7, 8)
          /\ r9 = Take(p, r8, 9) /\ r10 = Take(p, r9, 10)
    OBVIOUS
  <2> DEFINE all == <<r1, r2, r3, r4, r5, r6, r7, r8, r9, r10>>
             f0 == [i \in 0..10 |-> IF i = 0 THEN first ELSE all[i]]
  <2>3. ASSUME NEW i \in 0..10 PROVE f0[i] = IF i = 0 THEN first ELSE Take(p, f0[i - 1], i)
    <3>1. /\ f0[0] = first /\ f0[1] = r1 /\ f0[2] = r2 /\ f0[3] = r3 /\ f0[4] = r4 /\ f0[5] = r5
          /\ f0[6] = r6 /\ f0[7] = r7 /\ f0[8] = r8 /\ f0[9] = r9 /\ f0[10] = r10
      OBVIOUS
    <3> HIDE DEF f0, first, all
    <3>2. \/ i = 0 \/ i = 1 \/ i = 2 \/ i = 3 \/ i = 4 \/ i = 5
          \/ i = 6 \/ i = 7 \/ i = 8 \/ i = 9 \/ i = 10
      OBVIOUS
    <3> QED
      BY <2>1, <2>2, <3>1, <3>2
  <2>4. f0 = [i \in 0..10 |-> f0[i]]
    OBVIOUS
  <2> HIDE DEF f0, first
  <2>5. isRead(f0)
    BY <2>3, <2>4
  <2> HIDE DEF isRead
  <2> QED
    BY <2>5
<1>3. isRead(read)
  <2> HIDE DEF isRead
  <2> QED
    BY <1>2
<1> HIDE DEF read
<1>4. read[0] = first /\ \A i \in Fields : read[i] = Take(p, read[i - 1], i)
  <2> HIDE DEF first
  <2>1. \A i \in 0..10 : read[i] = IF i = 0 THEN first ELSE Take(p, read[i - 1], i)
    BY <1>3
  <2> QED
    BY <2>1 DEF Fields
<1> DEFINE good(i) == DOMAIN read[i] = {"pos", "got", "astray"} /\ ReadUpTo(p, read[i], i)
<1>5. good(0)
  <2>1. {j \in 1..0 : End(p.holders, j) <= p.len} = {}
    OBVIOUS
  <2> QED
    BY <1>4, <2>1, DecodingAssumption DEF ReadUpTo, End
<1>6. ASSUME NEW i \in Fields, good(i - 1) PROVE good(i)
  BY <1>4, <1>6, OneFieldMore
<1>7. good(10)
  <2>1. \A i \in Fields : good(i - 1) => good(i)
    BY <1>6
  <2> HIDE DEF good
  <2>2. good(1) /\ good(2) /\ good(3)
    BY <1>5, <2>1 DEF Fields
  <2>3. good(4) /\ good(5) /\ good(6)
    BY <2>1, <2>2 DEF Fields
  <2>4. good(7) /\ good(8)
    BY <2>1, <2>3 DEF Fields
  <2> QED
    BY <2>1, <2>4 DEF Fields
<1> QED
  BY <1>1, <1>7 DEF ReadUpTo, End, Fields

-----------------------------------------------------------------------------
(* Lists of the run *)

(* Appending adds one element. *)
LEMMA Appended ==
    ASSUME NEW s, IsList(s), NEW x
    PROVE  /\ IsList(Append(s, x)) /\ ToSet(Append(s, x)) = ToSet(s) \cup {x}
           /\ Len(s) \in Nat /\ Len(Append(s, x)) = Len(s) + 1 /\ DOMAIN s = 1..Len(s)
           /\ \A i \in DOMAIN s : Append(s, x)[i] = s[i]
           /\ Append(s, x)[Len(s) + 1] = x
<1>1. PICK T : T = ToSet(s) \cup {x}
  OBVIOUS
<1>2. s \in Seq(T) /\ x \in T
  BY <1>1 DEF IsList
<1>3. /\ Append(s, x) \in Seq(T) /\ Len(s) \in Nat /\ Len(Append(s, x)) = Len(s) + 1 /\ DOMAIN s = 1..Len(s)
      /\ \A i \in DOMAIN s : Append(s, x)[i] = s[i]
      /\ Append(s, x)[Len(s) + 1] = x
  BY <1>2
<1>4. ToSet(Append(s, x)) = T
  <2>1. ASSUME NEW e \in T PROVE \E i \in 1..Len(s) + 1 : Append(s, x)[i] = e
    <3>1. CASE e = x
      BY <1>3, <3>1
    <3>2. CASE e \in ToSet(s)
      BY <1>3, <3>2 DEF ToSet
    <3> QED
      BY <1>1, <3>1, <3>2
  <2>2. \A i \in 1..Len(s) + 1 : Append(s, x)[i] \in T
    BY <1>2, <1>3
  <2>3. DOMAIN Append(s, x) = 1..Len(s) + 1
    BY <1>3
  <2> QED
    BY <2>1, <2>2, <2>3 DEF ToSet
<1> QED
  BY <1>1, <1>3, <1>4 DEF IsList

(* Joining adds those of the other. *)
LEMMA Joined ==
    ASSUME NEW s, NEW u, IsList(s), IsList(u)
    PROVE  IsList(s \o u) /\ ToSet(s \o u) = ToSet(s) \cup ToSet(u)
<1>1. PICK T : T = ToSet(s) \cup ToSet(u)
  OBVIOUS
<1>2. s \in Seq(T) /\ u \in Seq(T)
  BY <1>1 DEF IsList
<1>3. s \o u \in Seq(T) /\ ToSet(s \o u) = T
  BY <1>1, <1>2, JoinedSets
<1> QED
  BY <1>1, <1>3 DEF IsList

(* Selected elements are elements, and all that pass the test. *)
LEMMA Selecting ==
    ASSUME NEW s, IsList(s), NEW I, I \subseteq DOMAIN s
    PROVE  /\ IsList(At(s, Ascending(I)))
           /\ ToSet(At(s, Ascending(I))) = {s[i] : i \in I}
           /\ ToSet(At(s, Ascending(I))) \subseteq ToSet(s)
<1>1. s \in Seq(ToSet(s)) /\ I \subseteq 1..Len(s)
  BY DEF IsList
<1>2. PICK u : u = At(s, Ascending(I))
  OBVIOUS
<1>3. u \in Seq(ToSet(s)) /\ ToSet(u) = {s[i] : i \in I}
  BY <1>1, <1>2, SelectedPlaces
<1>4. u \in Seq(ToSet(u))
  BY <1>3 DEF ToSet
<1>5. ToSet(u) \subseteq ToSet(s)
  BY <1>3 DEF ToSet
<1> QED
  BY <1>2, <1>3, <1>4, <1>5 DEF IsList

(* Sorting by whole numbers keeps all. *)
LEMMA Sorting ==
    ASSUME NEW s, IsList(s), NEW keys, DOMAIN keys = DOMAIN s, \A i \in DOMAIN s : keys[i] \in Int,
           keys = [i \in DOMAIN s |-> keys[i]]
    PROVE  /\ IsList(At(s, StableOrder(keys)))
           /\ Len(At(s, StableOrder(keys))) = Len(s)
           /\ ToSet(At(s, StableOrder(keys))) = ToSet(s)
<1>1. s \in Seq(ToSet(s)) /\ keys \in [1..Len(s) -> Int]
  BY DEF IsList
<1>2. PICK u : u = At(s, StableOrder(keys))
  OBVIOUS
<1>3. u \in Seq(ToSet(s)) /\ Len(u) = Len(s) /\ ToSet(u) = ToSet(s)
  BY <1>1, <1>2, SortedPlaces
<1> QED
  BY <1>2, <1>3 DEF IsList

(* Where exactly one announcement is of a mint. *)
LEMMA OneAnnouncement ==
    ASSUME NEW m, AnnouncedOnce(m), launches \in Seq([mint : Mints, at : Nat])
    PROVE  \E i \in DOMAIN launches : \A j \in DOMAIN launches : launches[j].mint = m <=> j = i
<1>1. PICK S : S = {i \in DOMAIN launches : launches[i].mint = m}
  OBVIOUS
<1>2. Cardinality(S) = 1
  BY <1>1 DEF AnnouncedOnce
<1>3. IsFiniteSet(1..Len(launches)) /\ S \in SUBSET (1..Len(launches))
  <2>1. Len(launches) \in Nat /\ DOMAIN launches = 1..Len(launches)
    OBVIOUS
  <2>2. IsFiniteSet(1..Len(launches))
    BY <2>1, FS_Interval
  <2> QED
    BY <1>1, <2>1, <2>2
<1>4. IsFiniteSet(S)
  BY <1>3, FS_Subset
<1>5. PICK i : S = {i}
  BY <1>2, <1>4, FS_Singleton
<1> QED
  BY <1>1, <1>5
(* A list of trades with amounts and ages. *)
TradeList(trades) == IsList(trades) /\ \A x \in ToSet(trades) : x.sol \in Int /\ x.sec \in Int

(* The trades a decision sees are not later than its boundary. *)
LEMMA TradesInTime ==
    ASSUME NEW m \in Mints, NEW anchor \in Nat, NEW observed, IsList(observed),
           \A ev \in ToSet(observed) : ev.at \in Nat /\ ev.sol \in Nat /\ ev.at <= anchor + Age
    PROVE  /\ TradeList(normalize_trades(m, observed, anchor))
           /\ \A x \in ToSet(normalize_trades(m, observed, anchor)) : x.sec <= Age
<1> DEFINE sol == Those(observed, LAMBDA ev : ev.mint \in SolMints)
           out == [k \in DOMAIN sol |-> AsTrade(sol[k], anchor)]
           told == \E x \in ToSet(out) : x.sig = LaunchSig[m]
           all == IF told THEN out ELSE out \o launch_initial_trade(m)
           kept1 == LastOfEach(all, TradeKey)
           early(x) == x.sol \in Int /\ x.sec \in Int /\ x.sec <= Age
<1>1. normalize_trades(m, observed, anchor) = StableBy(kept1, LAMBDA x : x.sec)
  BY DEF normalize_trades
<1>2. Age \in Nat
  BY FeaturesAssumption
<1>3. IsList(sol) /\ ToSet(sol) \subseteq ToSet(observed)
  <2>1. PICK I : I = {i \in DOMAIN observed : observed[i].mint \in SolMints}
    OBVIOUS
  <2>2. sol = At(observed, Ascending(I)) /\ I \subseteq DOMAIN observed
    BY <2>1 DEF Those
  <2> QED
    BY <2>2, Selecting
<1> HIDE DEF sol
<1>4. IsList(out) /\ \A x \in ToSet(out) : early(x)
  <2>1. \A k \in DOMAIN sol : sol[k].at \in Nat /\ sol[k].sol \in Nat /\ sol[k].at <= anchor + Age
    BY <1>3 DEF ToSet
  <2>2. DOMAIN out = DOMAIN sol /\ \A k \in DOMAIN sol : out[k].sec = sol[k].at - anchor /\ out[k].sol = sol[k].sol
    BY DEF AsTrade
  <2>3. PICK n \in Nat : DOMAIN sol = 1..n
    BY <1>3 DEF IsList
  <2>4. out \in [1..n -> ToSet(out)]
    BY <2>2, <2>3 DEF ToSet
  <2> HIDE DEF out
  <2>5. IsList(out)
    BY <2>4 DEF IsList
  <2>6. \A k \in DOMAIN sol : early(out[k])
    <3> TAKE k \in DOMAIN sol
    <3>1. PICK t \in Nat : t = sol[k].at
      BY <2>1
    <3>2. out[k].sec = t - anchor /\ t <= anchor + Age /\ out[k].sol \in Int
      BY <2>1, <2>2, <3>1
    <3> QED
      BY <1>2, <3>2
  <2> QED
    BY <2>2, <2>5, <2>6 DEF ToSet
<1>5. IsList(launch_initial_trade(m)) /\ \A x \in ToSet(launch_initial_trade(m)) : early(x)
  <2>1. CASE InitialBuy[m] = None
    BY <2>1 DEF launch_initial_trade, IsList, ToSet
  <2>2. CASE InitialBuy[m] # None
    <3>1. PICK x : x = [sig |-> LaunchSig[m], user |-> Creator[m], buy |-> TRUE, sol |-> InitialBuy[m].sol,
                        tok |-> InitialBuy[m].tok, price |-> InitialBuy[m].price, sec |-> 0]
      OBVIOUS
    <3>2. launch_initial_trade(m) = <<x>>
      BY <2>2, <3>1 DEF launch_initial_trade
    <3>3. early(x)
      BY <1>2, <2>2, <3>1, HtRunAssumption
    <3>4. ToSet(<<x>>) = {x} /\ IsList(<<x>>)
      BY DEF ToSet, IsList
    <3> QED
      BY <3>2, <3>3, <3>4
  <2> QED
    BY <2>1, <2>2
<1> HIDE DEF out, early
<1>6. IsList(all) /\ \A x \in ToSet(all) : early(x)
  BY <1>4, <1>5, Joined
<1> HIDE DEF all
<1>7. IsList(kept1) /\ ToSet(kept1) \subseteq ToSet(all)
  <2>1. PICK keys : keys = [i \in DOMAIN all |-> TradeKey(all[i])]
    OBVIOUS
  <2>2. kept1 = At(all, LastPlaces(keys))
    BY <2>1 DEF LastOfEach
  <2>3. all \in Seq(ToSet(all)) /\ DOMAIN keys = 1..Len(all)
    BY <1>6, <2>1 DEF IsList
  <2>4. kept1 \in Seq(ToSet(all)) /\ ToSet(kept1) = {all[l] : l \in Lasts(keys)}
    BY <2>2, <2>3, LastOnesKept
  <2>5. kept1 \in Seq(ToSet(kept1))
    BY <2>4 DEF ToSet
  <2>6. Lasts(keys) \subseteq DOMAIN all
    BY <2>1 DEF Lasts
  <2> QED
    BY <2>4, <2>5, <2>6 DEF IsList, ToSet
<1> HIDE DEF kept1
<1>8. /\ ToSet(StableBy(kept1, LAMBDA x : x.sec)) = ToSet(kept1)
      /\ IsList(StableBy(kept1, LAMBDA x : x.sec))
  <2>1. PICK keys : keys = [i \in DOMAIN kept1 |-> kept1[i].sec]
    OBVIOUS
  <2>2. \A i \in DOMAIN kept1 : keys[i] \in Int
    <3>1. \A i \in DOMAIN kept1 : kept1[i] \in ToSet(all)
      BY <1>7 DEF ToSet
    <3> QED
      BY <1>6, <2>1, <3>1 DEF early
  <2>3. DOMAIN keys = DOMAIN kept1 /\ keys = [i \in DOMAIN kept1 |-> keys[i]]
    BY <2>1
  <2>4. ToSet(At(kept1, StableOrder(keys))) = ToSet(kept1) /\ IsList(At(kept1, StableOrder(keys)))
    BY <1>7, <2>2, <2>3, Sorting
  <2> QED
    BY <2>1, <2>4 DEF StableBy
<1> QED
  BY <1>1, <1>6, <1>7, <1>8 DEF early, TradeList

(* What a decision task makes of its buffer. *)
LEMMA TradesDecided ==
    ASSUME IInv, NEW i \in DOMAIN launches, NEW launch, launch = launches[i],
           NEW trades, trades = normalize_trades(launch.mint, Observed(launch), launch.at)
    PROVE  /\ launch \in [mint : Mints, at : Nat]
           /\ TradeList(trades) /\ \A x \in ToSet(trades) : x.sec <= Age
<1>1. launch \in [mint : Mints, at : Nat]
  <2>1. launches \in Seq([mint : Mints, at : Nat])
    BY DEF IInv, Types
  <2>2. PICK T : T = [mint : Mints, at : Nat]
    OBVIOUS
  <2>3. launches \in Seq(T)
    BY <2>1, <2>2
  <2>4. launches[i] \in T
    BY <2>3
  <2> QED
    BY <2>2, <2>4
<1>2. PICK s, observed : s = events[launch.mint] /\ observed = Observed(launch)
  OBVIOUS
<1>3. PICK I : I = {k \in DOMAIN s : s[k].at <= launch.at + Age}
  OBVIOUS
<1>4. observed = At(s, Ascending(I)) /\ I \subseteq DOMAIN s
  BY <1>2, <1>3 DEF Observed, Those
<1>5. IsList(s) /\ \A ev \in ToSet(s) : ev.at \in Nat
  BY <1>1, <1>2 DEF IInv, Types
<1>6. \A ev \in ToSet(s) : ev.sol \in Nat
  <2>1. kept \subseteq Txs /\ ToSet(s) \subseteq UNION {ToSet(Streamed[tx]) : tx \in kept}
    BY <1>1, <1>2 DEF IInv, Types, Buffered
  <2> QED
    BY <2>1, FetchHasStream
<1>7. IsList(observed) /\ ToSet(observed) = {s[k] : k \in I} /\ ToSet(observed) \subseteq ToSet(s)
  BY <1>4, <1>5, Selecting
<1>8. \A ev \in ToSet(observed) : ev.at \in Nat /\ ev.sol \in Nat /\ ev.at <= launch.at + Age
  BY <1>3, <1>5, <1>6, <1>7
<1>9. trades = normalize_trades(launch.mint, observed, launch.at)
  BY <1>2
<1> QED
  BY <1>1, <1>7, <1>8, <1>9, TradesInTime

(* Sorting keeps how many are below a hash. *)
LEMMA SortingKeepsUnder ==
    ASSUME NEW s, IsList(s), NEW keys, DOMAIN keys = DOMAIN s, \A i \in DOMAIN s : keys[i] \in Int,
           keys = [i \in DOMAIN s |-> keys[i]],
           NEW u, u = At(s, StableOrder(keys)), NEW h
    PROVE  Cardinality(Under(u, DOMAIN u, h)) = Cardinality(Under(s, DOMAIN s, h))
<1>1. PICK n \in Nat : n = Len(s) /\ DOMAIN s = 1..n
  BY DEF IsList
<1>2. PICK order : order = StableOrder(keys)
  OBVIOUS
<1>3. keys \in [1..n -> Int]
  BY <1>1
<1>4. Permutes(order, n) /\ order \in [1..n -> 1..n]
  BY <1>2, <1>3, SortingPermutes DEF Permutes
<1>5. DOMAIN u = 1..n /\ \A k \in 1..n : u[k] = s[order[k]]
  BY <1>2, <1>4 DEF At
<1>6. PICK A : A = Under(s, DOMAIN s, h)
  OBVIOUS
<1>7. PICK P : P = Under(u, DOMAIN u, h)
  OBVIOUS
<1>8. A \in SUBSET (1..n) /\ P \in SUBSET (1..n)
  BY <1>1, <1>5, <1>6, <1>7 DEF Under
<1>9. \A k \in 1..n : k \in P <=> order[k] \in A
  BY <1>1, <1>4, <1>5, <1>6, <1>7 DEF Under
<1> QED
  BY <1>4, <1>6, <1>7, <1>8, <1>9, SortingKeepsCounts

(* The files are the lists in another order. *)
LEMMA WrittenInOrder ==
    ASSUME NEW s, IsList(s), \A x \in ToSet(s) : x.mint \in Mints /\ x.at \in Nat
    PROVE  /\ IsList(SortedByLaunch(s))
           /\ Len(SortedByLaunch(s)) = Len(s)
           /\ ToSet(SortedByLaunch(s)) = ToSet(s)
           /\ \A h : Cardinality(Under(SortedByLaunch(s), DOMAIN SortedByLaunch(s), h))
                       = Cardinality(Under(s, DOMAIN s, h))
<1> DEFINE hashes == [i \in DOMAIN s |-> Hash["mint"][s[i].mint]]
<1>1. PICK u : u = At(s, StableOrder(hashes))
  OBVIOUS
<1>2. \A i \in DOMAIN s : hashes[i] \in Int
  <2>1. \A i \in DOMAIN s : s[i].mint \in Mints
    BY DEF ToSet
  <2> QED
    BY <2>1, HtRunAssumption
<1>3. DOMAIN hashes = DOMAIN s /\ hashes = [i \in DOMAIN s |-> hashes[i]]
  OBVIOUS
<1>4. u = StableBy(s, LAMBDA r : Hash["mint"][r.mint])
  BY <1>1 DEF StableBy
<1> HIDE DEF hashes
<1>5. IsList(u) /\ Len(u) = Len(s) /\ ToSet(u) = ToSet(s)
  BY <1>1, <1>2, <1>3, Sorting
<1>6. \A h : Cardinality(Under(u, DOMAIN u, h)) = Cardinality(Under(s, DOMAIN s, h))
  BY <1>1, <1>2, <1>3, SortingKeepsUnder
<1> DEFINE times == [i \in DOMAIN u |-> u[i].at]
<1>7. PICK w : w = At(u, StableOrder(times))
  OBVIOUS
<1>8. \A i \in DOMAIN u : times[i] \in Int
  BY <1>5 DEF ToSet
<1>9. DOMAIN times = DOMAIN u /\ times = [i \in DOMAIN u |-> times[i]]
  OBVIOUS
<1>10. w = SortedByLaunch(s)
  BY <1>4, <1>7 DEF SortedByLaunch, StableBy
<1> HIDE DEF times
<1>11. IsList(w) /\ Len(w) = Len(u) /\ ToSet(w) = ToSet(u)
  BY <1>5, <1>7, <1>8, <1>9, Sorting
<1>12. \A h : Cardinality(Under(w, DOMAIN w, h)) = Cardinality(Under(u, DOMAIN u, h))
  BY <1>5, <1>7, <1>8, <1>9, SortingKeepsUnder
<1> QED
  BY <1>5, <1>6, <1>10, <1>11, <1>12
-----------------------------------------------------------------------------
(* One lemma per operation of the capture *)

LEMMA InitHolds == Init => IInv
<1> SUFFICES ASSUME Init PROVE IInv
  OBVIOUS
<1> USE DEF Init
<1>1. ToSet(<<>>) = {} /\ IsList(<<>>) /\ Len(<<>>) = 0 /\ DOMAIN <<>> = {}
  BY DEF ToSet, IsList
<1>2. Types
  BY <1>1 DEF Types, Later
<1>3. Known = {}
  BY DEF Known, Capturing
<1>4. Buffered /\ Tally /\ Scored /\ InTime /\ Origin /\ Paired
  BY <1>1, <1>3, FS_EmptySet DEF Buffered, Tally, Scored, InTime, Origin, Paired
<1>5. Below
  <2>1. \A h : Under(rows, DOMAIN rows, h) = {} /\ Under(launches, Known, h) = {}
    BY <1>1, <1>3 DEF Under
  <2> QED
    BY <2>1 DEF Below
<1>6. ControlsIgnoreScores /\ Packaged
  BY <1>1 DEF ControlsIgnoreScores, Packaged, PopulationComplete, PackagedTapeIsInput, NoPackage
<1> QED
  BY <1>2, <1>4, <1>5, <1>6 DEF IInv

(* While the capture goes on nothing is selected or packaged. *)
LEMMA NothingPackaged ==
    ASSUME IInv, Capturing, stage' # "done", stage' \notin Later, package' = package
    PROVE  ControlsIgnoreScores' /\ Packaged'
<1>1. package.population = <<>> /\ package.rows = <<>>
  BY DEF IInv, Packaged, Capturing
<1>2. DOMAIN package.rows = {}
  BY <1>1
<1>3. PopulationComplete' /\ ControlsIgnoreScores'
  BY DEF PopulationComplete, ControlsIgnoreScores, Later
<1>4. PackagedTapeIsInput'
  BY <1>2 DEF PackagedTapeIsInput
<1> QED
  BY <1>1, <1>3, <1>4 DEF Packaged

LEMMA TickHolds ==
    ASSUME IInv, Tick
    PROVE  IInv'
<1>1. UNCHANGED <<launches, active, events, kept, decided, stage, rows, tapes, package>> /\ Capturing /\ clock' = clock + 1
  BY DEF Tick, Capturing
<1>2. Types'
  BY <1>1 DEF IInv, Types
<1>3. Known' = Known
  BY <1>1 DEF Known, Capturing
<1>4. /\ Buffered' /\ Tally' /\ Scored' /\ InTime' /\ Origin' /\ Below'
  BY <1>1, <1>3 DEF IInv, Buffered, Tally, Scored, InTime, Origin, Below
<1>5. Paired'
  BY <1>1 DEF IInv, Paired, AnnouncedOnce
<1>6. ControlsIgnoreScores' /\ Packaged'
  BY <1>1, NothingPackaged DEF Capturing, Later
<1> QED
  BY <1>2, <1>4, <1>5, <1>6 DEF IInv

LEMMA FeedEndsHolds ==
    ASSUME IInv, FeedEnds
    PROVE  IInv'
<1>1. /\ UNCHANGED <<launches, clock, events, kept, decided, rows, tapes, package>>
      /\ stage = "capture" /\ stage' = "gather" /\ Capturing /\ Capturing'
  BY DEF FeedEnds, Capturing, captureVars
<1>2. Types'
  BY <1>1 DEF IInv, Types, Capturing
<1>3. Known' = Known
  BY <1>1 DEF Known
<1>4. /\ Buffered' /\ Tally' /\ Scored' /\ InTime' /\ Origin' /\ Below'
  BY <1>1, <1>3 DEF IInv, Buffered, Tally, Scored, InTime, Origin, Below
<1>5. Paired'
  BY <1>1 DEF IInv, Paired, AnnouncedOnce
<1>6. ControlsIgnoreScores' /\ Packaged'
  BY <1>1, NothingPackaged DEF Later
<1> QED
  BY <1>2, <1>4, <1>5, <1>6 DEF IInv

(* An announcement of a mint that has a row makes it announced twice. *)
LEMMA AnnounceHolds ==
    ASSUME IInv, NEW m \in Mints, Announce(m)
    PROVE  IInv'
<1> DEFINE new == [mint |-> m, at |-> clock]
           n == Len(launches)
<1>1. /\ UNCHANGED <<clock, events, kept, decided, stage, rows, tapes, package>>
      /\ stage = "capture" /\ launches' = Append(launches, new) /\ Capturing /\ Capturing'
  BY DEF Announce, Capturing
<1>2. launches \in Seq([mint : Mints, at : Nat]) /\ new \in [mint : Mints, at : Nat]
  BY DEF IInv, Types
<1>3. /\ launches' \in Seq([mint : Mints, at : Nat]) /\ n \in Nat
      /\ DOMAIN launches = 1..n /\ DOMAIN launches' = 1..n + 1
      /\ \A i \in DOMAIN launches : launches'[i] = launches[i]
  BY <1>1, <1>2
<1>4. Types'
  BY <1>1, <1>3 DEF IInv, Types
<1>5. Known = decided /\ Known' = decided /\ decided \subseteq DOMAIN launches
  BY <1>1 DEF Known, IInv, Types
<1>6. Buffered' /\ Tally' /\ InTime'
  BY <1>1, <1>5 DEF IInv, Buffered, Tally, InTime
<1>7. \A i \in Known : launches'[i] = launches[i]
  BY <1>3, <1>5
<1>8. Scored' /\ Origin'
  <2>1. ToSet(rows)' = ToSet(rows) /\ ToSet(tapes)' = ToSet(tapes)
    BY <1>1
  <2>2. \A i \in decided : \E r \in ToSet(rows) : r.mint = launches[i].mint /\ r.at = launches[i].at
    BY <1>5 DEF IInv, Scored
  <2>3. Scored'
    BY <1>5, <1>7, <2>1, <2>2 DEF Scored
  <2>4. \A x \in ToSet(rows) \cup ToSet(tapes) : \E i \in decided : launches[i].mint = x.mint
    BY <1>5 DEF IInv, Origin
  <2>5. Origin'
    BY <1>5, <1>7, <2>1, <2>4 DEF Origin
  <2> QED
    BY <2>3, <2>5
<1>9. Below'
  <2>1. \A h : Under(launches, Known, h)' = Under(launches, Known, h)
    BY <1>5, <1>7 DEF Under
  <2> QED
    BY <1>1, <2>1 DEF IInv, Below
<1>10. \A r \in ToSet(rows) : AnnouncedOnce(r.mint)' => AnnouncedOnce(r.mint)
  <2> SUFFICES ASSUME NEW r \in ToSet(rows), AnnouncedOnce(r.mint)' PROVE AnnouncedOnce(r.mint)
    OBVIOUS
  <2>1. PICK i \in DOMAIN launches : launches[i].mint = r.mint
    BY <1>5 DEF IInv, Origin
  <2>2. PICK S, T : S = {j \in DOMAIN launches : launches[j].mint = r.mint}
                    /\ T = {j \in DOMAIN launches' : launches'[j].mint = r.mint}
    OBVIOUS
  <2>3. Cardinality(T) = 1 /\ S \subseteq T /\ i \in S
    BY <1>3, <2>1, <2>2 DEF AnnouncedOnce
  <2>4. IsFiniteSet(1..n + 1) /\ T \in SUBSET (1..n + 1)
    BY <1>3, <2>2, FS_Interval
  <2>5. IsFiniteSet(T)
    BY <2>4, FS_Subset
  <2>6. PICK k : T = {k}
    BY <2>3, <2>5, FS_Singleton
  <2>7. S = T
    BY <2>3, <2>6
  <2> QED
    BY <2>2, <2>3, <2>7 DEF AnnouncedOnce
<1>11. Paired'
  BY <1>1, <1>10 DEF IInv, Paired
<1>12. ControlsIgnoreScores' /\ Packaged'
  BY <1>1, NothingPackaged DEF Later
<1> QED
  BY <1>4, <1>6, <1>8, <1>9, <1>11, <1>12 DEF IInv

LEMMA DeliverHolds ==
    ASSUME IInv, NEW tx \in Txs, Deliver(tx)
    PROVE  IInv'
<1>1. /\ UNCHANGED <<clock, launches, decided, stage, rows, tapes, package>> /\ Capturing /\ Capturing'
      /\ kept' = kept \cup {tx}
      /\ events' = [m \in Mints |-> events[m] \o KeptOf(tx, m)]
  BY DEF Deliver, Capturing
<1>2. /\ IsList(Streamed[tx]) /\ \A ev \in ToSet(Streamed[tx]) : ev.at \in Nat
  BY FetchHasStream
<1>3. ASSUME NEW m \in Mints PROVE IsList(KeptOf(tx, m)) /\ ToSet(KeptOf(tx, m)) \subseteq ToSet(Streamed[tx])
  <2>1. CASE m \in active
    <3>1. PICK s : s = Streamed[tx]
      OBVIOUS
    <3>2. PICK I : I = {i \in DOMAIN s : s[i].token = m}
      OBVIOUS
    <3>3. KeptOf(tx, m) = At(s, Ascending(I)) /\ I \subseteq DOMAIN s
      BY <2>1, <3>1, <3>2 DEF KeptOf, Those
    <3> QED
      BY <1>2, <3>1, <3>3, Selecting
  <2>2. CASE m \notin active
    BY <2>2 DEF KeptOf, IsList, ToSet
  <2> QED
    BY <2>1, <2>2
<1>4. ASSUME NEW m \in Mints
      PROVE  IsList(events'[m]) /\ ToSet(events'[m]) = ToSet(events[m]) \cup ToSet(KeptOf(tx, m))
  <2>1. IsList(events[m])
    BY DEF IInv, Types
  <2>2. events'[m] = events[m] \o KeptOf(tx, m)
    BY <1>1
  <2> QED
    BY <1>3, <2>1, <2>2, Joined
<1>5. Types'
  <2>1. \A m \in Mints : IsList(events'[m]) /\ \A ev \in ToSet(events'[m]) : ev.at \in Nat
    BY <1>2, <1>3, <1>4 DEF IInv, Types
  <2>2. DOMAIN events' = Mints
    BY <1>1
  <2> QED
    BY <1>1, <2>1, <2>2 DEF IInv, Types
<1>6. Buffered'
  <2>1. \A m \in Mints : ToSet(events'[m]) \subseteq UNION {ToSet(Streamed[t]) : t \in kept \cup {tx}}
    BY <1>3, <1>4 DEF IInv, Buffered
  <2>2. UNION {ToSet(Streamed[t]) : t \in kept}' = UNION {ToSet(Streamed[t]) : t \in kept \cup {tx}}
    BY <1>1 DEF Streamed
  <2> QED
    BY <1>1, <2>1, <2>2 DEF Buffered
<1>7. Known' = Known
  BY <1>1 DEF Known
<1>8. Tally' /\ Scored' /\ InTime' /\ Origin' /\ Below'
  BY <1>1, <1>7 DEF IInv, Tally, Scored, InTime, Origin, Below
<1>9. Paired'
  BY <1>1 DEF IInv, Paired, AnnouncedOnce
<1>10. ControlsIgnoreScores' /\ Packaged'
  BY <1>1, NothingPackaged DEF Capturing, Later
<1> QED
  BY <1>5, <1>6, <1>8, <1>9, <1>10 DEF IInv
(* One more row, its tape and its announcement. *)
LEMMA DecideHolds ==
    ASSUME IInv, NEW i \in DOMAIN launches, NEW ten \in Levels, NEW twentyFive \in Levels,
           Decide(i, ten, twentyFive)
    PROVE  IInv'
<1>1. PICK launch : launch = launches[i]
  OBVIOUS
<1>2. PICK observed : observed = Observed(launch)
  OBVIOUS
<1>3. PICK trades : trades = normalize_trades(launch.mint, observed, launch.at)
  OBVIOUS
<1>4. PICK row : row =
        [mint |-> launch.mint, at |-> launch.at, input |-> trades,
         ten |-> ten, decision |-> Decision(ten, twentyFive), quote |-> EntryQuote(observed),
         tags |-> {}, audit |-> "NOT_SELECTED_YET", forensics |-> None, gate |-> None]
  OBVIOUS
<1>5. PICK tape : tape = [mint |-> launch.mint, at |-> launch.at, trades |-> trades, raw |-> observed]
  OBVIOUS
<1>6. /\ Capturing /\ Capturing' /\ i \notin decided /\ decided' = decided \cup {i}
      /\ rows' = Append(rows, row) /\ tapes' = Append(tapes, tape)
      /\ events' = [events EXCEPT ![launch.mint] = <<>>]
      /\ UNCHANGED <<clock, launches, kept, stage, package>>
  BY <1>1, <1>2, <1>3, <1>4, <1>5 DEF Decide, Capturing
<1>7. launch \in [mint : Mints, at : Nat]
  BY <1>1, TradesDecided
<1>8. /\ DOMAIN row = RowFields /\ row.mint = launch.mint /\ row.at = launch.at /\ row.input = trades
      /\ tape.mint = launch.mint /\ tape.at = launch.at /\ tape.trades = trades
  BY <1>4, <1>5 DEF RowFields
<1>9. /\ IsList(rows) /\ IsList(tapes) /\ decided \subseteq DOMAIN launches
      /\ \A m \in Mints : IsList(events[m]) /\ \A ev \in ToSet(events[m]) : ev.at \in Nat
      /\ DOMAIN events = Mints
  BY DEF IInv, Types
<1>10. /\ IsList(rows') /\ ToSet(rows') = ToSet(rows) \cup {row} /\ Len(rows) \in Nat
       /\ Len(rows') = Len(rows) + 1 /\ DOMAIN rows = 1..Len(rows)
       /\ \A k \in DOMAIN rows : rows'[k] = rows[k]
       /\ rows'[Len(rows) + 1] = row
  BY <1>6, <1>9, Appended
<1>11. IsList(tapes') /\ ToSet(tapes') = ToSet(tapes) \cup {tape}
  BY <1>6, <1>9, Appended
<1>12. \A m \in Mints : events'[m] = IF m = launch.mint THEN <<>> ELSE events[m]
  BY <1>6, <1>9
<1>13. IsList(<<>>) /\ ToSet(<<>>) = {}
  BY DEF IsList, ToSet
<1>14. Types'
  <2>1. \A m \in Mints : IsList(events'[m]) /\ \A ev \in ToSet(events'[m]) : ev.at \in Nat
    BY <1>9, <1>12, <1>13
  <2>2. DOMAIN events' = Mints
    BY <1>6, <1>9
  <2>3. \A r \in ToSet(rows') : DOMAIN r = RowFields /\ r.mint \in Mints /\ r.at \in Nat
    BY <1>7, <1>8, <1>10 DEF IInv, Types
  <2>4. \A t \in ToSet(tapes') : t.mint \in Mints /\ t.at \in Nat
    BY <1>7, <1>8, <1>11 DEF IInv, Types
  <2> QED
    BY <1>6, <1>9, <1>10, <1>11, <2>1, <2>2, <2>3, <2>4 DEF IInv, Types
<1>15. Buffered'
  <2>1. \A m \in Mints : ToSet(events'[m]) \subseteq ToSet(events[m])
    BY <1>12, <1>13
  <2> QED
    BY <1>6, <2>1 DEF IInv, Buffered, Streamed
<1>16. Known = decided /\ Known' = decided \cup {i} /\ i \notin Known
  BY <1>6 DEF Known
<1>17. IsFiniteSet(Known) /\ Known \in SUBSET (1..Len(launches)) /\ IsFiniteSet(1..Len(launches))
  <2>1. Len(launches) \in Nat /\ DOMAIN launches = 1..Len(launches)
    BY DEF IInv, Types
  <2>2. IsFiniteSet(1..Len(launches))
    BY <2>1, FS_Interval
  <2>3. Known \in SUBSET (1..Len(launches))
    BY <1>9, <1>16, <2>1
  <2> QED
    BY <2>2, <2>3, FS_Subset
<1>18. Tally'
  <2>1. Cardinality(Known \cup {i}) = Cardinality(Known) + 1
    BY <1>16, <1>17, FS_AddElement
  <2>2. Known' = Known \cup {i}
    BY <1>16
  <2>3. Len(rows') = Cardinality(Known')
    BY <1>10, <2>1, <2>2 DEF IInv, Tally
  <2> QED
    BY <2>3 DEF Tally
<1>19. Scored'
  <2>1. row.mint = launches'[i].mint /\ row.at = launches'[i].at
    BY <1>1, <1>6, <1>8
  <2> QED
    BY <1>6, <1>10, <1>16, <2>1 DEF IInv, Scored
<1>20. InTime'
  <2>1. \A x \in ToSet(trades) : x.sec <= Age
    BY <1>1, <1>2, <1>3, TradesDecided
  <2> QED
    BY <1>8, <1>10, <2>1 DEF IInv, InTime
<1>21. Origin'
  <2>1. launches'[i].mint = row.mint /\ launches'[i].mint = tape.mint
    BY <1>1, <1>6, <1>8
  <2> QED
    BY <1>6, <1>10, <1>11, <1>16, <2>1 DEF IInv, Origin
<1>22. ASSUME NEW x \in ToSet(rows) \cup ToSet(tapes), x.mint = launch.mint
       PROVE  ~AnnouncedOnce(launch.mint)
  <2>1. PICK j \in Known : launches[j].mint = launch.mint
    BY <1>22 DEF IInv, Origin
  <2>2. j \in DOMAIN launches /\ j # i
    BY <1>9, <1>16, <2>1
  <2>3. launches \in Seq([mint : Mints, at : Nat])
    BY DEF IInv, Types
  <2>4. ASSUME AnnouncedOnce(launch.mint) PROVE FALSE
    <3>1. PICK k \in DOMAIN launches : \A l \in DOMAIN launches : launches[l].mint = launch.mint <=> l = k
      BY <2>3, <2>4, OneAnnouncement
    <3> QED
      BY <1>1, <2>1, <2>2, <3>1
  <2> QED
    BY <2>4
<1>23. Paired'
  <2>1. \A r \in ToSet(rows') : \E t \in ToSet(tapes') : t.mint = r.mint
    BY <1>8, <1>10, <1>11 DEF IInv, Paired
  <2>2. ASSUME NEW r \in ToSet(rows'), AnnouncedOnce(r.mint), NEW t \in ToSet(tapes'), t.mint = r.mint
        PROVE  t.trades = r.input
    <3>1. CASE r = row /\ t = tape
      BY <1>8, <3>1
    <3>2. CASE r = row /\ t \in ToSet(tapes)
      BY <1>8, <1>22, <2>2, <3>2
    <3>3. CASE r \in ToSet(rows) /\ t = tape
      BY <1>8, <1>22, <2>2, <3>3
    <3>4. CASE r \in ToSet(rows) /\ t \in ToSet(tapes)
      BY <2>2, <3>4 DEF IInv, Paired
    <3> QED
      BY <1>10, <1>11, <3>1, <3>2, <3>3, <3>4
  <2>3. \A r : AnnouncedOnce(r.mint)' <=> AnnouncedOnce(r.mint)
    BY <1>6 DEF AnnouncedOnce
  <2> QED
    BY <2>1, <2>2, <2>3 DEF Paired
<1>24. Below'
  <2>1. ASSUME NEW h, Cardinality(Under(rows, DOMAIN rows, h)) = Cardinality(Under(launches, Known, h))
        PROVE  Cardinality(Under(rows', DOMAIN rows', h)) = Cardinality(Under(launches, decided \cup {i}, h))
    <3>1. PICK n \in Nat : n = Len(rows) /\ DOMAIN rows = 1..n /\ DOMAIN rows' = 1..n + 1
      <4>1. DOMAIN rows' = 1..Len(rows')
        BY <1>10 DEF IsList
      <4> QED
        BY <1>10, <4>1
    <3>2. PICK R, L : R = Under(rows, DOMAIN rows, h) /\ L = Under(launches, Known, h)
      OBVIOUS
    <3>3. IsFiniteSet(R) /\ IsFiniteSet(L) /\ n + 1 \notin R /\ i \notin L
      <4>1. R \in SUBSET (1..n) /\ L \in SUBSET (1..Len(launches)) /\ i \notin L
        BY <1>16, <1>17, <3>1, <3>2 DEF Under
      <4>2. IsFiniteSet(1..n) /\ n + 1 \notin 1..n
        BY FS_Interval
      <4>3. IsFiniteSet(R)
        BY <4>1, <4>2, FS_Subset
      <4>4. IsFiniteSet(L)
        BY <1>17, <4>1, FS_Subset
      <4> QED
        BY <4>1, <4>2, <4>3, <4>4
    <3>4. rows'[n + 1].mint = launch.mint
      BY <1>8, <1>10, <3>1
    <3>5. CASE Hash["random_all"][launch.mint] < h
      <4>1. Under(rows', DOMAIN rows', h) = R \cup {n + 1}
        BY <1>10, <3>1, <3>2, <3>4, <3>5 DEF Under
      <4>2. Under(launches, decided \cup {i}, h) = L \cup {i}
        BY <1>1, <1>16, <3>2, <3>5 DEF Under
      <4>3. Cardinality(R \cup {n + 1}) = Cardinality(R) + 1 /\ Cardinality(L \cup {i}) = Cardinality(L) + 1
        BY <3>3, FS_AddElement
      <4> QED
        BY <2>1, <3>2, <4>1, <4>2, <4>3
    <3>6. CASE ~(Hash["random_all"][launch.mint] < h)
      <4>1. Under(rows', DOMAIN rows', h) = R
        BY <1>10, <3>1, <3>2, <3>4, <3>6 DEF Under
      <4>2. Under(launches, decided \cup {i}, h) = L
        BY <1>1, <1>16, <3>2, <3>6 DEF Under
      <4> QED
        BY <2>1, <3>2, <4>1, <4>2
    <3> QED
      BY <3>5, <3>6
  <2>2. \A h : /\ Under(rows, DOMAIN rows, h)' = Under(rows', DOMAIN rows', h)
              /\ Under(launches, Known, h)' = Under(launches, decided \cup {i}, h)
    BY <1>6, <1>16 DEF Under
  <2> QED
    BY <2>1, <2>2 DEF IInv, Below
<1>25. ControlsIgnoreScores' /\ Packaged'
  BY <1>6, NothingPackaged DEF Capturing, Later
<1> QED
  BY <1>14, <1>15, <1>18, <1>19, <1>20, <1>21, <1>23, <1>24, <1>25 DEF IInv

(* Nothing is left, and nothing was packaged. *)
LEMMA LoseHolds ==
    ASSUME IInv, Lose
    PROVE  IInv'
<1>1. /\ stage # "done" /\ stage' = "lost" /\ clock' = 0 /\ decided' = {} /\ kept' = {}
      /\ events' = [m \in Mints |-> <<>>] /\ launches' = <<>> /\ rows' = <<>> /\ tapes' = <<>>
      /\ package' = package
  BY DEF Lose, ProcessEnds
<1>2. ToSet(<<>>) = {} /\ IsList(<<>>) /\ Len(<<>>) = 0 /\ DOMAIN <<>> = {}
  BY DEF ToSet, IsList
<1>3. Types'
  BY <1>1, <1>2 DEF Types
<1>4. Known' = {}
  BY <1>1, <1>2 DEF Known, Capturing
<1>5. Buffered' /\ Tally' /\ Scored' /\ InTime' /\ Origin' /\ Paired'
  BY <1>1, <1>2, <1>4, FS_EmptySet DEF Buffered, Tally, Scored, InTime, Origin, Paired
<1>6. Below'
  <2>1. \A h : Under(rows, DOMAIN rows, h)' = {} /\ Under(launches, Known, h)' = {}
    BY <1>1, <1>2, <1>4 DEF Under
  <2> QED
    BY <2>1 DEF Below
<1>7. package.population = <<>> /\ package.rows = <<>>
  BY <1>1 DEF IInv, Packaged
<1>8. ControlsIgnoreScores' /\ Packaged'
  BY <1>1, <1>2, <1>7 DEF ControlsIgnoreScores, Packaged, PopulationComplete, PackagedTapeIsInput
<1> QED
  BY <1>3, <1>5, <1>6, <1>8 DEF IInv

(* The files hold what was decided, in order; every announcement has its   *)
(* row because the tasks are awaited.                                      *)
LEMMA WriteOutHolds ==
    ASSUME IInv, WriteOut
    PROVE  IInv'
<1>1. /\ Capturing /\ stage' = "select" /\ ~Capturing' /\ decided = DOMAIN launches
      /\ rows' = SortedByLaunch(rows) /\ tapes' = SortedByLaunch(tapes)
      /\ clock' = 0 /\ decided' = {} /\ kept' = {} /\ events' = [m \in Mints |-> <<>>]
      /\ UNCHANGED <<launches, package>>
  BY DEF WriteOut, ProcessEnds, Capturing
<1>2. /\ IsList(rows) /\ \A r \in ToSet(rows) : r.mint \in Mints /\ r.at \in Nat
      /\ IsList(tapes) /\ \A t \in ToSet(tapes) : t.mint \in Mints /\ t.at \in Nat
  BY DEF IInv, Types
<1>3. /\ IsList(rows') /\ Len(rows') = Len(rows) /\ ToSet(rows') = ToSet(rows)
      /\ \A h : Cardinality(Under(rows', DOMAIN rows', h)) = Cardinality(Under(rows, DOMAIN rows, h))
  BY <1>1, <1>2, WrittenInOrder
<1>4. IsList(tapes') /\ ToSet(tapes') = ToSet(tapes)
  BY <1>1, <1>2, WrittenInOrder
<1>5. ToSet(<<>>) = {} /\ IsList(<<>>)
  BY DEF ToSet, IsList
<1>6. Known = DOMAIN launches /\ Known' = DOMAIN launches
  BY <1>1 DEF Known
<1>7. Types'
  BY <1>1, <1>3, <1>4, <1>5 DEF IInv, Types
<1>8. Buffered'
  BY <1>1, <1>5 DEF Buffered
<1>9. Tally' /\ Scored' /\ InTime' /\ Origin'
  BY <1>1, <1>3, <1>4, <1>6 DEF IInv, Tally, Scored, InTime, Origin
<1>10. Paired'
  BY <1>1, <1>3, <1>4 DEF IInv, Paired, AnnouncedOnce
<1>11. Below'
  <2>1. \A h : Under(launches, Known, h)' = Under(launches, Known, h)
    BY <1>1, <1>6 DEF Under
  <2>2. \A h : Under(rows, DOMAIN rows, h)' = Under(rows', DOMAIN rows', h)
    BY DEF Under
  <2> QED
    BY <1>3, <2>1, <2>2 DEF IInv, Below
<1>12. ControlsIgnoreScores' /\ Packaged'
  BY <1>1, NothingPackaged DEF Later
<1> QED
  BY <1>7, <1>8, <1>9, <1>10, <1>11, <1>12 DEF IInv
-----------------------------------------------------------------------------
(* One lemma per step after the capture *)

(* A step that keeps of every row what was decided keeps what follows from *)
(* it; one that keeps the tags as well keeps who the controls are.         *)
LEMMA RowsAnnotated ==
    ASSUME IInv, ~Capturing, stage' \in Later, UNCHANGED <<captureVars, tapes>>,
           DOMAIN rows' = DOMAIN rows, rows' = [i \in DOMAIN rows |-> rows'[i]],
           \A i \in DOMAIN rows : DOMAIN rows'[i] = RowFields /\ ActionPart(rows'[i]) = ActionPart(rows[i])
    PROVE  /\ Types' /\ Buffered' /\ Tally' /\ Scored' /\ InTime' /\ Origin' /\ Paired' /\ Below'
           /\ stage \in Later /\ (\A i \in DOMAIN rows : rows'[i].tags = rows[i].tags)
                => ControlsIgnoreScores'
<1>1. ~Capturing' /\ UNCHANGED <<clock, launches, events, kept, decided, tapes>>
  BY DEF Capturing, Later, captureVars
<1>2. \A i \in DOMAIN rows :
        /\ rows'[i].mint = rows[i].mint /\ rows'[i].at = rows[i].at /\ rows'[i].input = rows[i].input
  BY DEF ActionPart
<1>3. PICK n \in Nat : DOMAIN rows = 1..n /\ n = Len(rows)
  BY DEF IInv, Types, IsList
<1>4. rows' \in [1..n -> ToSet(rows')]
  BY <1>3 DEF ToSet
<1>5. IsList(rows') /\ Len(rows') = n
  BY <1>4 DEF IsList
<1>6. /\ \A r \in ToSet(rows') : \E i \in DOMAIN rows : r = rows'[i]
      /\ \A i \in DOMAIN rows : rows'[i] \in ToSet(rows') /\ rows[i] \in ToSet(rows)
      /\ \A r \in ToSet(rows) : \E i \in DOMAIN rows : r = rows[i]
  BY DEF ToSet
<1>7. Types'
  <2>1. \A i \in DOMAIN rows : rows[i].mint \in Mints /\ rows[i].at \in Nat
    BY <1>6 DEF IInv, Types
  <2>2. \A r \in ToSet(rows') : DOMAIN r = RowFields /\ r.mint \in Mints /\ r.at \in Nat
    BY <1>2, <1>6, <2>1
  <2> QED
    BY <1>1, <1>5, <2>2 DEF IInv, Types
<1>8. Known' = Known
  BY <1>1 DEF Known
<1>9. Buffered' /\ Tally'
  BY <1>1, <1>3, <1>5, <1>8 DEF IInv, Buffered, Tally, Streamed
<1>10. Scored' /\ InTime' /\ Origin'
  <2>1. Scored'
    <3>1. ASSUME NEW k \in Known PROVE \E r \in ToSet(rows') : r.mint = launches[k].mint /\ r.at = launches[k].at
      <4>1. PICK r \in ToSet(rows) : r.mint = launches[k].mint /\ r.at = launches[k].at
        BY DEF IInv, Scored
      <4>2. PICK i \in DOMAIN rows : r = rows[i]
        BY <1>6
      <4>3. rows'[i] \in ToSet(rows') /\ rows'[i].mint = r.mint /\ rows'[i].at = r.at
        BY <1>2, <1>6, <4>2
      <4> QED
        BY <4>1, <4>3
    <3> QED
      BY <1>1, <1>8, <3>1 DEF Scored
  <2>2. InTime'
    <3>1. \A i \in DOMAIN rows : \A x \in ToSet(rows[i].input) : x.sec <= Age
      BY <1>6 DEF IInv, InTime
    <3> QED
      BY <1>2, <1>6, <3>1 DEF InTime
  <2>3. Origin'
    <3>1. ASSUME NEW x \in ToSet(rows') \cup ToSet(tapes) PROVE \E k \in Known : launches[k].mint = x.mint
      <4>1. CASE x \in ToSet(tapes)
        BY <4>1 DEF IInv, Origin
      <4>2. CASE x \in ToSet(rows')
        <5>1. PICK i \in DOMAIN rows : x = rows'[i]
          BY <1>6, <4>2
        <5>2. \E k \in Known : launches[k].mint = rows[i].mint
          BY <1>6 DEF IInv, Origin
        <5> QED
          BY <1>2, <5>1, <5>2
      <4> QED
        BY <4>1, <4>2
    <3> QED
      BY <1>1, <1>8, <3>1 DEF Origin
  <2> QED
    BY <2>1, <2>2, <2>3
<1>11. Paired'
  <2>1. ASSUME NEW i \in DOMAIN rows
        PROVE  /\ \E t \in ToSet(tapes) : t.mint = rows'[i].mint
               /\ AnnouncedOnce(rows'[i].mint) =>
                    \A t \in ToSet(tapes) : t.mint = rows'[i].mint => t.trades = rows'[i].input
    <3>1. /\ \E t \in ToSet(tapes) : t.mint = rows[i].mint
          /\ AnnouncedOnce(rows[i].mint) =>
               \A t \in ToSet(tapes) : t.mint = rows[i].mint => t.trades = rows[i].input
      BY <1>6 DEF IInv, Paired
    <3> QED
      BY <1>2, <3>1
  <2>2. \A r : AnnouncedOnce(r.mint)' <=> AnnouncedOnce(r.mint)
    BY <1>1 DEF AnnouncedOnce
  <2>3. \A r \in ToSet(rows') :
          /\ \E t \in ToSet(tapes) : t.mint = r.mint
          /\ AnnouncedOnce(r.mint) => \A t \in ToSet(tapes) : t.mint = r.mint => t.trades = r.input
    BY <1>6, <2>1
  <2> QED
    BY <1>1, <2>2, <2>3 DEF Paired
<1>12. Below'
  <2>1. \A h : Under(rows, DOMAIN rows, h)' = Under(rows, DOMAIN rows, h)
    BY <1>2 DEF Under
  <2>2. \A h : Under(launches, Known, h)' = Under(launches, Known, h)
    BY <1>1, <1>8 DEF Under
  <2> QED
    BY <2>1, <2>2 DEF IInv, Below
<1>13. ASSUME stage \in Later, \A i \in DOMAIN rows : rows'[i].tags = rows[i].tags
       PROVE  ControlsIgnoreScores'
  <2>1. ASSUME NEW r \in ToSet(rows')
        PROVE  "random_control" \in r.tags <=>
                 Cardinality({i \in DOMAIN launches :
                    Hash["random_all"][launches[i].mint] < Hash["random_all"][r.mint]}) < RandomControls
    <3>1. PICK i \in DOMAIN rows : r = rows'[i]
      BY <1>6
    <3>2. r.tags = rows[i].tags /\ r.mint = rows[i].mint /\ rows[i] \in ToSet(rows)
      BY <1>2, <1>6, <1>13, <3>1
    <3> QED
      BY <1>13, <3>2 DEF IInv, ControlsIgnoreScores, Later
  <2> QED
    BY <1>1, <2>1 DEF ControlsIgnoreScores
<1> QED
  BY <1>7, <1>9, <1>10, <1>11, <1>12, <1>13

(* Until the package is made there is none. *)
LEMMA NotPackaged ==
    ASSUME IInv, stage # "done", stage' # "done",
           package'.population = package.population, package'.rows = package.rows
    PROVE  Packaged'
<1>1. package.population = <<>> /\ package.rows = <<>> /\ DOMAIN package.rows = {}
  BY DEF IInv, Packaged
<1> QED
  BY <1>1 DEF Packaged, PopulationComplete, PackagedTapeIsInput

(* The random controls are taken by hash from all rows, of which there are *)
(* as many below a hash as announcements.                                  *)
LEMMA ControlsByHash ==
    ASSUME IInv, ~Capturing, NEW a \in DOMAIN rows
    PROVE  "random_control" \in TagsOf(rows[a].mint) <=>
             Cardinality({i \in DOMAIN launches :
                Hash["random_all"][launches[i].mint] < Hash["random_all"][rows[a].mint]}) < RandomControls
<1> DEFINE hash == Hash["random_all"]
<1>1. PICK n \in Nat : DOMAIN rows = 1..n /\ n = Len(rows)
  BY DEF IInv, Types, IsList
<1>2. \A i \in 1..n : rows[i].mint \in Mints
  BY <1>1 DEF IInv, Types, ToSet
<1>3. /\ \A m \in Mints : hash[m] \in Nat
      /\ \A m, o \in Mints : hash[m] = hash[o] => m = o
      /\ RandomControls \in Nat
  BY HtRunAssumption
<1>4. PICK keys : keys = [i \in 1..n |-> hash[rows[i].mint]]
  OBVIOUS
<1>5. keys \in [1..n -> Int]
  BY <1>2, <1>3, <1>4
<1>6. PICK order : order = StableOrder(keys)
  OBVIOUS
<1>7. order \in [1..n -> 1..n]
  BY <1>5, <1>6, SortingPermutes DEF Permutes
<1>8. PICK sorted : sorted = At(rows, order)
  OBVIOUS
<1>9. sorted \in Seq(ToSet(rows)) /\ Len(sorted) = n /\ \A k \in 1..n : sorted[k] = rows[order[k]]
  <2>1. rows \in Seq(ToSet(rows)) /\ order \in [1..n -> 1..Len(rows)]
    BY <1>1, <1>7 DEF IInv, Types, IsList
  <2> QED
    BY <1>8, <2>1, AtPlaces
<1>10. RandomPick = FirstOf(sorted, RandomControls)
  BY <1>1, <1>4, <1>6, <1>8 DEF RandomPick, take_hash, StableBy
<1>11. PICK q \in Nat : q = AtMost(RandomControls, n) /\ q <= n
  BY <1>3 DEF AtMost
<1>12. ToSet(RandomPick) = {sorted[k] : k \in 1..q}
  <2>1. RandomPick = SubSeq(sorted, 1, q)
    BY <1>9, <1>10, <1>11 DEF FirstOf
  <2>2. DOMAIN RandomPick = 1..q /\ \A k \in 1..q : RandomPick[k] = sorted[k]
    BY <1>9, <1>11, <2>1
  <2> QED
    BY <2>2 DEF ToSet
<1>13. "random_control" \in TagsOf(rows[a].mint) <=> \E k \in 1..q : sorted[k].mint = rows[a].mint
  <2>1. "random_control" \in TagsOf(rows[a].mint) <=> rows[a].mint \in MintsOf(RandomPick)
    BY DEF TagsOf, Picks
  <2> QED
    BY <1>12, <2>1 DEF MintsOf
<1>14. (\E k \in 1..q : sorted[k].mint = rows[a].mint)
         <=> \E k \in 1..n : k <= RandomControls /\ keys[order[k]] = keys[a]
  <2>1. \A k \in 1..n : k \in 1..q <=> k <= RandomControls
    BY <1>3, <1>11 DEF AtMost
  <2>2. \A k \in 1..n : sorted[k].mint = rows[a].mint <=> keys[order[k]] = keys[a]
    <3> TAKE k \in 1..n
    <3>1. order[k] \in 1..n /\ a \in 1..n
      BY <1>1, <1>7
    <3>2. keys[order[k]] = hash[rows[order[k]].mint] /\ keys[a] = hash[rows[a].mint]
      BY <1>4, <3>1
    <3>3. rows[order[k]].mint \in Mints /\ rows[a].mint \in Mints
      BY <1>2, <3>1
    <3> QED
      BY <1>3, <1>9, <3>2, <3>3
  <2>3. \A k \in 1..q : k \in 1..n
    BY <1>11
  <2> QED
    BY <2>1, <2>2, <2>3
<1>15. (\E k \in 1..n : k <= RandomControls /\ keys[order[k]] = keys[a])
         <=> Cardinality(Smaller(keys, a)) < RandomControls
  <2>1. a \in 1..n /\ RandomControls \in Nat
    BY <1>1, <1>3
  <2> QED
    BY <1>5, <1>6, <2>1, SmallestFirst
<1>16. Smaller(keys, a) = Under(rows, DOMAIN rows, hash[rows[a].mint])
  BY <1>1, <1>4 DEF Under, Smaller
<1>17. Cardinality(Under(rows, DOMAIN rows, hash[rows[a].mint]))
         = Cardinality(Under(launches, DOMAIN launches, hash[rows[a].mint]))
  <2>1. rows[a].mint \in Mints /\ Known = DOMAIN launches
    BY <1>1, <1>2 DEF Known
  <2> QED
    BY <2>1 DEF IInv, Below
<1>18. Under(launches, DOMAIN launches, hash[rows[a].mint])
         = {i \in DOMAIN launches : hash[launches[i].mint] < hash[rows[a].mint]}
  BY DEF Under
<1> QED
  BY <1>13, <1>14, <1>15, <1>16, <1>17, <1>18
LEMMA RowsOf ==
    ASSUME IInv, NEW i \in DOMAIN rows
    PROVE  rows[i] \in ToSet(rows) /\ DOMAIN rows[i] = RowFields
<1>1. rows[i] \in ToSet(rows)
  BY DEF ToSet
<1> QED
  BY <1>1 DEF IInv, Types

LEMMA SelectHolds ==
    ASSUME IInv, Select
    PROVE  IInv'
<1>1. /\ ~Capturing /\ stage' = "audit" /\ stage = "select" /\ UNCHANGED <<captureVars, tapes, package>>
      /\ rows' = [i \in DOMAIN rows |->
             [rows[i] EXCEPT !.tags = TagsOf(rows[i].mint),
                             !.audit = IF TagsOf(rows[i].mint) = {} THEN "NOT_SELECTED" ELSE "SELECTED_PENDING"]]
  BY DEF Select, Capturing
<1>2. ASSUME NEW i \in DOMAIN rows
      PROVE  /\ DOMAIN rows'[i] = RowFields /\ ActionPart(rows'[i]) = ActionPart(rows[i])
             /\ rows'[i].tags = TagsOf(rows[i].mint) /\ rows'[i].mint = rows[i].mint
  <2>1. DOMAIN rows[i] = RowFields
    BY RowsOf
  <2>2. rows'[i] = [rows[i] EXCEPT !.tags = TagsOf(rows[i].mint),
                        !.audit = IF TagsOf(rows[i].mint) = {} THEN "NOT_SELECTED" ELSE "SELECTED_PENDING"]
    BY <1>1
  <2> QED
    BY <2>1, <2>2 DEF RowFields, ActionPart
<1>3. DOMAIN rows' = DOMAIN rows /\ rows' = [i \in DOMAIN rows |-> rows'[i]] /\ stage' \in Later
  BY <1>1 DEF Later
<1>4. Types' /\ Buffered' /\ Tally' /\ Scored' /\ InTime' /\ Origin' /\ Paired' /\ Below'
  BY <1>1, <1>2, <1>3, RowsAnnotated
<1>5. ControlsIgnoreScores'
  <2>1. ASSUME NEW r \in ToSet(rows')
        PROVE  "random_control" \in r.tags <=>
                 Cardinality({i \in DOMAIN launches :
                    Hash["random_all"][launches[i].mint] < Hash["random_all"][r.mint]}) < RandomControls
    <3>1. PICK i \in DOMAIN rows : r = rows'[i]
      BY <1>3 DEF ToSet
    <3>2. r.tags = TagsOf(rows[i].mint) /\ r.mint = rows[i].mint
      BY <1>2, <3>1
    <3> QED
      BY <1>1, <3>2, ControlsByHash
  <2> QED
    BY <1>1, <2>1 DEF ControlsIgnoreScores, captureVars
<1>6. Packaged'
  BY <1>1, NotPackaged
<1> QED
  BY <1>4, <1>5, <1>6 DEF IInv

LEMMA AuditSelectedHolds ==
    ASSUME IInv, AuditSelected
    PROVE  IInv'
<1>1. /\ ~Capturing /\ stage' = "forensics" /\ stage = "audit" /\ UNCHANGED <<captureVars, tapes, package>>
  BY DEF AuditSelected, Capturing
<1>2. PICK verdict : rows' = [i \in DOMAIN rows |->
          IF i \in DOMAIN verdict THEN apply_result(rows[i], verdict[i]) ELSE rows[i]]
  BY DEF AuditSelected
<1>3. ASSUME NEW i \in DOMAIN rows
      PROVE  /\ DOMAIN rows'[i] = RowFields /\ ActionPart(rows'[i]) = ActionPart(rows[i])
             /\ rows'[i].tags = rows[i].tags
  <2>1. DOMAIN rows[i] = RowFields
    BY RowsOf
  <2>2. rows'[i] = [rows[i] EXCEPT !.audit = verdict[i]] \/ rows'[i] = rows[i]
    BY <1>2 DEF apply_result
  <2> QED
    BY <2>1, <2>2 DEF RowFields, ActionPart
<1>4. DOMAIN rows' = DOMAIN rows /\ rows' = [i \in DOMAIN rows |-> rows'[i]] /\ {stage, stage'} \subseteq Later
  BY <1>1, <1>2 DEF Later
<1>5. /\ Types' /\ Buffered' /\ Tally' /\ Scored' /\ InTime' /\ Origin' /\ Paired' /\ Below'
      /\ ControlsIgnoreScores'
  BY <1>1, <1>3, <1>4, RowsAnnotated
<1>6. Packaged'
  BY <1>1, NotPackaged
<1> QED
  BY <1>5, <1>6 DEF IInv

LEMMA AnnotateHolds ==
    ASSUME IInv, Annotate
    PROVE  IInv'
<1>1. /\ ~Capturing /\ stage' = "gate" /\ stage = "forensics" /\ UNCHANGED <<captureVars, tapes, package>>
      /\ rows' = [i \in DOMAIN rows |->
             [rows[i] EXCEPT !.forensics = Forensics(ByMint(tapes, rows[i].mint).trades)]]
  BY DEF Annotate, Capturing
<1>2. ASSUME NEW i \in DOMAIN rows
      PROVE  /\ DOMAIN rows'[i] = RowFields /\ ActionPart(rows'[i]) = ActionPart(rows[i])
             /\ rows'[i].tags = rows[i].tags
  <2>1. DOMAIN rows[i] = RowFields
    BY RowsOf
  <2>2. rows'[i] = [rows[i] EXCEPT !.forensics = Forensics(ByMint(tapes, rows[i].mint).trades)]
    BY <1>1
  <2> QED
    BY <2>1, <2>2 DEF RowFields, ActionPart
<1>3. DOMAIN rows' = DOMAIN rows /\ rows' = [i \in DOMAIN rows |-> rows'[i]] /\ {stage, stage'} \subseteq Later
  BY <1>1 DEF Later
<1>4. /\ Types' /\ Buffered' /\ Tally' /\ Scored' /\ InTime' /\ Origin' /\ Paired' /\ Below'
      /\ ControlsIgnoreScores'
  BY <1>1, <1>2, <1>3, RowsAnnotated
<1>5. Packaged'
  BY <1>1, NotPackaged
<1> QED
  BY <1>4, <1>5 DEF IInv

LEMMA ApplyGateHolds ==
    ASSUME IInv, ApplyGate
    PROVE  IInv'
<1>1. /\ ~Capturing /\ stage' = "drift" /\ stage = "gate" /\ UNCHANGED <<captureVars, tapes, package>>
      /\ rows' = [i \in DOMAIN rows |->
             [rows[i] EXCEPT !.gate = assess_adversarial_risk(RowFeatures(rows[i]), rows[i].decision)]]
  BY DEF ApplyGate, Capturing
<1>2. ASSUME NEW i \in DOMAIN rows
      PROVE  /\ DOMAIN rows'[i] = RowFields /\ ActionPart(rows'[i]) = ActionPart(rows[i])
             /\ rows'[i].tags = rows[i].tags
  <2>1. DOMAIN rows[i] = RowFields
    BY RowsOf
  <2>2. rows'[i] = [rows[i] EXCEPT !.gate = assess_adversarial_risk(RowFeatures(rows[i]), rows[i].decision)]
    BY <1>1
  <2> QED
    BY <2>1, <2>2 DEF RowFields, ActionPart
<1>3. DOMAIN rows' = DOMAIN rows /\ rows' = [i \in DOMAIN rows |-> rows'[i]] /\ {stage, stage'} \subseteq Later
  BY <1>1 DEF Later
<1>4. /\ Types' /\ Buffered' /\ Tally' /\ Scored' /\ InTime' /\ Origin' /\ Paired' /\ Below'
      /\ ControlsIgnoreScores'
  BY <1>1, <1>2, <1>3, RowsAnnotated
<1>5. Packaged'
  BY <1>1, NotPackaged
<1> QED
  BY <1>4, <1>5 DEF IInv

(* The steps that leave the rows. *)
LEMMA RowsLeft ==
    ASSUME IInv, stage \in Later, stage' \in Later, UNCHANGED <<captureVars, rows, tapes>>
    PROVE  /\ Types' /\ Buffered' /\ Tally' /\ Scored' /\ InTime' /\ Origin' /\ Paired' /\ Below'
           /\ ControlsIgnoreScores'
<1>1. /\ ~Capturing /\ DOMAIN rows' = DOMAIN rows
      /\ \A i \in DOMAIN rows : /\ DOMAIN rows'[i] = RowFields /\ ActionPart(rows'[i]) = ActionPart(rows[i])
                                /\ rows'[i].tags = rows[i].tags
  BY RowsOf DEF Capturing, Later
<1>2. rows' = [i \in DOMAIN rows |-> rows'[i]]
  BY DEF IInv, Types, IsList
<1> QED
  BY <1>1, <1>2, RowsAnnotated

LEMMA DriftHolds ==
    ASSUME IInv, Drift
    PROVE  IInv'
<1>1. /\ stage' = "package" /\ stage = "drift" /\ UNCHANGED <<captureVars, rows, tapes>>
      /\ {stage, stage'} \subseteq Later
  BY DEF Drift, Later
<1>2. package'.population = package.population /\ package'.rows = package.rows
  BY DEF Drift
<1>3. Packaged'
  BY <1>1, <1>2, NotPackaged
<1> QED
  BY <1>1, <1>3, RowsLeft DEF IInv

(* The last tape of a mint is a tape of the mint. *)
LEMMA TapeByMint ==
    ASSUME IInv, NEW m \in MintsOf(tapes)
    PROVE  ByMint(tapes, m) \in ToSet(tapes) /\ ByMint(tapes, m).mint = m
<1>1. PICK I : I = {i \in DOMAIN tapes : tapes[i].mint = m}
  OBVIOUS
<1>2. PICK u : u = At(tapes, Ascending(I))
  OBVIOUS
<1>3. ByMint(tapes, m) = Last(u)
  BY <1>1, <1>2 DEF ByMint, Those
<1>4. IsList(tapes) /\ I \subseteq DOMAIN tapes
  BY <1>1 DEF IInv, Types
<1>5. IsList(u) /\ ToSet(u) = {tapes[i] : i \in I}
  BY <1>2, <1>4, Selecting
<1>6. ToSet(u) # {}
  BY <1>1, <1>5 DEF MintsOf, ToSet
<1>7. Last(u) \in ToSet(u)
  <2>1. Len(u) \in Nat /\ DOMAIN u = 1..Len(u)
    BY <1>5 DEF IsList
  <2>2. Len(u) \in DOMAIN u
    BY <1>6, <2>1 DEF ToSet
  <2> QED
    BY <2>2 DEF Last, ToSet
<1> QED
  BY <1>1, <1>3, <1>5, <1>7 DEF ToSet

(* What is packaged: an entry of every row, the selected rows, and for     *)
(* each the tape of its mint.                                              *)
LEMMA PackageHolds ==
    ASSUME IInv, Package
    PROVE  IInv'
<1>1. /\ stage' = "done" /\ stage = "package" /\ UNCHANGED <<captureVars, rows, tapes>>
      /\ {stage, stage'} \subseteq Later /\ launches' = launches /\ rows' = rows
      /\ package'.population = [i \in DOMAIN rows |-> PopulationEntry(rows[i])]
      /\ package'.rows = Those(rows, Selected)
      /\ package'.tapes = PackagedTapes
  BY DEF Package, Later, captureVars
<1>2. Known = DOMAIN launches
  BY <1>1 DEF Known, Capturing
<1>3. PICK n \in Nat : DOMAIN rows = 1..n /\ n = Len(rows)
  BY DEF IInv, Types, IsList
<1>4. PopulationComplete'
  <2>1. Len(package'.population) = n
    BY <1>1, <1>3
  <2>2. Cardinality(DOMAIN launches) = Len(launches)
    <3>1. PICK l \in Nat : l = Len(launches) /\ DOMAIN launches = 1..l
      BY DEF IInv, Types
    <3>2. Cardinality(1..l) = l
      BY FS_Interval
    <3> QED
      BY <3>1, <3>2
  <2>3. Len(package'.population) = Len(launches)
    BY <1>2, <1>3, <2>1, <2>2 DEF IInv, Tally
  <2>4. ASSUME NEW i \in DOMAIN launches
        PROVE  \E r \in ToSet(rows) :
                 /\ r.mint = launches[i].mint /\ r.at = launches[i].at
                 /\ PopulationEntry(r) \in ToSet(package'.population)
                 /\ \A x \in ToSet(r.input) : x.sec <= Age
    <3>1. PICK r \in ToSet(rows) : r.mint = launches[i].mint /\ r.at = launches[i].at
      BY <1>2 DEF IInv, Scored
    <3>2. PICK k \in DOMAIN rows : r = rows[k]
      BY DEF ToSet
    <3>3. k \in DOMAIN package'.population /\ package'.population[k] = PopulationEntry(r)
      BY <1>1, <3>2
    <3>4. PopulationEntry(r) \in ToSet(package'.population)
      BY <3>3 DEF ToSet
    <3> QED
      BY <3>1, <3>4 DEF IInv, InTime
  <2>5. ToSet(package.population)' = ToSet(package'.population) /\ Len(package.population)' = Len(package'.population)
    BY DEF ToSet
  <2> QED
    BY <1>1, <2>3, <2>4, <2>5 DEF PopulationComplete, PopulationEntry
<1>5. PackagedTapeIsInput'
  <2>1. PICK I : I = {i \in DOMAIN rows : Selected(rows[i])}
    OBVIOUS
  <2>2. package'.rows = At(rows, Ascending(I))
    BY <1>1, <2>1 DEF Those
  <2>3. IsList(rows) /\ I \subseteq DOMAIN rows
    BY <2>1 DEF IInv, Types
  <2>4. PICK kept1 : kept1 = At(rows, Ascending(I))
    OBVIOUS
  <2>5. ToSet(kept1) = {rows[i] : i \in I} /\ ToSet(kept1) \subseteq ToSet(rows)
    BY <2>3, <2>4, Selecting
  <2>6. PICK J : J = {i \in DOMAIN rows : Selected(rows[i]) /\ rows[i].mint \in MintsOf(tapes)}
    OBVIOUS
  <2>7. PICK taken : taken = At(rows, Ascending(J))
    OBVIOUS
  <2>8. PackagedTapes = [k \in DOMAIN taken |-> ByMint(tapes, taken[k].mint)]
    BY <2>6, <2>7 DEF PackagedTapes, Those
  <2>9. ToSet(taken) = {rows[i] : i \in J}
    <3>1. J \subseteq DOMAIN rows
      BY <2>6
    <3> QED
      BY <2>3, <2>7, <3>1, Selecting
  <2>10. ASSUME NEW k \in DOMAIN kept1, AnnouncedOnce(kept1[k].mint)
         PROVE  \E t \in ToSet(PackagedTapes) : t.mint = kept1[k].mint /\ t.trades = kept1[k].input
    <3>1. kept1[k] \in ToSet(kept1)
      BY DEF ToSet
    <3>2. PICK r : r = kept1[k]
      OBVIOUS
    <3>3. PICK i \in I : r = rows[i]
      BY <2>5, <3>1, <3>2
    <3>4. r \in ToSet(rows)
      BY <2>5, <3>1, <3>2
    <3>5. r.mint \in MintsOf(tapes)
      BY <3>4 DEF IInv, Paired, MintsOf
    <3>6. i \in J
      BY <2>1, <2>6, <3>3, <3>5
    <3>7. r \in ToSet(taken)
      BY <2>9, <3>3, <3>6
    <3>8. PICK l \in DOMAIN taken : taken[l] = r
      BY <3>7 DEF ToSet
    <3>9. ByMint(tapes, r.mint) \in ToSet(PackagedTapes)
      BY <2>8, <3>8 DEF ToSet
    <3>10. ByMint(tapes, r.mint) \in ToSet(tapes) /\ ByMint(tapes, r.mint).mint = r.mint
      BY <3>5, TapeByMint
    <3>11. ByMint(tapes, r.mint).trades = r.input
      BY <2>10, <3>2, <3>4, <3>10 DEF IInv, Paired
    <3> QED
      BY <3>2, <3>9, <3>10, <3>11
  <2>11. ASSUME NEW k \in DOMAIN package'.rows, AnnouncedOnce(package'.rows[k].mint)
         PROVE  \E t \in ToSet(package'.tapes) :
                  t.mint = package'.rows[k].mint /\ t.trades = package'.rows[k].input
    BY <1>1, <2>2, <2>4, <2>10, <2>11
  <2> QED
    BY <1>1, <2>11 DEF PackagedTapeIsInput, AnnouncedOnce, ToSet
<1>6. Packaged'
  BY <1>1, <1>4, <1>5 DEF Packaged
<1> QED
  BY <1>1, <1>6, RowsLeft DEF IInv
-----------------------------------------------------------------------------
(* The theorems *)

LEMMA UnchangedHolds ==
    ASSUME IInv, UNCHANGED vars
    PROVE  IInv'
<1>1. UNCHANGED <<clock, launches, active, events, kept, decided, stage, rows, tapes, package>>
  BY DEF vars, captureVars
<1>2. Known' = Known
  BY <1>1 DEF Known, Capturing
<1>3. Types' /\ Buffered' /\ Tally' /\ Scored' /\ InTime' /\ Origin' /\ Below'
  BY <1>1, <1>2 DEF IInv, Types, Buffered, Tally, Scored, InTime, Origin, Below
<1>4. Paired' /\ ControlsIgnoreScores'
  BY <1>1 DEF IInv, Paired, ControlsIgnoreScores, AnnouncedOnce
<1>5. Packaged'
  BY <1>1 DEF IInv, Packaged, PopulationComplete, PackagedTapeIsInput, AnnouncedOnce
<1> QED
  BY <1>3, <1>4, <1>5 DEF IInv

LEMMA NextHolds == IInv /\ [Next]_vars => IInv'
<1> SUFFICES ASSUME IInv, [Next]_vars PROVE IInv'
  OBVIOUS
<1>1. CASE Tick
  BY <1>1, TickHolds
<1>2. ASSUME NEW m \in Mints, Announce(m) PROVE IInv'
  BY <1>2, AnnounceHolds
<1>3. ASSUME NEW tx \in Txs, Deliver(tx) PROVE IInv'
  BY <1>3, DeliverHolds
<1>4. CASE FeedEnds
  BY <1>4, FeedEndsHolds
<1>5. ASSUME NEW i \in DOMAIN launches, NEW ten \in Levels, NEW twentyFive \in Levels, Decide(i, ten, twentyFive)
      PROVE  IInv'
  BY <1>5, DecideHolds
<1>6. CASE Lose
  BY <1>6, LoseHolds
<1>7. CASE WriteOut
  BY <1>7, WriteOutHolds
<1>8. CASE Select
  BY <1>8, SelectHolds
<1>9. CASE AuditSelected
  BY <1>9, AuditSelectedHolds
<1>10. CASE Annotate
  BY <1>10, AnnotateHolds
<1>11. CASE ApplyGate
  BY <1>11, ApplyGateHolds
<1>12. CASE Drift
  BY <1>12, DriftHolds
<1>13. CASE Package
  BY <1>13, PackageHolds
<1>14. CASE UNCHANGED vars
  BY <1>14, UnchangedHolds
<1> QED
  BY <1>1, <1>2, <1>3, <1>4, <1>5, <1>6, <1>7, <1>8, <1>9, <1>10, <1>11, <1>12, <1>13, <1>14 DEF Next

THEOREM HtRunInvariant == Spec => []IInv
<1> QED
  BY InitHolds, NextHolds, PTL DEF Spec

(* The package is all or nothing: every announcement has its score in it,  *)
(* made from trades up to its boundary.                                    *)
THEOREM HtRunPopulationComplete == Spec => []PopulationComplete
<1>1. IInv => PopulationComplete
  BY DEF IInv, Packaged
<1> QED
  BY <1>1, HtRunInvariant, PTL

(* A selected row enters the ledger with the trades it was scored from. *)
THEOREM HtRunPackagedTapeIsInput == Spec => []PackagedTapeIsInput
<1>1. IInv => PackagedTapeIsInput
  BY DEF IInv, Packaged
<1> QED
  BY <1>1, HtRunInvariant, PTL

(* Who the random controls are depends on the hashes alone. *)
THEOREM HtRunControlsIgnoreScores == Spec => []ControlsIgnoreScores
<1>1. IInv => ControlsIgnoreScores
  BY DEF IInv
<1> QED
  BY <1>1, HtRunInvariant, PTL

(* What was kept of a notification is found when its transaction is        *)
(* fetched.                                                                *)
THEOREM HtRunStreamAgreesWithFetch == Spec => []StreamAgreesWithFetch
<1>1. IInv => StreamAgreesWithFetch
  <2> SUFFICES ASSUME IInv PROVE StreamAgreesWithFetch
    OBVIOUS
  <2>1. kept \subseteq Txs
    BY DEF IInv, Types
  <2>2. \A tx \in kept : ToSet(Streamed[tx]) \subseteq Fetched[tx]
    BY <2>1, FetchHasStream
  <2> QED
    BY <2>2 DEF IInv, Buffered, StreamAgreesWithFetch
<1> QED
  BY <1>1, HtRunInvariant, PTL

(* However many bytes of the tail there are, each field is read where it   *)
(* was written.                                                            *)
THEOREM HtRunTailReadsWritten == Spec => []TailReadsWritten
<1>1. TailReadsWritten
  <2>1. ASSUME NEW holders \in 0..2, NEW extra \in 0..170, NEW p, p = [holders |-> holders, len |-> Body + extra]
        PROVE  /\ ~Reading(p).astray
               /\ Reading(p).got = {i \in Fields : Offset(holders, i) + Widths(holders)[i] <= p.len}
    <3>1. p.holders = holders /\ p.holders \in Nat /\ p.len \in Nat /\ Body <= p.len
      BY <2>1, DecodingAssumption
    <3> QED
      BY <3>1, TailIsRead
  <2> QED
    BY <2>1 DEF TailReadsWritten, CutsReadAsWritten
<1> QED
  BY <1>1, PTL

(* No step but the loss of the run changes what was decided, or drops a    *)
(* tape.                                                                   *)
THEOREM HtRunActionImmutable == Spec => ActionImmutable
<1> DEFINE Same ==
      /\ \A r \in ToSet(rows) : \E s \in ToSet(rows)' : ActionPart(r) = ActionPart(s)
      /\ ToSet(tapes) \subseteq ToSet(tapes)'
<1>1. ASSUME IInv, Next, stage' # "lost" PROVE Same
  <2>1. ASSUME rows' = rows, tapes' = tapes PROVE Same
    BY <2>1 DEF ToSet
  <2>2. ASSUME tapes' = tapes, DOMAIN rows' = DOMAIN rows,
               \A i \in DOMAIN rows : ActionPart(rows'[i]) = ActionPart(rows[i])
        PROVE  Same
    BY <2>2 DEF ToSet
  <2>3. \A i \in DOMAIN rows : DOMAIN rows[i] = RowFields
    BY <1>1, RowsOf
  <2>4. CASE Tick \/ (\E m \in Mints : Announce(m)) \/ (\E tx \in Txs : Deliver(tx)) \/ FeedEnds
             \/ Drift \/ Package
    BY <2>1, <2>4 DEF Tick, Announce, Deliver, FeedEnds, Drift, Package
  <2>5. ASSUME NEW i \in DOMAIN launches, NEW ten \in Levels, NEW twentyFive \in Levels,
               Decide(i, ten, twentyFive)
        PROVE  Same
    <3>1. PICK row, tape : rows' = Append(rows, row) /\ tapes' = Append(tapes, tape)
      BY <2>5 DEF Decide
    <3>2. IsList(rows) /\ IsList(tapes)
      BY <1>1 DEF IInv, Types
    <3>3. ToSet(rows') = ToSet(rows) \cup {row} /\ ToSet(tapes') = ToSet(tapes) \cup {tape}
      BY <3>1, <3>2, Appended
    <3>4. ToSet(rows)' = ToSet(rows') /\ ToSet(tapes)' = ToSet(tapes')
      BY DEF ToSet
    <3> QED
      BY <3>3, <3>4
  <2>6. CASE Lose
    BY <1>1, <2>6 DEF Lose
  <2>7. CASE WriteOut
    <3>1. rows' = SortedByLaunch(rows) /\ tapes' = SortedByLaunch(tapes)
      BY <2>7 DEF WriteOut
    <3>2. /\ IsList(rows) /\ \A r \in ToSet(rows) : r.mint \in Mints /\ r.at \in Nat
          /\ IsList(tapes) /\ \A t \in ToSet(tapes) : t.mint \in Mints /\ t.at \in Nat
      BY <1>1 DEF IInv, Types
    <3>3. ToSet(rows') = ToSet(rows) /\ ToSet(tapes') = ToSet(tapes)
      BY <3>1, <3>2, WrittenInOrder
    <3>4. ToSet(rows)' = ToSet(rows') /\ ToSet(tapes)' = ToSet(tapes')
      BY DEF ToSet
    <3> QED
      BY <3>3, <3>4
  <2>8. CASE Select
    <3>1. ASSUME NEW i \in DOMAIN rows PROVE ActionPart(rows'[i]) = ActionPart(rows[i])
      <4>1. rows'[i] = [rows[i] EXCEPT !.tags = TagsOf(rows[i].mint),
                        !.audit = IF TagsOf(rows[i].mint) = {} THEN "NOT_SELECTED" ELSE "SELECTED_PENDING"]
        BY <2>8 DEF Select
      <4> QED
        BY <2>3, <4>1 DEF RowFields, ActionPart
    <3> QED
      BY <2>2, <2>8, <3>1 DEF Select
  <2>9. CASE AuditSelected
    <3>1. PICK verdict : rows' = [i \in DOMAIN rows |->
              IF i \in DOMAIN verdict THEN apply_result(rows[i], verdict[i]) ELSE rows[i]]
      BY <2>9 DEF AuditSelected
    <3>2. ASSUME NEW i \in DOMAIN rows PROVE ActionPart(rows'[i]) = ActionPart(rows[i])
      <4>1. rows'[i] = [rows[i] EXCEPT !.audit = verdict[i]] \/ rows'[i] = rows[i]
        BY <3>1 DEF apply_result
      <4> QED
        BY <2>3, <4>1 DEF RowFields, ActionPart
    <3> QED
      BY <2>2, <2>9, <3>1, <3>2 DEF AuditSelected
  <2>10. CASE Annotate
    <3>1. ASSUME NEW i \in DOMAIN rows PROVE ActionPart(rows'[i]) = ActionPart(rows[i])
      <4>1. rows'[i] = [rows[i] EXCEPT !.forensics = Forensics(ByMint(tapes, rows[i].mint).trades)]
        BY <2>10 DEF Annotate
      <4> QED
        BY <2>3, <4>1 DEF RowFields, ActionPart
    <3> QED
      BY <2>2, <2>10, <3>1 DEF Annotate
  <2>11. CASE ApplyGate
    <3>1. ASSUME NEW i \in DOMAIN rows PROVE ActionPart(rows'[i]) = ActionPart(rows[i])
      <4>1. rows'[i] = [rows[i] EXCEPT !.gate = assess_adversarial_risk(RowFeatures(rows[i]), rows[i].decision)]
        BY <2>11 DEF ApplyGate
      <4> QED
        BY <2>3, <4>1 DEF RowFields, ActionPart
    <3> QED
      BY <2>2, <2>11, <3>1 DEF ApplyGate
  <2> QED
    BY <1>1, <2>4, <2>5, <2>6, <2>7, <2>8, <2>9, <2>10, <2>11 DEF Next
<1>2. IInv /\ [Next]_vars => [stage' # "lost" => Same]_vars
  BY <1>1
<1> HIDE DEF Same
<1>3. Spec => [][stage' # "lost" => Same]_vars
  BY <1>2, HtRunInvariant, PTL DEF Spec
<1> QED
  BY <1>3 DEF Same, ActionImmutable
-----------------------------------------------------------------------------
(* What a row is told about its tape *)

(* The volume of finitely many trades is a natural number. *)
LEMMA VolumeIsNat ==
    ASSUME NEW xs, IsFiniteSet(xs), \A x \in xs : x.sol \in Nat
    PROVE  Volume(xs) \in Nat
<1> DEFINE is(h) == h = [s \in SUBSET xs |->
               IF s = {} THEN 0 ELSE (CHOOSE x \in s : TRUE).sol + h[s \ {CHOOSE x \in s : TRUE}]]
           sums == CHOOSE h : is(h)
<1>1. Volume(xs) = sums[xs]
  BY DEF Volume, MapThenSumSet, MapThenFoldSet
<1>2. PICK g : g = [x \in xs |-> x.sol]
  OBVIOUS
<1>3. \A h : is(h) <=> SumsOf(g, xs, h)
  <2>1. \A s \in SUBSET xs : s # {} => g[CHOOSE x \in s : TRUE] = (CHOOSE x \in s : TRUE).sol
    BY <1>2
  <2> QED
    BY <2>1 DEF SumsOf
<1>4. PICK h : SumsOf(g, xs, h)
  BY SumsExist
<1>5. is(sums)
  <2>1. is(h)
    BY <1>3, <1>4
  <2> QED
    BY <2>1
<1>6. SumsOf(g, xs, sums)
  BY <1>3, <1>5
<1> QED
  BY <1>1, <1>2, <1>6, SumsBound

LEMMA FiniteImage ==
    ASSUME NEW S, IsFiniteSet(S), NEW f
    PROVE  /\ IsFiniteSet({f[x] : x \in S})
           /\ Cardinality({f[x] : x \in S}) \in Nat
           /\ Cardinality({f[x] : x \in S}) <= Cardinality(S)
<1>1. PICK T : T = {f[x] : x \in S}
  OBVIOUS
<1>2. PICK g : g = [x \in S |-> f[x]]
  OBVIOUS
<1>3. g \in Surjection(S, T)
  BY <1>1, <1>2 DEF Surjection
<1>4. IsFiniteSet(T) /\ Cardinality(T) <= Cardinality(S)
  BY <1>3, FS_Surjection
<1> QED
  BY <1>1, <1>4, FS_CardinalityType

(* Fewer trades have fewer wallets. *)
LEMMA WalletsWithin ==
    ASSUME NEW ys, IsFiniteSet(ys), NEW xs, xs \subseteq ys
    PROVE  /\ IsFiniteSet(xs) /\ IsFiniteSet(Wallets(xs)) /\ Wallets(xs) \subseteq Wallets(ys)
           /\ Cardinality(Wallets(xs)) \in Nat /\ Cardinality(Wallets(ys)) \in Nat
           /\ Cardinality(Wallets(xs)) <= Cardinality(Wallets(ys))
<1>1. IsFiniteSet(xs)
  BY FS_Subset
<1>2. ASSUME NEW zs, IsFiniteSet(zs) PROVE IsFiniteSet(Wallets(zs))
  <2>1. PICK g : g = [x \in zs |-> x.user]
    OBVIOUS
  <2>2. Wallets(zs) = {g[x] : x \in zs}
    BY <2>1 DEF Wallets
  <2> QED
    BY <1>2, <2>2, FiniteImage
<1>3. Wallets(xs) \subseteq Wallets(ys)
  BY DEF Wallets
<1>4. IsFiniteSet(Wallets(xs)) /\ IsFiniteSet(Wallets(ys))
  BY <1>1, <1>2
<1> QED
  BY <1>1, <1>3, <1>4, FS_Subset, FS_CardinalityType

(* The largest of a finite set of natural numbers, 0 of none. *)
LEMMA LargestOfNats ==
    ASSUME NEW S, IsFiniteSet(S), S \subseteq Nat
    PROVE  /\ LargestOf(S) \in Nat
           /\ \A x \in S : x <= LargestOf(S)
           /\ S # {} => LargestOf(S) \in S
<1>1. CASE S = {}
  BY <1>1 DEF LargestOf
<1>2. CASE S # {}
  <2>1. PICK i \in S : \A j \in S : j <= i
    BY <1>2, FiniteGreatest
  <2>2. \A j \in S : i >= j
    BY <2>1
  <2>3. Max(S) \in S /\ \A j \in S : Max(S) >= j
    BY <2>2 DEF Max
  <2>4. LargestOf(S) = Max(S)
    BY <1>2 DEF LargestOf
  <2> QED
    BY <2>3, <2>4
<1> QED
  BY <1>1, <1>2

(* A wider circle has a larger largest. *)
LEMMA LargestGrows ==
    ASSUME NEW S, NEW T, IsFiniteSet(S), IsFiniteSet(T), S \subseteq Nat, T \subseteq Nat,
           \A x \in S : \E y \in T : x <= y
    PROVE  LargestOf(S) <= LargestOf(T)
<1>1. CASE S = {}
  <2>1. LargestOf(S) = 0 /\ LargestOf(T) \in Nat
    BY <1>1, LargestOfNats DEF LargestOf
  <2> QED
    BY <2>1
<1>2. CASE S # {}
  <2>1. LargestOf(S) \in S /\ LargestOf(S) \in Nat
    BY <1>2, LargestOfNats
  <2>2. PICK y \in T : LargestOf(S) <= y
    BY <2>1
  <2>3. y <= LargestOf(T) /\ y \in Nat /\ LargestOf(T) \in Nat
    BY LargestOfNats
  <2> QED
    BY <2>1, <2>2, <2>3
<1> QED
  BY <1>1, <1>2

(* The trades of a tape that count for the features. *)
LEMMA HumanIsFinite ==
    ASSUME NEW tape, IsList(tape)
    PROVE  /\ IsFiniteSet(Human(tape)) /\ Human(tape) \subseteq ToSet(tape)
           /\ \A x \in ToSet(tape) : 0 <= x.sec /\ x.sec <= Age /\ x.user \notin NonHuman <=> x \in Human(tape)
<1>1. PICK I : I = {i \in DOMAIN tape : 0 <= tape[i].sec /\ tape[i].sec <= Age}
  OBVIOUS
<1>2. Admitted(tape) = At(tape, Ascending(I)) /\ I \subseteq DOMAIN tape
  BY <1>1 DEF Admitted, Those
<1>3. ToSet(Admitted(tape)) = {tape[i] : i \in I}
  BY <1>2, Selecting
<1>4. IsFiniteSet(I)
  <2>1. PICK n \in Nat : DOMAIN tape = 1..n
    BY DEF IsList
  <2>2. IsFiniteSet(1..n) /\ I \in SUBSET (1..n)
    BY <1>2, <2>1, FS_Interval
  <2> QED
    BY <2>2, FS_Subset
<1>5. IsFiniteSet({tape[i] : i \in I})
  BY <1>4, FiniteImage
<1>6. Human(tape) = {x \in {tape[i] : i \in I} : x.user \notin NonHuman}
  BY <1>3 DEF Human
<1>7. Human(tape) \in SUBSET {tape[i] : i \in I}
  BY <1>6
<1>8. IsFiniteSet(Human(tape))
  BY <1>5, <1>7, FS_Subset
<1>9. {tape[i] : i \in I} = {x \in ToSet(tape) : 0 <= x.sec /\ x.sec <= Age}
  BY <1>1 DEF ToSet
<1> QED
  BY <1>6, <1>8, <1>9

(* The scored and the flow features count the same. *)
LEMMA SameCounts ==
    ASSUME NEW creator, NEW tape, NEW f, f = FlowFeatures(creator, tape),
           NEW v, v = LiveCoreFeatures(creator, tape)
    PROVE  /\ v.unique_buyers = f.buyers /\ v.unique_wallets = f.wallets /\ v.human_trades = f.trades
           /\ v.buy_volume = f.total /\ v.sell_volume = f.sold /\ v.creator_buy_volume = f.creator
           /\ v.entry_price = f.entry
<1> DEFINE human == Human(tape)
           valid == {x \in human : ValidSol(x)}
           validBuys == {x \in Buys(human) : ValidSol(x)}
<1>1. Wallets(human) = Wallets(Buys(human)) \cup Wallets(Sells(human))
  BY DEF Wallets, Buys, Sells
<1>2. /\ Buys(valid) = validBuys /\ Sells(valid) = {x \in Sells(human) : ValidSol(x)}
      /\ {x \in Buys(valid) : x.user = creator} = {x \in validBuys : x.user = creator}
  BY DEF Buys, Sells
<1>3. /\ v.unique_buyers = Cardinality(Wallets(Buys(human)))
      /\ v.unique_wallets = Cardinality(Wallets(human)) /\ v.human_trades = Cardinality(human)
      /\ v.buy_volume = Volume(Buys(valid)) /\ v.sell_volume = Volume(Sells(valid))
      /\ v.creator_buy_volume = Volume({x \in Buys(valid) : x.user = creator})
  BY DEF LiveCoreFeatures
<1>4. /\ f.buyers = Cardinality(Wallets(Buys(human)))
      /\ f.wallets = Cardinality(Wallets(Buys(human)) \cup Wallets(Sells(human)))
      /\ f.trades = Cardinality(human) /\ f.total = Volume(validBuys)
      /\ f.sold = Volume({x \in Sells(human) : ValidSol(x)})
      /\ f.creator = Volume({x \in validBuys : x.user = creator})
  BY DEF FlowFeatures, Bought
<1>5. v.entry_price = f.entry
  BY DEF FlowFeatures, LiveCoreFeatures
<1> QED
  BY <1>1, <1>2, <1>3, <1>4, <1>5

(* Buyers of the recent and of the prior half are the buyers. *)
LEMMA BuyersSplit ==
    ASSUME NEW creator, NEW tape, IsList(tape), \A x \in ToSet(tape) : x.sec \in Int,
           NEW f, f = FlowFeatures(creator, tape), NEW v, v = LiveCoreFeatures(creator, tape)
    PROVE  f.recentNew <= v.recent_buyers /\ f.buyers <= v.recent_buyers + v.prior_buyers
<1>1. PICK human : human = Human(tape)
  OBVIOUS
<1>2. PICK B, R, P : /\ B = Wallets(Buys(human))
                     /\ R = Wallets(Buys({x \in human : x.sec > Half}))
                     /\ P = Wallets(Buys({x \in human : x.sec <= Half}))
  OBVIOUS
<1>3. v.recent_buyers = Cardinality(R) /\ v.prior_buyers = Cardinality(P)
  BY <1>1, <1>2 DEF LiveCoreFeatures
<1>4. {x \in Buys(human) : x.sec <= Half} = Buys({x \in human : x.sec <= Half})
  BY DEF Buys
<1>5. f.buyers = Cardinality(B) /\ f.recentNew = Cardinality(B \ P)
  BY <1>1, <1>2, <1>4 DEF FlowFeatures
<1>6. IsFiniteSet(human) /\ \A x \in human : x.sec > Half \/ x.sec <= Half
  BY <1>1, HumanIsFinite, FeaturesAssumption
<1>7. B = R \cup P
  BY <1>2, <1>6 DEF Wallets, Buys
<1>8. IsFiniteSet(R) /\ IsFiniteSet(P)
  <2>1. Buys({x \in human : x.sec > Half}) \subseteq human /\ Buys({x \in human : x.sec <= Half}) \subseteq human
    BY DEF Buys
  <2> QED
    BY <1>2, <1>6, <2>1, WalletsWithin
<1>9. Cardinality(B) = Cardinality(R) + Cardinality(P) - Cardinality(R \cap P)
  BY <1>7, <1>8, FS_Union
<1>10. /\ Cardinality(R) \in Nat /\ Cardinality(P) \in Nat /\ Cardinality(R \cap P) \in Nat
  <2>1. IsFiniteSet(R \cap P)
    BY <1>8, FS_Intersection
  <2> QED
    BY <1>8, <2>1, FS_CardinalityType
<1>11. Cardinality(B \ P) <= Cardinality(R)
  <2>1. B \ P \in SUBSET R
    BY <1>7
  <2> QED
    BY <1>8, <2>1, FS_Subset
<1> QED
  BY <1>3, <1>5, <1>9, <1>10, <1>11

(* Wallets that share a size within two seconds share it. *)
LEMMA ClustersNest ==
    ASSUME NEW tape, IsList(tape)
    PROVE  Forensics(tape).cluster <= Forensics(tape).sameSize
<1>1. PICK human : human = {x \in ToSet(tape) : 0 <= x.sec /\ x.sec <= Age /\ x.user \notin NonHuman}
  OBVIOUS
<1>2. PICK sized : sized = {x \in Buys(human) : x.sol > 0}
  OBVIOUS
<1>3. IsFiniteSet(sized)
  <2>1. human = Human(tape)
    BY <1>1, HumanIsFinite
  <2>2. sized \in SUBSET human
    BY <1>2 DEF Buys
  <2> QED
    BY <2>1, <2>2, HumanIsFinite, FS_Subset
<1> DEFINE A(x) == {y \in sized : <<y.sec \div 2, Rounded(y.sol)>> = <<x.sec \div 2, Rounded(x.sol)>>}
           B(x) == {y \in sized : Rounded(y.sol) = Rounded(x.sol)}
           S == {Cardinality(Wallets(A(x))) : x \in sized}
           T == {Cardinality(Wallets(B(x))) : x \in sized}
<1>4. Forensics(tape).cluster = LargestOf(S) /\ Forensics(tape).sameSize = LargestOf(T)
  BY <1>1, <1>2 DEF Forensics, MostWallets
<1>5. ASSUME NEW x \in sized
      PROVE  /\ Cardinality(Wallets(A(x))) \in Nat /\ Cardinality(Wallets(B(x))) \in Nat
             /\ Cardinality(Wallets(A(x))) <= Cardinality(Wallets(B(x)))
  <2>1. A(x) \subseteq B(x) /\ B(x) \subseteq sized
    OBVIOUS
  <2> HIDE DEF A, B
  <2>2. IsFiniteSet(B(x))
    BY <1>3, <2>1, FS_Subset
  <2> QED
    BY <2>1, <2>2, WalletsWithin
<1>6. IsFiniteSet(S) /\ IsFiniteSet(T)
  <2>1. PICK g : g = [x \in sized |-> Cardinality(Wallets(A(x)))]
    OBVIOUS
  <2>2. PICK h : h = [x \in sized |-> Cardinality(Wallets(B(x)))]
    OBVIOUS
  <2>3. S = {g[x] : x \in sized}
    BY <2>1
  <2>4. T = {h[x] : x \in sized}
    BY <2>2
  <2>5. IsFiniteSet({g[x] : x \in sized}) /\ IsFiniteSet({h[x] : x \in sized})
    BY <1>3, FiniteImage
  <2> QED
    BY <2>3, <2>4, <2>5
<1> HIDE DEF A, B
<1> QED
  BY <1>4, <1>5, <1>6, LargestGrows

(* The fast round trips are round trips, and those are of wallets that     *)
(* bought and sold.                                                        *)
LEMMA RoundtripsNest ==
    ASSUME NEW creator, NEW tape, IsList(tape)
    PROVE  /\ Forensics(tape).fast <= Forensics(tape).roundtrips
           /\ Forensics(tape).roundtrips <= FlowFeatures(creator, tape).roundtrips
           /\ Forensics(tape).buyers = FlowFeatures(creator, tape).buyers
           /\ Forensics(tape).wallets = FlowFeatures(creator, tape).wallets
<1>1. PICK human : human = Human(tape)
  OBVIOUS
<1>2. human = {x \in ToSet(tape) : 0 <= x.sec /\ x.sec <= Age /\ x.user \notin NonHuman}
  BY <1>1, HumanIsFinite
<1>3. PICK F : F = {w \in Roundtrips(human) : FirstSec(Sells(human), w) - FirstSec(Buys(human), w) <= Fast}
  OBVIOUS
<1>4. /\ Forensics(tape).fast = Cardinality(F) /\ Forensics(tape).roundtrips = Cardinality(Roundtrips(human))
      /\ Forensics(tape).buyers = Cardinality(Wallets(Buys(human)))
      /\ Forensics(tape).wallets = Cardinality(Wallets(human))
  BY <1>2, <1>3 DEF Forensics
<1>5. /\ FlowFeatures(creator, tape).roundtrips = Cardinality(Wallets(Buys(human)) \cap Wallets(Sells(human)))
      /\ FlowFeatures(creator, tape).buyers = Cardinality(Wallets(Buys(human)))
      /\ FlowFeatures(creator, tape).wallets = Cardinality(Wallets(Buys(human)) \cup Wallets(Sells(human)))
  BY <1>1 DEF FlowFeatures
<1>6. Wallets(human) = Wallets(Buys(human)) \cup Wallets(Sells(human))
  BY DEF Wallets, Buys, Sells
<1>7. PICK both : both = Wallets(Buys(human)) \cap Wallets(Sells(human))
  OBVIOUS
<1>8. IsFiniteSet(both)
  <2>1. IsFiniteSet(human) /\ Buys(human) \subseteq human
    BY <1>1, HumanIsFinite DEF Buys
  <2>2. IsFiniteSet(Wallets(Buys(human)))
    BY <2>1, WalletsWithin
  <2> QED
    BY <1>7, <2>2, FS_Intersection
<1>9. Roundtrips(human) \in SUBSET both
  BY <1>7 DEF Roundtrips
<1>10. PICK R : R = Roundtrips(human)
  OBVIOUS
<1>11. IsFiniteSet(R) /\ Cardinality(R) <= Cardinality(both)
  BY <1>8, <1>9, <1>10, FS_Subset
<1>12. F \in SUBSET R
  BY <1>3, <1>10
<1>13. Cardinality(F) <= Cardinality(R)
  BY <1>11, <1>12, FS_Subset
<1> QED
  BY <1>4, <1>5, <1>6, <1>7, <1>10, <1>11, <1>13

(* A buyer with nine tenths of a volume has more than a quarter of it in   *)
(* the squares of the shares.                                              *)
LEMMA FewWhenExtreme ==
    ASSUME NEW total \in Nat, NEW top \in Nat, NEW squares \in Nat,
           100 * top >= 90 * total, total > 0, squares >= top * top
    PROVE  100 * total * total < 400 * squares
<1>1. 10 * top >= 9 * total
  OBVIOUS
<1>2. (10 * top) * (10 * top) >= (9 * total) * (9 * total)
  <2>1. PICK a \in Nat, b \in Nat : a = 10 * top /\ b = 9 * total
    OBVIOUS
  <2>2. a * a >= b * b
    <3>1. a >= b
      BY <1>1, <2>1
    <3>2. a * a >= a * b /\ a * b >= b * b
      BY <3>1
    <3> QED
      BY <3>2
  <2> QED
    BY <2>1, <2>2
<1>3. 100 * (top * top) >= 81 * (total * total)
  BY <1>2
<1>4. total * total > 0
  OBVIOUS
<1>5. PICK t \in Nat, s \in Nat, p \in Nat : t = total * total /\ s = squares /\ p = top * top
  OBVIOUS
<1>6. 100 * t < 400 * s
  BY <1>3, <1>4, <1>5
<1> QED
  BY <1>5, <1>6

(* What a wallet, or a set of wallets, bought is a sum of its purchases. *)
LEMMA SpentBound ==
    ASSUME NEW buys, NEW W, IsFiniteSet(W), \A w \in W : Bought(buys, w) \in Nat
    PROVE  /\ Spent(buys, W) \in Nat
           /\ W = {} => Spent(buys, W) = 0
           /\ \A w : W = {w} => Spent(buys, W) = Bought(buys, w)
<1> DEFINE is(h) == h = [s \in SUBSET W |->
               IF s = {} THEN 0 ELSE Bought(buys, CHOOSE w \in s : TRUE) + h[s \ {CHOOSE w \in s : TRUE}]]
           sums == CHOOSE h : is(h)
<1>1. Spent(buys, W) = sums[W]
  BY DEF Spent, MapThenSumSet, MapThenFoldSet
<1>2. PICK g : g = [w \in W |-> Bought(buys, w)]
  OBVIOUS
<1>3. \A h : is(h) <=> SumsOf(g, W, h)
  <2>1. \A s \in SUBSET W : s # {} => g[CHOOSE w \in s : TRUE] = Bought(buys, CHOOSE w \in s : TRUE)
    BY <1>2
  <2> QED
    BY <2>1 DEF SumsOf
<1>4. PICK h : SumsOf(g, W, h)
  BY SumsExist
<1>5. is(sums)
  <2>1. is(h)
    BY <1>3, <1>4
  <2> QED
    BY <2>1
<1>6. SumsOf(g, W, sums)
  BY <1>3, <1>5
<1>7. \A w \in W : g[w] = Bought(buys, w)
  BY <1>2
<1>8. (\A w \in W : g[w] \in Nat) /\ IsFiniteSet(W)
  BY <1>7
<1>9. /\ sums[W] \in Nat
      /\ W = {} => sums[W] = 0
      /\ \A w : W = {w} => sums[W] = g[w]
  <2> HIDE DEF sums, is
  <2> QED
    BY <1>6, <1>8, SumsBound
<1> QED
  BY <1>1, <1>7, <1>9

LEMMA SquaredBound ==
    ASSUME NEW buys, NEW W, W = Wallets(buys), IsFiniteSet(W), \A w \in W : Bought(buys, w) \in Nat
    PROVE  /\ Squares(buys) \in Nat
           /\ \A w \in W : Bought(buys, w) * Bought(buys, w) <= Squares(buys)
<1> DEFINE sq(w) == Bought(buys, w) * Bought(buys, w)
           is(h) == h = [s \in SUBSET W |->
               IF s = {} THEN 0 ELSE sq(CHOOSE w \in s : TRUE) + h[s \ {CHOOSE w \in s : TRUE}]]
           sums == CHOOSE h : is(h)
<1>1. Squares(buys) = sums[W]
  BY DEF Squares, MapThenSumSet, MapThenFoldSet
<1>2. PICK g : g = [w \in W |-> sq(w)]
  OBVIOUS
<1>7. \A w \in W : sq(w) \in Nat
  OBVIOUS
<1> HIDE DEF sq
<1>3. \A h : is(h) <=> SumsOf(g, W, h)
  <2>1. \A s \in SUBSET W : s # {} => g[CHOOSE w \in s : TRUE] = sq(CHOOSE w \in s : TRUE)
    BY <1>2
  <2> QED
    BY <2>1 DEF SumsOf
<1>4. PICK h : SumsOf(g, W, h)
  BY SumsExist
<1>5. is(sums)
  <2>1. is(h)
    BY <1>3, <1>4
  <2> HIDE DEF is
  <2> QED
    BY <2>1
<1>6. SumsOf(g, W, sums)
  BY <1>3, <1>5
<1>8. \A w \in W : g[w] = sq(w)
  BY <1>2
<1>9. sums[W] \in Nat /\ \A w \in W : g[w] <= sums[W]
  <2> HIDE DEF sums, is
  <2>1. (\A w \in W : g[w] \in Nat) /\ IsFiniteSet(W)
    BY <1>7, <1>8
  <2> QED
    BY <1>6, <2>1, SumsBound
<1> QED
  BY <1>1, <1>8, <1>9 DEF sq

LEMMA FlagsAreFinite ==
    ASSUME NEW f
    PROVE  /\ IsFiniteSet(Critical(f)) /\ Cardinality(Critical(f)) \in Nat
           /\ IsFiniteSet(Warnings(f)) /\ Cardinality(Warnings(f)) \in Nat
<1>1. PICK C, W : /\ C = {"single"} \cup ({"collapse"} \cup ({"top3"} \cup ({"roundtrip"} \cup {"creator"})))
                  /\ W = {"late"} \cup ({"burst"} \cup ({"drawdown"} \cup {"recent"}))
  OBVIOUS
<1>2. IsFiniteSet(C) /\ IsFiniteSet(W)
  BY <1>1, FS_Singleton, FS_Union
<1>3. Critical(f) \in SUBSET C
  BY <1>1 DEF Critical
<1>4. Warnings(f) \in SUBSET W
  BY <1>1 DEF Warnings
<1> QED
  BY <1>2, <1>3, <1>4, FS_Subset, FS_CardinalityType

(* A launch with an extreme buyer has two critical flags: the one buyer,   *)
(* and the three largest with few effective ones.                          *)
THEOREM ExtremeIsCritical ==
    ASSUME NEW creator, NEW tape, IsList(tape), \A x \in ToSet(tape) : x.sol \in Int,
           NEW f, f = FlowFeatures(creator, tape), Extreme(f)
    PROVE  Cardinality(Critical(f)) >= 2
<1>1. PICK human, buys : human = Human(tape) /\ buys = {x \in Buys(human) : ValidSol(x)}
  OBVIOUS
<1>2. PICK V : V = Wallets(buys)
  OBVIOUS
<1>3. IsFiniteSet(buys) /\ IsFiniteSet(V) /\ \A x \in buys : x.sol \in Nat
  <2>1. IsFiniteSet(human) /\ human \subseteq ToSet(tape)
    BY <1>1, HumanIsFinite
  <2>2. buys \subseteq human /\ \A x \in buys : x.sol > 0
    BY <1>1 DEF Buys, ValidSol
  <2> QED
    BY <1>2, <2>1, <2>2, WalletsWithin
<1>4. \A w : Bought(buys, w) \in Nat
  <2> TAKE w
  <2>1. PICK xs : xs = {x \in buys : x.user = w}
    OBVIOUS
  <2>2. xs \in SUBSET buys
    BY <2>1
  <2>3. IsFiniteSet(xs) /\ \A x \in xs : x.sol \in Nat
    BY <1>3, <2>2, FS_Subset
  <2> QED
    BY <2>1, <2>3, VolumeIsNat DEF Bought
<1> DEFINE groups(k) == {W \in SUBSET V : Cardinality(W) <= k}
           sums(k) == {Spent(buys, W) : W \in groups(k)}
<1>5. /\ f.total = Volume(buys) /\ f.squares = Squares(buys)
      /\ f.top = LargestOf(sums(1)) /\ f.top3 = LargestOf(sums(3))
  <2>1. /\ f.total = Volume(buys) /\ f.squares = Squares(buys)
        /\ f.top = TopVolume(buys, 1) /\ f.top3 = TopVolume(buys, 3)
    BY <1>1 DEF FlowFeatures
  <2> QED
    BY <1>2, <2>1 DEF TopVolume
<1>6. f.total \in Nat /\ f.squares \in Nat
  <2>1. Squares(buys) \in Nat
    BY <1>2, <1>3, <1>4, SquaredBound
  <2> QED
    BY <1>3, <1>5, <2>1, VolumeIsNat
<1>7. \A W \in SUBSET V : IsFiniteSet(W) /\ Cardinality(W) \in Nat /\ Spent(buys, W) \in Nat
  <2> TAKE W \in SUBSET V
  <2>1. IsFiniteSet(W)
    BY <1>3, FS_Subset
  <2> QED
    BY <1>4, <2>1, SpentBound, FS_CardinalityType
<1>8. ASSUME NEW k \in Nat PROVE IsFiniteSet(sums(k)) /\ sums(k) \subseteq Nat
  <2>1. IsFiniteSet(groups(k))
    <3>1. IsFiniteSet(SUBSET V) /\ groups(k) \in SUBSET (SUBSET V)
      BY <1>3, FS_SUBSET
    <3> QED
      BY <3>1, FS_Subset
  <2>2. PICK g : g = [W \in groups(k) |-> Spent(buys, W)]
    OBVIOUS
  <2>3. PICK G : G = groups(k)
    OBVIOUS
  <2>4. sums(k) = {g[W] : W \in G}
    BY <2>2, <2>3
  <2>5. IsFiniteSet({g[W] : W \in G})
    BY <2>1, <2>3, FiniteImage
  <2> QED
    BY <1>7, <2>4, <2>5
<1>9. f.top \in Nat /\ f.top3 \in Nat /\ f.top <= f.top3
  <2>1. sums(1) \subseteq sums(3)
    <3>1. ASSUME NEW W \in groups(1) PROVE W \in groups(3)
      BY <1>7
    <3> QED
      BY <3>1
  <2> HIDE DEF sums
  <2>2. \A x \in sums(1) : \E y \in sums(3) : x <= y
    <3>1. \A x \in sums(1) : x \in sums(3) /\ x \in Nat
      BY <1>8, <2>1
    <3> QED
      BY <3>1
  <2>3. IsFiniteSet(sums(1)) /\ sums(1) \subseteq Nat /\ IsFiniteSet(sums(3)) /\ sums(3) \subseteq Nat
    BY <1>8
  <2>4. LargestOf(sums(1)) <= LargestOf(sums(3)) /\ LargestOf(sums(1)) \in Nat /\ LargestOf(sums(3)) \in Nat
    BY <2>2, <2>3, LargestGrows, LargestOfNats
  <2> QED
    BY <1>5, <2>4
<1>10. f.total > 0 /\ 100 * f.top >= 90 * f.total
  BY DEF Extreme, Dominant, THRESHOLDS
<1>11. f.squares >= f.top * f.top
  <2>1. Spent(buys, {}) \in sums(1)
    <3>1. {} \in SUBSET V /\ Cardinality({}) = 0
      BY FS_EmptySet
    <3> QED
      BY <3>1
  <2>2. f.top \in sums(1)
    <3> HIDE DEF sums
    <3>1. sums(1) # {} /\ IsFiniteSet(sums(1)) /\ sums(1) \subseteq Nat
      BY <1>8, <2>1
    <3> QED
      BY <1>5, <3>1, LargestOfNats
  <2>3. PICK W \in groups(1) : f.top = Spent(buys, W)
    BY <2>2
  <2>4. W # {}
    <3>1. ASSUME W = {} PROVE FALSE
      <4>1. f.top = 0
        BY <1>4, <1>7, <2>3, <3>1, SpentBound
      <4> QED
        BY <1>6, <1>10, <4>1
    <3> QED
      BY <3>1
  <2>5. PICK w : W = {w}
    <3>1. IsFiniteSet(W) /\ Cardinality(W) \in Nat /\ Cardinality(W) <= 1
      BY <1>7, <2>3
    <3>2. Cardinality(W) # 0
      BY <2>4, <3>1, FS_EmptySet
    <3>3. Cardinality(W) = 1
      BY <3>1, <3>2
    <3> QED
      BY <3>1, <3>3, FS_Singleton
  <2>6. w \in V /\ f.top = Bought(buys, w)
    <3>1. IsFiniteSet(W) /\ W \in SUBSET V
      BY <1>7, <2>3
    <3> QED
      BY <1>4, <2>3, <2>5, <3>1, SpentBound
  <2>7. Bought(buys, w) * Bought(buys, w) <= Squares(buys)
    BY <1>2, <1>3, <1>4, <2>6, SquaredBound
  <2> QED
    BY <1>4, <1>5, <1>6, <2>6, <2>7
<1>12. 100 * f.total * f.total < 400 * f.squares
  BY <1>6, <1>9, <1>10, <1>11, FewWhenExtreme
<1>13. "single" \in Critical(f)
  <2>1. 100 * f.top >= 75 * f.total
    BY <1>6, <1>9, <1>10
  <2> QED
    BY <1>10, <2>1 DEF Critical, Dominant, THRESHOLDS
<1>14. "top3" \in Critical(f)
  <2>1. 100 * f.top3 >= 90 * f.total
    BY <1>6, <1>9, <1>10
  <2> QED
    BY <1>10, <1>12, <2>1 DEF Critical, Dominant, THRESHOLDS, FewEffective
<1>15. {"single", "top3"} \in SUBSET Critical(f) /\ IsFiniteSet(Critical(f)) /\ Cardinality({"single", "top3"}) = 2
  <2>1. IsFiniteSet({"single"}) /\ Cardinality({"single"}) = 1
    BY FS_Singleton
  <2>2. Cardinality({"single"} \cup {"top3"}) = 2
    BY <2>1, FS_AddElement
  <2>3. {"single"} \cup {"top3"} = {"single", "top3"}
    OBVIOUS
  <2> QED
    BY <1>13, <1>14, <2>2, <2>3, FlagsAreFinite
<1> QED
  BY <1>15, FS_Subset, FS_CardinalityType

(* The gate suggests a paper trade only for a candidate with a known price *)
(* and at most one warning.                                                *)
LEMMA GatePasses ==
    ASSUME NEW f, NEW decision, NEW gate, gate = assess_adversarial_risk(f, decision),
           gate.suggested_decision \in Paper
    PROVE  (decision \in Paper => f.entry # None) /\ gate.risk_score <= 1
<1>1. CASE decision \notin Paper
  <2>1. gate.suggested_decision = decision /\ gate.risk_score = 0
    BY <1>1 DEF assess_adversarial_risk, NotApplicable, GateAssessment
  <2> QED
    BY <1>1, <2>1
<1>2. CASE decision \in Paper /\ f.entry = None
  <2>1. gate.suggested_decision = "PAPER_REVIEW_DATA"
    BY <1>2 DEF assess_adversarial_risk, GateAssessment
  <2> QED
    BY <2>1 DEF Paper
<1>3. CASE decision \in Paper /\ f.entry # None
  <2>1. gate = Assessed(f, decision)
    BY <1>3 DEF assess_adversarial_risk
  <2>2. Cardinality(Critical(f)) \in Nat /\ Cardinality(Warnings(f)) \in Nat
    BY FlagsAreFinite
  <2>3. ~(Extreme(f) \/ Cardinality(Critical(f)) >= 2)
    <3>1. ASSUME Extreme(f) \/ Cardinality(Critical(f)) >= 2 PROVE FALSE
      <4>1. gate.suggested_decision = "PAPER_VETO"
        BY <2>1, <3>1 DEF Assessed, GateAssessment
      <4> QED
        BY <4>1 DEF Paper
    <3> QED
      BY <3>1
  <2>4. ~(Critical(f) # {} \/ Cardinality(Warnings(f)) >= 2)
    <3>1. ASSUME Critical(f) # {} \/ Cardinality(Warnings(f)) >= 2 PROVE FALSE
      <4>1. gate.suggested_decision = "PAPER_REVIEW"
        BY <2>1, <2>3, <3>1 DEF Assessed, GateAssessment
      <4> QED
        BY <4>1 DEF Paper
    <3> QED
      BY <3>1
  <2>5. gate.risk_score = 2 * Cardinality(Critical(f)) + Cardinality(Warnings(f))
    BY <2>1, <2>3, <2>4 DEF Assessed, GateAssessment
  <2>6. Cardinality(Critical(f)) = 0
    BY <2>4, FS_EmptySet
  <2> QED
    BY <1>3, <2>2, <2>4, <2>5, <2>6
<1> QED
  BY <1>1, <1>2, <1>3

(* A row that was annotated and passed the gate is consistent.             *)
LEMMA AnnotatedRow ==
    ASSUME NEW r, IsList(r.input), \A x \in ToSet(r.input) : x.sol \in Int /\ x.sec \in Int,
           NEW tape, IsList(tape), AnnouncedOnce(r.mint) => tape = r.input,
           r.forensics = Forensics(tape),
           r.gate = assess_adversarial_risk(RowFeatures(r), r.decision)
    PROVE  RowConsistent(r)
<1>1. PICK creator, f, v : /\ creator = Creator[r.mint]
                           /\ f = FlowFeatures(creator, r.input) /\ v = LiveCoreFeatures(creator, r.input)
  OBVIOUS
<1>2. RowFeatures(r) = f /\ LiveFeatures(r) = v
  BY <1>1 DEF RowFeatures, LiveFeatures
<1>3. /\ v.unique_buyers = f.buyers /\ v.unique_wallets = f.wallets /\ v.human_trades = f.trades
      /\ v.buy_volume = f.total /\ v.sell_volume = f.sold /\ v.creator_buy_volume = f.creator
      /\ v.entry_price = f.entry
  BY <1>1, SameCounts
<1>4. f.recentNew <= v.recent_buyers /\ f.buyers <= v.recent_buyers + v.prior_buyers
  BY <1>1, BuyersSplit
<1>5. Extreme(f) => Cardinality(Critical(f)) >= 2
  BY <1>1, ExtremeIsCritical
<1>6. /\ r.decision \in Paper /\ f.entry = None => r.gate.suggested_decision \notin Paper
      /\ r.gate.suggested_decision \in Paper => r.gate.risk_score <= 1
  BY <1>2, GatePasses
<1>7. r.forensics.cluster <= r.forensics.sameSize /\ r.forensics.fast <= r.forensics.roundtrips
  BY ClustersNest, RoundtripsNest
<1>8. AnnouncedOnce(r.mint) =>
        /\ r.forensics.buyers = f.buyers /\ r.forensics.wallets = f.wallets
        /\ r.forensics.roundtrips <= f.roundtrips
  BY <1>1, RoundtripsNest
<1> QED
  BY <1>2, <1>3, <1>4, <1>5, <1>6, <1>7, <1>8 DEF RowConsistent

(* A gap is missing exactly where nobody traded, and then no trade is      *)
(* counted and no wallet.                                                  *)
LEMMA GapMissing ==
    ASSUME NEW r, IsList(r.input), \A x \in ToSet(r.input) : x.sec \in Int
    PROVE  /\ "last_trade_gap_sec" \in Missing(LiveFeatures(r)) <=> RowFeatures(r).wallets = 0
           /\ LiveFeatures(r).human_trades = 0 <=> RowFeatures(r).wallets = 0
<1>1. PICK creator, human : creator = Creator[r.mint] /\ human = Human(r.input)
  OBVIOUS
<1>2. PICK v : v = LiveCoreFeatures(creator, r.input)
  OBVIOUS
<1>3. LiveFeatures(r) = v /\ RowFeatures(r).wallets = Cardinality(Wallets(human))
  <2>1. v.unique_wallets = FlowFeatures(creator, r.input).wallets
    BY <1>2, SameCounts
  <2>2. v.unique_wallets = Cardinality(Wallets(human))
    BY <1>1, <1>2 DEF LiveCoreFeatures
  <2> QED
    BY <1>1, <1>2, <2>1, <2>2 DEF LiveFeatures, RowFeatures
<1>4. IsFiniteSet(human) /\ IsFiniteSet(Wallets(human)) /\ human \subseteq ToSet(r.input)
  BY <1>1, HumanIsFinite, WalletsWithin
<1>5. Wallets(human) = {} <=> human = {}
  BY DEF Wallets
<1>6. (Cardinality(human) = 0 <=> human = {}) /\ (Cardinality(Wallets(human)) = 0 <=> human = {})
  BY <1>4, <1>5, FS_EmptySet
<1>7. v.human_trades = Cardinality(human)
  BY <1>1, <1>2 DEF LiveCoreFeatures
<1>8. "last_trade_gap_sec" \in Missing(v) <=> v.last_trade_gap_sec = None
  <2>1. "last_trade_gap_sec" \in DOMAIN v
    BY <1>2 DEF LiveCoreFeatures
  <2> QED
    BY <2>1 DEF Missing
<1>9. v.last_trade_gap_sec = IF human = {} THEN None ELSE Age - Max({x.sec : x \in human})
  BY <1>1, <1>2 DEF LiveCoreFeatures
<1>10. ASSUME human # {} PROVE Age - Max({x.sec : x \in human}) \in Int
  <2>1. PICK S : S = {x.sec : x \in human}
    OBVIOUS
  <2>2. \A x \in human : 0 <= x.sec
    BY <1>1, <1>4, HumanIsFinite
  <2>3. S \subseteq Nat /\ S # {}
    BY <1>4, <1>10, <2>1, <2>2
  <2>4. IsFiniteSet(S)
    <3>1. PICK g : g = [x \in human |-> x.sec]
      OBVIOUS
    <3>2. S = {g[x] : x \in human}
      BY <2>1, <3>1
    <3> QED
      BY <1>4, <3>2, FiniteImage
  <2>5. Max(S) \in S
    <3>1. LargestOf(S) \in S
      BY <2>3, <2>4, LargestOfNats
    <3> QED
      BY <2>3, <3>1 DEF LargestOf
  <2> QED
    BY <2>1, <2>3, <2>5, FeaturesAssumption
<1>11. v.last_trade_gap_sec = None <=> human = {}
  BY <1>9, <1>10, NoneIsNoNumber
<1> QED
  BY <1>3, <1>6, <1>7, <1>8, <1>11
-----------------------------------------------------------------------------
(* The reports of the run, in the order they are made *)

(* Rows are scored from lists of trades. *)
Traded == (\A r \in ToSet(rows) : TradeList(r.input)) /\ (\A t \in ToSet(tapes) : TradeList(t.trades))

(* The candidates are the rows at the threshold of Q99. *)
Ruled == \A r \in ToSet(rows) : r.decision \in Paper <=> Reaches(r.ten, "Q99")

Reporting == {"package", "done"}

(* What the later steps said of the rows is still what they would say. *)
Annotated ==
    stage \in {"gate", "drift"} \cup Reporting =>
        \A r \in ToSet(rows) : r.forensics = Forensics(ByMint(tapes, r.mint).trades)

Gated ==
    stage \in {"drift"} \cup Reporting =>
        \A r \in ToSet(rows) : r.gate = assess_adversarial_risk(RowFeatures(r), r.decision)

Reported ==
    /\ DOMAIN package = {"population", "rows", "tapes", "drift"}
    /\ stage \in Reporting =>
         /\ package.drift.occupancy["Q99"] = Count(LAMBDA r : r.decision \in Paper)
         /\ package.drift.missing["unexpected"]["last_trade_gap_sec"] = 0
         /\ package.drift.missing["structural"]["last_trade_gap_sec"] =
              Count(LAMBDA r : RowFeatures(r).wallets = 0)

RInv == Traded /\ Ruled /\ Annotated /\ Gated /\ Reported

(* The three quantiles of a candidate begin at the lowest of them. *)
LEMMA CandidatesAtThreshold ==
    ASSUME NEW ten \in Levels, NEW twentyFive \in Levels
    PROVE  Decision(ten, twentyFive) \in Paper <=> Reaches(ten, "Q99")
<1>1. \A q \in {"Q995", "Q999"} : Reaches(ten, q) => Reaches(ten, "Q99")
  <2> TAKE q \in {"Q995", "Q999"}
  <2>1. ten \in Nat /\ "Q99" \in DOMAIN Thresholds /\ Thresholds["Q99"] \in Int
    BY HtRunAssumption, ThresholdsAssumption
  <2>2. ASSUME q \in DOMAIN Thresholds PROVE Thresholds[q] \in Int /\ Thresholds["Q99"] <= Thresholds[q]
    BY <2>2, ThresholdsAssumption
  <2> QED
    BY <2>1, <2>2 DEF Reaches
<1> QED
  BY <1>1 DEF Decision, Paper

(* Rows and tapes of before, whatever their order; no report is due yet. *)
LEMMA NothingReported ==
    ASSUME RInv, stage' \notin {"gate", "drift"} \cup Reporting, package' = package,
           ToSet(rows') \subseteq ToSet(rows), ToSet(tapes') \subseteq ToSet(tapes)
    PROVE  RInv'
<1>1. ToSet(rows)' = ToSet(rows') /\ ToSet(tapes)' = ToSet(tapes')
  BY DEF ToSet
<1>2. Traded' /\ Ruled'
  <2>1. (\A r \in ToSet(rows') : TradeList(r.input)) /\ (\A t \in ToSet(tapes') : TradeList(t.trades))
    BY DEF RInv, Traded
  <2>2. \A r \in ToSet(rows') : r.decision \in Paper <=> Reaches(r.ten, "Q99")
    BY DEF RInv, Ruled
  <2> QED
    BY <1>1, <2>1, <2>2 DEF Traded, Ruled, TradeList, IsList, Reaches
<1>3. Annotated' /\ Gated' /\ Reported'
  BY DEF RInv, Reported, Annotated, Gated
<1> QED
  BY <1>2, <1>3 DEF RInv

(* A step that keeps of every row what was decided. *)
LEMMA InputsKept ==
    ASSUME IInv, RInv, tapes' = tapes, DOMAIN rows' = DOMAIN rows,
           \A i \in DOMAIN rows : ActionPart(rows'[i]) = ActionPart(rows[i])
    PROVE  Traded' /\ Ruled'
<1>1. \A i \in DOMAIN rows :
        rows'[i].input = rows[i].input /\ rows'[i].ten = rows[i].ten /\ rows'[i].decision = rows[i].decision
  BY DEF ActionPart
<1>2. /\ \A r \in ToSet(rows') : \E i \in DOMAIN rows : r = rows'[i]
      /\ \A i \in DOMAIN rows : rows[i] \in ToSet(rows)
  BY DEF ToSet
<1>3. \A r \in ToSet(rows') : TradeList(r.input) /\ (r.decision \in Paper <=> Reaches(r.ten, "Q99"))
  <2> TAKE r \in ToSet(rows')
  <2>1. PICK i \in DOMAIN rows : r = rows'[i]
    BY <1>2
  <2>2. TradeList(rows[i].input) /\ (rows[i].decision \in Paper <=> Reaches(rows[i].ten, "Q99"))
    BY <1>2 DEF RInv, Traded, Ruled
  <2> QED
    BY <1>1, <2>1, <2>2
<1>4. \A t \in ToSet(tapes') : TradeList(t.trades)
  BY DEF RInv, Traded
<1>5. ToSet(rows)' = ToSet(rows') /\ ToSet(tapes)' = ToSet(tapes')
  BY DEF ToSet
<1> QED
  BY <1>3, <1>4, <1>5 DEF Traded, Ruled, TradeList, IsList, Reaches

LEMMA DecideKeepsReports ==
    ASSUME IInv, RInv, NEW i \in DOMAIN launches, NEW ten \in Levels, NEW twentyFive \in Levels,
           Decide(i, ten, twentyFive)
    PROVE  RInv'
<1>1. PICK launch, observed : launch = launches[i] /\ observed = Observed(launch)
  OBVIOUS
<1>2. PICK trades : trades = normalize_trades(launch.mint, observed, launch.at)
  OBVIOUS
<1>3. PICK row : row =
        [mint |-> launch.mint, at |-> launch.at, input |-> trades,
         ten |-> ten, decision |-> Decision(ten, twentyFive), quote |-> EntryQuote(observed),
         tags |-> {}, audit |-> "NOT_SELECTED_YET", forensics |-> None, gate |-> None]
  OBVIOUS
<1>4. PICK tape : tape = [mint |-> launch.mint, at |-> launch.at, trades |-> trades, raw |-> observed]
  OBVIOUS
<1>5. /\ stage' \in {"capture", "gather"} /\ package' = package
      /\ rows' = Append(rows, row) /\ tapes' = Append(tapes, tape)
  BY <1>1, <1>2, <1>3, <1>4 DEF Decide
<1>6. TradeList(trades)
  BY <1>1, <1>2, TradesDecided
<1>7. ToSet(rows') = ToSet(rows) \cup {row} /\ ToSet(tapes') = ToSet(tapes) \cup {tape}
  BY <1>5, Appended DEF IInv, Types
<1>8. /\ row.input = trades /\ tape.trades = trades
      /\ row.ten = ten /\ row.decision = Decision(ten, twentyFive)
  BY <1>3, <1>4
<1>9. \A r \in ToSet(rows') : TradeList(r.input) /\ (r.decision \in Paper <=> Reaches(r.ten, "Q99"))
  BY <1>6, <1>7, <1>8, CandidatesAtThreshold DEF RInv, Traded, Ruled
<1>10. \A t \in ToSet(tapes') : TradeList(t.trades)
  BY <1>6, <1>7, <1>8 DEF RInv, Traded
<1>11. ToSet(rows)' = ToSet(rows') /\ ToSet(tapes)' = ToSet(tapes')
  BY DEF ToSet
<1>12. Traded' /\ Ruled'
  BY <1>9, <1>10, <1>11 DEF Traded, Ruled, TradeList, IsList, Reaches
<1>13. Annotated' /\ Gated' /\ Reported'
  BY <1>5 DEF RInv, Reported, Annotated, Gated, Reporting
<1> QED
  BY <1>12, <1>13 DEF RInv

LEMMA AnnotateReports ==
    ASSUME IInv, RInv, Annotate
    PROVE  RInv'
<1>1. /\ stage' = "gate" /\ tapes' = tapes /\ package' = package
      /\ rows' = [i \in DOMAIN rows |->
             [rows[i] EXCEPT !.forensics = Forensics(ByMint(tapes, rows[i].mint).trades)]]
  BY DEF Annotate
<1>2. ASSUME NEW i \in DOMAIN rows
      PROVE  /\ ActionPart(rows'[i]) = ActionPart(rows[i])
             /\ rows'[i].forensics = Forensics(ByMint(tapes, rows'[i].mint).trades)
  <2>1. DOMAIN rows[i] = RowFields
    BY RowsOf
  <2>2. rows'[i] = [rows[i] EXCEPT !.forensics = Forensics(ByMint(tapes, rows[i].mint).trades)]
    BY <1>1
  <2> QED
    BY <2>1, <2>2 DEF RowFields, ActionPart
<1>3. Traded' /\ Ruled'
  BY <1>1, <1>2, InputsKept
<1>4. \A r \in ToSet(rows') : r.forensics = Forensics(ByMint(tapes, r.mint).trades)
  BY <1>1, <1>2 DEF ToSet
<1>5. Annotated'
  <2>1. ToSet(rows)' = ToSet(rows')
    BY DEF ToSet
  <2>2. \A m : ByMint(tapes, m)' = ByMint(tapes, m)
    BY <1>1 DEF ByMint, Those, At, Ascending, StableOrder
  <2> QED
    BY <1>4, <2>1, <2>2 DEF Annotated
<1>6. Gated' /\ Reported'
  BY <1>1 DEF RInv, Reported, Gated, Reporting
<1> QED
  BY <1>3, <1>5, <1>6 DEF RInv

LEMMA GateReports ==
    ASSUME IInv, RInv, ApplyGate
    PROVE  RInv'
<1>1. /\ stage = "gate" /\ stage' = "drift" /\ tapes' = tapes /\ package' = package
      /\ rows' = [i \in DOMAIN rows |->
             [rows[i] EXCEPT !.gate = assess_adversarial_risk(RowFeatures(rows[i]), rows[i].decision)]]
  BY DEF ApplyGate
<1>2. ASSUME NEW i \in DOMAIN rows
      PROVE  /\ ActionPart(rows'[i]) = ActionPart(rows[i])
             /\ rows'[i].forensics = rows[i].forensics /\ rows'[i].mint = rows[i].mint
             /\ rows'[i].gate = assess_adversarial_risk(RowFeatures(rows'[i]), rows'[i].decision)
  <2>1. DOMAIN rows[i] = RowFields
    BY RowsOf
  <2>2. rows'[i] = [rows[i] EXCEPT !.gate = assess_adversarial_risk(RowFeatures(rows[i]), rows[i].decision)]
    BY <1>1
  <2>3. /\ ActionPart(rows'[i]) = ActionPart(rows[i])
        /\ rows'[i].forensics = rows[i].forensics /\ rows'[i].mint = rows[i].mint
        /\ rows'[i].input = rows[i].input /\ rows'[i].decision = rows[i].decision
        /\ rows'[i].gate = assess_adversarial_risk(RowFeatures(rows[i]), rows[i].decision)
    BY <2>1, <2>2 DEF RowFields, ActionPart
  <2> QED
    BY <2>3 DEF RowFeatures
<1>3. Traded' /\ Ruled'
  BY <1>1, <1>2, InputsKept
<1>4. \A r \in ToSet(rows') :
        /\ r.forensics = Forensics(ByMint(tapes, r.mint).trades)
        /\ r.gate = assess_adversarial_risk(RowFeatures(r), r.decision)
  <2> TAKE r \in ToSet(rows')
  <2>1. PICK i \in DOMAIN rows : r = rows'[i]
    BY <1>1 DEF ToSet
  <2>2. rows[i].forensics = Forensics(ByMint(tapes, rows[i].mint).trades)
    <3>1. rows[i] \in ToSet(rows)
      BY RowsOf
    <3> QED
      BY <1>1, <3>1 DEF RInv, Annotated
  <2> QED
    BY <1>2, <2>1, <2>2
<1>5. ToSet(rows)' = ToSet(rows')
  BY DEF ToSet
<1>6. Annotated'
  <2>1. \A m : ByMint(tapes, m)' = ByMint(tapes, m)
    BY <1>1 DEF ByMint, Those, At, Ascending, StableOrder
  <2> QED
    BY <1>4, <1>5, <2>1 DEF Annotated
<1>7. Gated'
  BY <1>4, <1>5 DEF Gated, RowFeatures
<1>8. Reported'
  BY <1>1 DEF RInv, Reported, Reporting
<1> QED
  BY <1>3, <1>6, <1>7, <1>8 DEF RInv

(* A step that leaves rows and tapes. *)
LEMMA RowsReported ==
    ASSUME RInv, stage \in {"drift"} \cup Reporting, rows' = rows, tapes' = tapes
    PROVE  Traded' /\ Ruled' /\ Annotated' /\ Gated'
<1>1. Traded' /\ Ruled'
  BY DEF RInv, Traded, Ruled
<1>2. \A r \in ToSet(rows) : r.forensics = Forensics(ByMint(tapes, r.mint).trades)
  BY DEF RInv, Annotated
<1>3. \A r \in ToSet(rows) : r.gate = assess_adversarial_risk(RowFeatures(r), r.decision)
  BY DEF RInv, Gated
<1>4. ToSet(rows)' = ToSet(rows)
  BY DEF ToSet
<1>5. \A m : ByMint(tapes, m)' = ByMint(tapes, m)
  BY DEF ByMint, Those, At, Ascending, StableOrder
<1> QED
  BY <1>1, <1>2, <1>3, <1>4, <1>5 DEF Annotated, Gated, RowFeatures

(* The report counts the candidates, and as structural the gaps of those   *)
(* nobody traded.                                                          *)
LEMMA DriftReports ==
    ASSUME IInv, RInv, Drift
    PROVE  RInv'
<1> DEFINE gap == "last_trade_gap_sec"
           untraded(r) == gap \in Missing(LiveFeatures(r))
<1>1. /\ stage = "drift" /\ stage' = "package" /\ rows' = rows /\ tapes' = tapes
      /\ DOMAIN package = {"population", "rows", "tapes", "drift"}
  BY DEF Drift, RInv, Reported
<1>2. ASSUME NEW i \in DOMAIN rows
      PROVE  /\ rows[i].decision \in Paper <=> Reaches(rows[i].ten, "Q99")
             /\ untraded(rows[i]) <=> RowFeatures(rows[i]).wallets = 0
             /\ untraded(rows[i]) => missing_kind(gap, rows[i]) = "structural"
  <2>1. rows[i] \in ToSet(rows)
    BY RowsOf
  <2>2. TradeList(rows[i].input) /\ (rows[i].decision \in Paper <=> Reaches(rows[i].ten, "Q99"))
    BY <2>1 DEF RInv, Traded, Ruled
  <2>3. /\ untraded(rows[i]) <=> RowFeatures(rows[i]).wallets = 0
        /\ LiveFeatures(rows[i]).human_trades = 0 <=> RowFeatures(rows[i]).wallets = 0
    BY <2>2, GapMissing DEF TradeList
  <2>4. untraded(rows[i]) => missing_kind(gap, rows[i]) = "structural"
    BY <2>3 DEF missing_kind, StructuralIfNoHuman
  <2> QED
    BY <2>2, <2>3, <2>4
<1> DEFINE occupancy == [q \in DOMAIN Thresholds |-> Count(LAMBDA r : Reaches(r.ten, q))]
           missing == [kind \in {"structural", "unexpected"} |-> [f \in StructuralIfNoHuman |->
               Count(LAMBDA r : f \in Missing(LiveFeatures(r)) /\ missing_kind(f, r) = kind)]]
<1>3. package'.drift = [occupancy |-> occupancy, missing |-> missing]
      /\ DOMAIN package' = DOMAIN package
  BY <1>1 DEF Drift
<1>4. occupancy["Q99"] = Cardinality({i \in DOMAIN rows : rows[i].decision \in Paper})
  <2>1. occupancy["Q99"] = Cardinality({i \in DOMAIN rows : Reaches(rows[i].ten, "Q99")})
    BY ThresholdsAssumption DEF Count
  <2>2. {i \in DOMAIN rows : Reaches(rows[i].ten, "Q99")} = {i \in DOMAIN rows : rows[i].decision \in Paper}
    BY <1>2
  <2> QED
    BY <2>1, <2>2
<1> DEFINE kindOf(i) == missing_kind(gap, rows[i])
<1>5. gap \in StructuralIfNoHuman
  BY DEF StructuralIfNoHuman
<1>6. missing["structural"][gap] = Cardinality({i \in DOMAIN rows : RowFeatures(rows[i]).wallets = 0})
  <2>1. missing["structural"][gap] = Cardinality({i \in DOMAIN rows : untraded(rows[i]) /\ kindOf(i) = "structural"})
    BY <1>5 DEF Count
  <2>2. {i \in DOMAIN rows : untraded(rows[i]) /\ kindOf(i) = "structural"}
          = {i \in DOMAIN rows : RowFeatures(rows[i]).wallets = 0}
    BY <1>2
  <2> QED
    BY <2>1, <2>2
<1>7. missing["unexpected"][gap] = 0
  <2>1. missing["unexpected"][gap] = Cardinality({i \in DOMAIN rows : untraded(rows[i]) /\ kindOf(i) = "unexpected"})
    BY <1>5 DEF Count
  <2>2. {i \in DOMAIN rows : untraded(rows[i]) /\ kindOf(i) = "unexpected"} = {}
    BY <1>2
  <2> QED
    BY <2>1, <2>2, FS_EmptySet
<1> HIDE DEF occupancy, missing
<1>8. /\ package'.drift.occupancy = occupancy /\ package'.drift.missing = missing
  BY <1>3
<1>9. Reported'
  <2>1. /\ Count(LAMBDA r : r.decision \in Paper)' = Cardinality({i \in DOMAIN rows : rows[i].decision \in Paper})
        /\ Count(LAMBDA r : RowFeatures(r).wallets = 0)'
             = Cardinality({i \in DOMAIN rows : RowFeatures(rows[i]).wallets = 0})
    BY <1>1 DEF Count, RowFeatures
  <2> QED
    BY <1>1, <1>3, <1>4, <1>6, <1>7, <1>8, <2>1 DEF Reported
<1> QED
  BY <1>1, <1>9, RowsReported DEF RInv

LEMMA PackageReports ==
    ASSUME IInv, RInv, Package
    PROVE  RInv'
<1>1. /\ stage = "package" /\ stage' = "done" /\ rows' = rows /\ tapes' = tapes
      /\ package' = [population |-> [i \in DOMAIN rows |-> PopulationEntry(rows[i])],
                     rows |-> Those(rows, Selected), tapes |-> PackagedTapes, drift |-> package.drift]
  BY DEF Package
<1>2. package'.drift = package.drift /\ DOMAIN package' = {"population", "rows", "tapes", "drift"}
  BY <1>1
<1>3. Reported'
  <2>1. /\ Count(LAMBDA r : r.decision \in Paper)' = Count(LAMBDA r : r.decision \in Paper)
        /\ Count(LAMBDA r : RowFeatures(r).wallets = 0)' = Count(LAMBDA r : RowFeatures(r).wallets = 0)
    BY <1>1 DEF Count, RowFeatures
  <2> QED
    BY <1>1, <1>2, <2>1 DEF RInv, Reported, Reporting
<1> QED
  BY <1>1, <1>3, RowsReported DEF RInv, Reporting

LEMMA ReportsHold ==
    ASSUME IInv, RInv, [Next]_vars
    PROVE  RInv'
<1>1. CASE Tick \/ (\E m \in Mints : Announce(m)) \/ (\E tx \in Txs : Deliver(tx)) \/ FeedEnds
  <2>1. rows' = rows /\ tapes' = tapes /\ package' = package /\ stage' \in {"capture", "gather"}
    BY <1>1 DEF Tick, Announce, Deliver, FeedEnds, captureVars
  <2> QED
    BY <2>1, NothingReported DEF Reporting
<1>2. CASE Lose
  <2>1. rows' = <<>> /\ tapes' = <<>> /\ package' = package /\ stage' = "lost" /\ ToSet(<<>>) = {}
    BY <1>2 DEF Lose, ToSet
  <2> QED
    BY <2>1, NothingReported DEF Reporting
<1>3. ASSUME NEW i \in DOMAIN launches, NEW ten \in Levels, NEW twentyFive \in Levels, Decide(i, ten, twentyFive)
      PROVE  RInv'
  BY <1>3, DecideKeepsReports
<1>4. CASE WriteOut
  <2>1. /\ rows' = SortedByLaunch(rows) /\ tapes' = SortedByLaunch(tapes)
        /\ package' = package /\ stage' = "select"
    BY <1>4 DEF WriteOut
  <2>2. ToSet(rows') = ToSet(rows) /\ ToSet(tapes') = ToSet(tapes)
    BY <2>1, WrittenInOrder DEF IInv, Types
  <2> QED
    BY <2>1, <2>2, NothingReported DEF Reporting
<1>5. CASE Select
  <2>1. /\ stage' = "audit" /\ tapes' = tapes /\ package' = package
        /\ rows' = [i \in DOMAIN rows |->
             [rows[i] EXCEPT !.tags = TagsOf(rows[i].mint),
                             !.audit = IF TagsOf(rows[i].mint) = {} THEN "NOT_SELECTED" ELSE "SELECTED_PENDING"]]
    BY <1>5 DEF Select
  <2>2. \A i \in DOMAIN rows : ActionPart(rows'[i]) = ActionPart(rows[i])
    BY <2>1, RowsOf DEF RowFields, ActionPart
  <2>3. Traded' /\ Ruled'
    BY <2>1, <2>2, InputsKept
  <2>4. Annotated' /\ Gated' /\ Reported'
    BY <2>1 DEF RInv, Annotated, Gated, Reported, Reporting
  <2> QED
    BY <2>3, <2>4 DEF RInv
<1>6. CASE AuditSelected
  <2>1. /\ stage' = "forensics" /\ tapes' = tapes /\ package' = package
    BY <1>6 DEF AuditSelected
  <2>2. PICK verdict : rows' = [i \in DOMAIN rows |->
            IF i \in DOMAIN verdict THEN apply_result(rows[i], verdict[i]) ELSE rows[i]]
    BY <1>6 DEF AuditSelected
  <2>3. ASSUME NEW i \in DOMAIN rows PROVE ActionPart(rows'[i]) = ActionPart(rows[i])
    <3>1. DOMAIN rows[i] = RowFields
      BY RowsOf
    <3>2. rows'[i] = [rows[i] EXCEPT !.audit = verdict[i]] \/ rows'[i] = rows[i]
      BY <2>2 DEF apply_result
    <3> QED
      BY <3>1, <3>2 DEF RowFields, ActionPart
  <2>4. Traded' /\ Ruled'
    BY <2>1, <2>2, <2>3, InputsKept
  <2>5. Annotated' /\ Gated' /\ Reported'
    BY <2>1 DEF RInv, Annotated, Gated, Reported, Reporting
  <2> QED
    BY <2>4, <2>5 DEF RInv
<1>7. CASE Annotate
  BY <1>7, AnnotateReports
<1>8. CASE ApplyGate
  BY <1>8, GateReports
<1>9. CASE Drift
  BY <1>9, DriftReports
<1>10. CASE Package
  BY <1>10, PackageReports
<1>11. CASE UNCHANGED vars
  <2>1. stage' = stage /\ rows' = rows /\ tapes' = tapes /\ package' = package
    BY <1>11 DEF vars
  <2> QED
    BY <2>1 DEF RInv, Traded, Ruled, Annotated, Gated, Reported, ByMint, Those, Count, RowFeatures
<1> QED
  BY <1>1, <1>2, <1>3, <1>4, <1>5, <1>6, <1>7, <1>8, <1>9, <1>10, <1>11 DEF Next

(* What the run reports of its rows is consistent, module by module.       *)
THEOREM HtRunDiagnosticsConsistent == Spec => []DiagnosticsConsistent
<1>1. Init => RInv
  <2>1. ASSUME Init PROVE RInv
    <3>1. rows = <<>> /\ tapes = <<>> /\ stage = "capture" /\ ToSet(<<>>) = {} /\ package = NoPackage
      BY <2>1 DEF Init, ToSet
    <3> QED
      BY <3>1 DEF RInv, Traded, Ruled, Annotated, Gated, Reported, Reporting, NoPackage
  <2> QED
    BY <2>1
<1>2. IInv /\ RInv /\ [Next]_vars => RInv'
  BY ReportsHold
<1>3. IInv /\ RInv => DiagnosticsConsistent
  <2> SUFFICES ASSUME IInv, RInv, stage \in Reporting PROVE DiagnosticsConsistent
    BY DEF DiagnosticsConsistent, Reporting
  <2>1. ASSUME NEW r \in ToSet(rows) PROVE RowConsistent(r)
    <3>1. r.mint \in MintsOf(tapes)
      BY <2>1 DEF IInv, Paired, MintsOf
    <3>2. PICK t : t = ByMint(tapes, r.mint)
      OBVIOUS
    <3>3. t \in ToSet(tapes) /\ t.mint = r.mint
      BY <3>1, <3>2, TapeByMint
    <3>4. AnnouncedOnce(r.mint) => t.trades = r.input
      BY <2>1, <3>3 DEF IInv, Paired
    <3>5. r.forensics = Forensics(t.trades) /\ r.gate = assess_adversarial_risk(RowFeatures(r), r.decision)
      BY <2>1, <3>2 DEF RInv, Annotated, Gated
    <3>6. TradeList(r.input) /\ TradeList(t.trades)
      BY <2>1, <3>3 DEF RInv, Traded
    <3> QED
      BY <3>4, <3>5, <3>6, AnnotatedRow DEF TradeList
  <2> QED
    BY <2>1 DEF RInv, Reported, DiagnosticsConsistent
<1> QED
  BY <1>1, <1>2, <1>3, HtRunInvariant, PTL DEF Spec
================================================================================
