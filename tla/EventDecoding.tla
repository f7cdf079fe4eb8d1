----------------------------- MODULE EventDecoding -----------------------------
(***************************************************************************)
(* Trade events out of transactions: src/ingest/pump_trade_event.py (of a  *)
(* fetched transaction) and src/ingest/pump_log_events.py (of a log        *)
(* notification).                                                          *)
(*                                                                         *)
(* A payload is what the program wrote: the values (ev), how many          *)
(* shareholders, and how many bytes after the discriminator are there.     *)
(* The mandatory body is one block.  The tail grew field by field with the *)
(* protocol's versions.                                                    *)
(***************************************************************************)
EXTENDS PythonSeqs

CONSTANTS
    Body,     \* bytes of the mandatory fields
    Absent    \* a tail field that was not read

ASSUME DecodingAssumption == Body \in Nat

(* The fields somebody reads; from quote on those of the tail. *)
PumpTradeEvent ==
    [token : STRING, user : STRING, at : Nat, buy : BOOLEAN, sol : Nat, tok : Nat,
     virtualSol : Nat, vt : Nat, realSol : Nat, rt : Nat,
     quote : Nat, mint : STRING, virtualQuote : Nat, rq : Nat,
     fees : [protocol : Nat, creator : Nat, cashback : Nat], sig : STRING, slot : Nat]

Payload == [kind : STRING, holders : Nat, len : Nat, ev : PumpTradeEvent]

(* mayhem_mode, cashback and buyback fees and amounts; the shareholders;   *)
(* quote_mint, quote_amount, virtual and real quote reserves.              *)
Widths(holders) == <<1, 8, 8, 8, 8, 4 + 34 * holders, 32, 8, 8, 8>>
Shareholders == 6
Fields == 1..10

Offset(holders, i) ==
    LET start[j \in Fields] == IF j = 1 THEN Body ELSE start[j - 1] + Widths(holders)[j - 1]
    IN  start[i]

(* A field that failed leaves the cursor in front of it. *)
TakeInPlace(p, r, i) ==
    IF r.pos + Widths(p.holders)[i] > p.len THEN r
    ELSE [pos |-> r.pos + Widths(p.holders)[i],
          got |-> r.got \cup {i},
          astray |-> r.astray \/ r.pos # Offset(p.holders, i)]

(* _optional and the shareholders' vector: what is there in full is read   *)
(* at the cursor, what is not moves it to the end.                         *)
Take(p, r, i) ==
    LET width == Widths(p.holders)[i]
        least == IF i = Shareholders THEN 4 ELSE 1
    IN  IF p.len - r.pos < least THEN r
        ELSE IF r.pos + width > p.len THEN [r EXCEPT !.pos = p.len]
        ELSE [pos |-> r.pos + width,
              got |-> r.got \cup {i},
              astray |-> r.astray \/ r.pos # Offset(p.holders, i)]

Reading(p) ==
    LET read[i \in 0..10] ==
            IF i = 0 THEN [pos |-> Body, got |-> {}, astray |-> FALSE] ELSE Take(p, read[i - 1], i)
    IN  read[10]

(* None without the discriminator or with a truncated body. *)
Decodes(p) == p.kind = "TradeEvent" /\ p.len >= Body

(* A block has the time its events carry.                                  *)
(* Absent cashback and virtual quote count as zero; without a real quote   *)
(* reserve there is the SOL one.                                           *)
decode_trade_event_bytes(p) ==
    LET got == Reading(p).got
        ev == p.ev
    IN  [ev EXCEPT !.fees.cashback = IF 2 \in got THEN @ ELSE 0,
                   !.mint = IF 7 \in got THEN @ ELSE Absent,
                   !.quote = IF 8 \in got THEN @ ELSE Absent,
                   !.virtualQuote = IF 9 \in got THEN @ ELSE 0,
                   !.rq = IF 10 \in got THEN @ ELSE ev.realSol]

DecodedOf(payloads) ==
    LET good == Those(payloads, Decodes)
    IN  [k \in DOMAIN good |-> decode_trade_event_bytes(good[k])]

EventKey(ev) == <<ev.token, ev.user, ev.at, ev.buy, ev.tok, ev.sol, ev.quote>>

(* Inner instructions of the program, then whatever the log lines hold. *)
InnerOnly(tx) == IF tx.ok THEN LastOfEach(DecodedOf(tx.inner), EventKey) ELSE <<>>

extract_trade_events_from_transaction(tx) ==
    IF tx.ok THEN LastOfEach(DecodedOf(tx.inner \o tx.logs), EventKey) ELSE <<>>

(* A notification has the log lines only; a failed one is ignored. *)
trade_events_from_logs(tx) ==
    IF tx.ok THEN LastOfEach(DecodedOf(tx.logs), EventKey) ELSE <<>>
================================================================================
