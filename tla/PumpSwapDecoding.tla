---------------------------- MODULE PumpSwapDecoding ----------------------------
(***************************************************************************)
(* Pool creations and swaps out of a fetched transaction:                  *)
(* src/ingest/pumpswap_event.py.  A payload is what the program wrote: the *)
(* event with its values (ev), the bytes of the instruction's name, and    *)
(* how many bytes after the discriminator are there.  No field is optional *)
(* here: the shorter payload of an older program is no event at all.       *)
(***************************************************************************)
EXTENDS PythonSeqs

(* The accounts and flags nobody reads are left out. *)
PumpSwapPoolEvent ==
    [kind : {"CreatePoolEvent"}, at : Nat, pool : STRING, base_mint : STRING, quote_mint : STRING]

PumpSwapTradeEvent ==
    [kind : {"BuyEvent", "SellEvent"}, at : Nat, pool : STRING, user : STRING,
     amount : Nat, quoted : Nat, base : Nat, real : Nat, virtual : Int,
     fees : [lp : Nat, protocol : Nat, creator : Nat, cashback : Nat]]

PumpSwapPayload == [ev : PumpSwapPoolEvent \cup PumpSwapTradeEvent, name : Nat, len : Nat]

PubKey == 32

PoolBytes == 8 + 2 + 3 * PubKey + 2 + 7 * 8 + 1 + 5 * PubKey + 1

(* Timestamp, amounts and fees, seven accounts, the creator's fee. *)
SwapBytes == 14 * 8 + 7 * PubKey + 2 * 8

(* The volume accounting only a buy has; the name comes with its length. *)
VolumeBytes(name) == 1 + 5 * 8 + 4 + name

(* Cashback and buyback, virtual_quote_reserves, can_boost, base_supply. *)
ModernTail == 4 * 8 + 16 + 1 + 8

Pool(p) == p.ev.kind = "CreatePoolEvent" /\ p.len >= PoolBytes

Buy(p) == p.ev.kind = "BuyEvent" /\ p.len >= SwapBytes + VolumeBytes(p.name) + ModernTail

Sell(p) == p.ev.kind = "SellEvent" /\ p.len >= SwapBytes + ModernTail

decode_pumpswap_event(p) == Pool(p) \/ Buy(p) \/ Sell(p)

IsPool(e) == e.kind = "CreatePoolEvent"

(* No signature in a swap's key: two equal ones of one second are one. *)
SwapKey(e) == <<e.kind, e.pool, e.user, e.at, e.amount, e.quoted>>

PumpSwapKey(e) == IF IsPool(e) THEN <<"pool", e.pool, e.at>> ELSE SwapKey(e)

(* Nothing of a failed transaction; inner instructions of the program,     *)
(* then the log lines, in which the same events are told again.            *)
extract_pumpswap_events(tx) ==
    IF ~tx.ok THEN <<>>
    ELSE LET good == Those(tx.inner \o tx.logs, decode_pumpswap_event)
         IN  LastOfEach([k \in DOMAIN good |-> good[k].ev], PumpSwapKey)
================================================================================
