------------------------------ MODULE MCTrackOne ------------------------------
EXTENDS TrackOne

FlatFees == [protocol |-> 1, creator |-> 0, cashback |-> 0]

Quotes3 == {[tokens |-> 0, gross |-> 0, fee |-> 0],
            [tokens |-> 4, gross |-> 4, fee |-> 0],
            [tokens |-> 4, gross |-> 4, fee |-> 1]}

(* Two fails and one block time the node lacks. *)
Pump(t, ok, timed, vq) ==
    [kind |-> "pump", t |-> t, ok |-> ok, timed |-> timed, mint |-> "sol",
     vt |-> 16, virtualQuote |-> vq, virtualSol |-> 0, rt |-> 16, rq |-> 99, fees |-> FlatFees]

Payload(ev, name, len) == [ev |-> ev, name |-> name, len |-> len]

PumpSwapTx(t, p, creates, viaMint, inner, logs) ==
    [kind |-> "pumpswap", t |-> t, ok |-> TRUE, timed |-> TRUE, pool |-> p,
     creates |-> creates, viaMint |-> viaMint, inner |-> inner, logs |-> logs]

Created(t, p, mint) ==
    Payload([kind |-> "CreatePoolEvent", at |-> t, pool |-> p,
             base_mint |-> "mint", quote_mint |-> mint], 0, 326)

Trade(kind, t, p, user, real, virtual) ==
    [kind |-> kind, at |-> t, pool |-> p, user |-> user, amount |-> 1, quoted |-> 1,
     base |-> 8, real |-> real, virtual |-> virtual,
     fees |-> [lp |-> 1, protocol |-> 1, creator |-> 0, cashback |-> 0]]

Whole(ev) == IF ev.kind = "BuyEvent" THEN Payload(ev, 3, 457) ELSE Payload(ev, 0, 409)

(* A buy told in the log too, with a sale of an old program; a sale.       *)
Bought(real, virtual) == Trade("BuyEvent", 5, "a", "u1", real, virtual)
Sold == Trade("SellEvent", 5, "a", "u1", 15, 0)

SomeTxs ==
    {Pump(t, TRUE, TRUE, vq) : t \in {0, 4}, vq \in {6, 60, 110}}
    \cup {Pump(5, TRUE, TRUE, 60), Pump(7, TRUE, TRUE, 60), Pump(4, FALSE, TRUE, 60), Pump(4, TRUE, FALSE, 60)}
    \cup {PumpSwapTx(4, "a", TRUE, TRUE, <<Created(4, "a", "wsol")>>, <<>>),
          PumpSwapTx(4, "b", TRUE, TRUE, <<Created(4, "b", "usdc")>>, <<>>)}
    \cup {PumpSwapTx(5, "a", FALSE, via, <<Whole(Bought(70, 4)), Payload(Sold, 0, 408)>>, <<Whole(Bought(70, 4))>>) :
            via \in BOOLEAN}
    \cup {PumpSwapTx(5, "a", FALSE, FALSE, <<Whole(e)>>, <<>>) : e \in {Bought(1, 4), Sold}}
    \cup {PumpSwapTx(5, "b", FALSE, TRUE, <<Whole([Sold EXCEPT !.pool = "b"])>>, <<>>)}
================================================================================
