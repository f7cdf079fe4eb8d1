-------------------------------- MODULE MCHtRun --------------------------------
EXTENDS HtRun

NoFees == [protocol |-> 0, creator |-> 0, cashback |-> 0]
SomeFees == [protocol |-> 1, creator |-> 0, cashback |-> 0]

Ev(token, sig, slot, at, user, buy, sol, vsol, mint, fees) ==
    [token |-> token, sig |-> sig, slot |-> slot, at |-> at, user |-> user, buy |-> buy,
     sol |-> sol, tok |-> 100, quote |-> sol, mint |-> mint, vt |-> 100, virtualSol |-> vsol,
     virtualQuote |-> vsol, realSol |-> 50, rt |-> 100, rq |-> 50, fees |-> fees]

Bytes(ev, holders, len) ==
    [kind |-> "TradeEvent", holders |-> holders, len |-> len, ev |-> ev]

Whole(ev) == Bytes(ev, 1, 20 + Offset(1, 10) + 8)

(* The creator buys with the creation; one transaction of two wallets, in  *)
(* a version without the quote fields; a sale told twice; a pair not       *)
(* quoted in SOL; a failed transaction.                                    *)
Tx(sig, slot, at, ok, inner, logs) ==
    [sig |-> sig, slot |-> slot, at |-> at, ok |-> ok, inner |-> inner, logs |-> logs]

Creation == Ev("A", "create", 1, 1, "dev", TRUE, 300, 200, "sol", NoFees)
Bundle1 == Ev("A", "bundle", 2, 2, "u1", TRUE, 100, 300, "sol", NoFees)
Bundle2 == Ev("A", "bundle", 2, 2, "u2", TRUE, 100, 400, "sol", NoFees)
Sale == Ev("A", "sale", 3, 3, "u1", FALSE, 110, 100, "sol", SomeFees)
Foreign == Ev("B", "foreign", 3, 3, "u2", TRUE, 100, 100, "usdc", NoFees)

SomeTxs ==
    {Tx("create", 1, 1, TRUE, <<Whole(Creation)>>, <<Whole(Creation)>>),
     Tx("bundle", 2, 2, TRUE, <<>>, <<Bytes(Bundle1, 0, Offset(0, 6)), Bytes(Bundle2, 0, Offset(0, 4)),
                                       [Whole(Bundle1) EXCEPT !.kind = "CompleteEvent"]>>),
     Tx("sale", 3, 3, TRUE, <<>>, <<Whole(Sale), Whole(Sale)>>),
     Tx("foreign", 3, 3, TRUE, <<Whole(Foreign)>>, <<>>),
     Tx("failed", 9, 9, FALSE, <<>>, <<Whole(Sale)>>)}

Launched == [A |-> "create", B |-> "createB"]
Creators == [A |-> "dev", B |-> "dev"]
Initial == [A |-> [tok |-> 100, sol |-> 300, price |-> 2], B |-> None]
Ranks == [Q95 |-> 1, Q99 |-> 2]
Hashes ==
    [salt \in {"mint", "random_all", "watch", "reject_quality"} |->
        IF salt \in {"random_all", "watch"} THEN [A |-> 2, B |-> 1] ELSE [A |-> 1, B |-> 2]]
================================================================================
