------------------------------ MODULE MCRoundTrip ------------------------------
EXTENDS RoundTrip

FlatFees == [protocol |-> 2, creator |-> 1, cashback |-> 0]

SmallEvents ==
    [mint : {"none", "sol", "usdc"}, virtualQuote : {0, 7}, virtualSol : {0, 12},
     vt : {0, 31, 64}, rt : {3, 40}, rq : {0, 5},
     fees : [protocol : {0, 2}, creator : {0, 1}, cashback : {0, 3}]]
================================================================================
