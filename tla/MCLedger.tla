-------------------------------- MODULE MCLedger --------------------------------
EXTENDS Ledger

Row(scanner, status, decision, control, nearMiss, veto) ==
    [scanner |-> scanner, status |-> status, decision |-> decision,
     control |-> control, nearMiss |-> nearMiss, veto |-> veto]

FourKinds == {
    Row("stream_ht_v1", "VALID", "PAPER_CANDIDATE", TRUE, FALSE, TRUE),
    Row("stream_ht_v1", "VALID", "REJECT", TRUE, FALSE, FALSE),
    Row("stream_ht_v1", "VALID", "REJECT", FALSE, TRUE, FALSE),
    Row("stream_v4", "DATA_INVALID", "PAPER_CANDIDATE", FALSE, FALSE, FALSE)}

BothScanners == {"stream_v4", "stream_ht_v1"}
TwoHorizons == {1, 2}
================================================================================
