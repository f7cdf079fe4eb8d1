---------------------------- MODULE MCStreamScan ----------------------------
(***************************************************************************)
(* One launch whose creator buys at creation, with two more transactions   *)
(* (Deep), and two launches that are only created (Wide).                  *)
(***************************************************************************)
EXTENDS StreamScan, TLC

CONSTANTS m1, m2, c1, c2, t1, t2

DeepMints == {m1}
DeepTxs == {c1, t1, t2}
DeepMintOf == [t \in DeepTxs |-> m1]
DeepCreateTx == [m \in DeepMints |-> c1]

WideMints == {m1, m2}
WideTxs == {c1, c2}
WideMintOf == (c1 :> m1) @@ (c2 :> m2)
WideCreateTx == (m1 :> c1) @@ (m2 :> c2)

OnlyM1 == {m1}
OnlyT2 == {t2}
NoTx == {}

Symmetry == Permutations({t1, t2})
=============================================================================
