----------------------------- MODULE MCCommands ------------------------------
(* Instances of Commands for TLC. *)
EXTENDS Commands

CONSTANTS t1, t2, t3, t4

\* t1 is a coinbase with two outputs, one spent by t2 and the other, with one of
\* t2, by t3; t4 spends t3.  From t3 there are two ways to t1, and from t4 the
\* longer one is too deep.
FourTxs == {t1, t2, t3, t4}
Ladder == [t \in FourTxs |-> CASE t = t1 -> {}
                               [] t = t2 -> {<<t1, 1>>}
                               [] t = t3 -> {<<t1, 2>>, <<t2, 1>>}
                               [] t = t4 -> {<<t3, 1>>}]
ParentsInLadder == [t \in FourTxs |-> {o[1] : o \in Ladder[t]}]

\* One live, one that t4 spends, one live, and the data output of t3.
LadderOutputs == {<<t1, 0>>, <<t3, 1>>, <<t4, 1>>, <<t3, 0>>}
LadderPayments == LadderOutputs \ {<<t3, 0>>}
TheCoinbase == {<<t1, 0>>}

Heights == [t \in FourTxs |-> IF t \in {t1, t2} THEN 1 ELSE 2]
AllCommands == {"resync", "verify", "broadcast-tx", "broadcast", "split", "cleanup"}
SomeNetworks == {{}, {t1}, {t1, t2}, {t2, t3}, {t1, t2, t3}, FourTxs}
SomeStores == {FourTxs, FourTxs \ {t1}, FourTxs \ {t2}, FourTxs \ {t3}}

\* Around the fee of two outputs, 226, and what two outputs take.
SplitFunds == {225, 226, 1317, 1318, 65535}

\* The second spends the output of the first.
TwoTxs == {t1, t2}
Pair == [t \in TwoTxs |-> IF t = t1 THEN {} ELSE {<<t1, 0>>}]
ParentsInPair == [t \in TwoTxs |-> {o[1] : o \in Pair[t]}]
PairHeights == [t \in TwoTxs |-> 1]
PairOutputs == {<<t1, 0>>, <<t2, 1>>}
AnyOfPair == SUBSET TwoTxs
=============================================================================
