------------------------------ MODULE UtxoStore ------------------------------
(***************************************************************************)
(* The utxos table of internal/db/sqlite.go, as operators on its contents. *)
(*                                                                         *)
(* A table is a function from outpoints (the primary key tx_hash:vout) to  *)
(* rows.  Every query of the program filters on the address of the one key *)
(* it runs with, so the address column is not kept; created_at and         *)
(* updated_at are never read back.  An operator that returns "one of the   *)
(* rows" is written as the set of rows SQL may return: the ORDER BY of the *)
(* query with its ties left open.                                          *)
(***************************************************************************)
EXTENDS Integers, FiniteSets, FiniteSetsExt

CONSTANTS
    CoinbaseMaturity,   \* blocks a coinbase must age before it may be spent (100)
    HeightCap,          \* change rows at or above this height are skipped at first (100000)
    FutureLimit,        \* how far above the recorded height a row may claim to be (10000)
    MaxMoney,           \* 21 million coins, in satoshis
    SmallLimit,         \* how many small rows one consolidation may take (100)
    DataOutputs         \* the outpoints with vout = 0 that carry OP_RETURN data

ASSUME StoreAssumption ==
    /\ CoinbaseMaturity \in Nat
    /\ HeightCap \in Nat
    /\ FutureLimit \in Nat
    /\ MaxMoney \in Nat
    /\ SmallLimit \in Nat \ {0}

Row == [amount : Nat, height : Nat, spent : BOOLEAN, coinbase : BOOLEAN]

Unspent(rows) == {o \in DOMAIN rows : ~rows[o].spent}

\* GetCurrentBlockHeight: the highest coinbase recorded, 0 if there is none.
CoinbaseHeights(rows) == {rows[o].height : o \in {p \in DOMAIN rows : rows[p].coinbase}}
GetCurrentBlockHeight(rows) ==
    IF CoinbaseHeights(rows) = {} THEN 0 ELSE Max(CoinbaseHeights(rows))

ValidateUTXO(rows, o, row) ==
    /\ row.amount = 0 => o \in DataOutputs
    /\ row.amount <= MaxMoney
    /\ row.height <= GetCurrentBlockHeight(rows) + FutureLimit

\* INSERT OR REPLACE: the whole row is overwritten, its spent flag included.
Put(rows, o, row) == [p \in DOMAIN rows \cup {o} |-> IF p = o THEN row ELSE rows[p]]

SaveUTXO(rows, o, row) ==
    IF ValidateUTXO(rows, o, row) THEN Put(rows, o, row) ELSE rows

\* An UPDATE with a WHERE clause: no row, no effect and no error.
MarkUTXOAsSpent(rows, o) ==
    [p \in DOMAIN rows |-> IF p = o THEN [rows[p] EXCEPT !.spent = TRUE] ELSE rows[p]]

MarkAllAsSpent(rows, S) ==
    [p \in DOMAIN rows |-> IF p \in S THEN [rows[p] EXCEPT !.spent = TRUE] ELSE rows[p]]

-----------------------------------------------------------------------------
(* The three queries of GetOldestMatureUTXO, in the order they are tried. *)

Mature(row, currentHeight) == row.height + CoinbaseMaturity <= currentHeight

SplitRows(rows) ==
    {o \in Unspent(rows) : ~rows[o].coinbase /\ rows[o].height < HeightCap}

MatureCoinbaseRows(rows, currentHeight) ==
    {o \in Unspent(rows) : rows[o].coinbase /\ Mature(rows[o], currentHeight)}

\* ORDER BY amount DESC, block_height ASC
LargestFirst(rows, S) ==
    {o \in S : \A p \in S : \/ rows[p].amount < rows[o].amount
                            \/ /\ rows[p].amount = rows[o].amount
                               /\ rows[o].height <= rows[p].height}

\* ORDER BY block_height ASC
OldestFirst(rows, S) == {o \in S : \A p \in S : rows[o].height <= rows[p].height}

\* A mistake: ORDER BY block_height only.
RegularOrNot(rows, S) == OldestFirst(rows, S)

\* ORDER BY is_coinbase ASC, block_height ASC
RegularFirst(rows, S) ==
    LET regular == {o \in S : ~rows[o].coinbase}
    IN  OldestFirst(rows, IF regular # {} THEN regular ELSE S)

GetOldestMatureUTXO(rows, currentHeight) ==
    IF SplitRows(rows) # {} THEN LargestFirst(rows, SplitRows(rows))
    ELSE IF MatureCoinbaseRows(rows, currentHeight) # {}
         THEN OldestFirst(rows, MatureCoinbaseRows(rows, currentHeight))
         ELSE RegularFirst(rows, Unspent(rows))

\* GetSmallUTXOs: the SmallLimit smallest unspent rows below the threshold;
\* neither the coinbase flag nor the maturity is looked at.
GetSmallUTXOs(rows, threshold) ==
    LET small == {o \in Unspent(rows) : rows[o].amount < threshold}
    IN  IF Cardinality(small) <= SmallLimit THEN {small}
        ELSE {S \in kSubset(SmallLimit, small) :
                \A o \in S, p \in small \ S : rows[o].amount <= rows[p].amount}
=============================================================================
