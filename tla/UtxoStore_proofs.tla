--------------------------- MODULE UtxoStore_proofs ---------------------------
(* Facts about the queries and updates of the utxos table. *)
EXTENDS UtxoStore, WellFoundedInduction, TLAPS

\* The order that WFMin is used with.
Below == {p \in Nat \X Nat : p[1] < p[2]}

LEMMA BelowWellFounded == IsWellFoundedOn(Below, Nat)
<1>1. Below = OpToRel(<, Nat)
  BY DEF Below, OpToRel
<1>2. QED BY <1>1, NatLessThanWellFounded

LEMMA LeastNatural ==
  ASSUME NEW T, T \subseteq Nat, T # {}
  PROVE  \E x \in T : \A y \in T : x <= y
<1>1. \E x \in T : \A y \in T : ~ (<<y, x>> \in Below)
  <2> HIDE DEF Below
  <2>. QED BY BelowWellFounded, WFMin
<1>2. PICK x \in T : \A y \in T : ~ (<<y, x>> \in Below)
  BY <1>1
<1>3. ASSUME NEW y \in T PROVE x <= y
  <2>1. x \in Nat /\ y \in Nat /\ <<y, x>> \in Nat \X Nat
    OBVIOUS
  <2>2. ~ (y < x)
    BY <1>2, <2>1 DEF Below
  <2>3. QED BY <2>1, <2>2
<1>4. QED BY <1>3

\* A non-empty set of naturals with an upper bound has a maximum.
LEMMA MaxOfBounded ==
  ASSUME NEW n \in Nat, NEW T, T \subseteq 0 .. n, T # {}
  PROVE  Max(T) \in T /\ \A y \in T : Max(T) >= y
<1> DEFINE gaps == {n - y : y \in T}
<1>1. \A y \in T : y \in Nat /\ n - y \in Nat
  OBVIOUS
<1>2. gaps \subseteq Nat /\ gaps # {}
  BY <1>1
<1>3. PICK g \in gaps : \A d \in gaps : g <= d
  BY <1>2, LeastNatural
<1>4. PICK x \in T : g = n - x
  BY <1>3
<1>5. ASSUME NEW y \in T PROVE x >= y
  <2>1. n - x <= n - y
    BY <1>3, <1>4
  <2>2. QED BY <1>1, <2>1
<1>6. QED BY <1>5 DEF Max

-----------------------------------------------------------------------------
\* A table all of whose rows are well-formed and whose coinbases are no higher
\* than h.
Table(rows, h) ==
    \A o \in DOMAIN rows : rows[o] \in Row /\ (rows[o].coinbase => rows[o].height <= h)

\* The height the table stands for is that of one of its coinbases.
LEMMA CurrentHeightBounded ==
  ASSUME NEW rows, NEW h \in Nat, Table(rows, h)
  PROVE  GetCurrentBlockHeight(rows) \in 0 .. h
<1> DEFINE H == CoinbaseHeights(rows)
<1>1. H \subseteq 0 .. h
  <2>1. ASSUME NEW o \in DOMAIN rows, rows[o].coinbase PROVE rows[o].height \in 0 .. h
    BY <2>1 DEF Table, Row
  <2>2. QED BY <2>1 DEF CoinbaseHeights
<1>2. CASE H = {}
  BY <1>2 DEF GetCurrentBlockHeight
<1>3. CASE H # {}
  <2> HIDE DEF H
  <2>1. Max(H) \in H
    BY <1>1, <1>3, MaxOfBounded
  <2>2. GetCurrentBlockHeight(rows) = Max(H)
    BY <1>3 DEF GetCurrentBlockHeight, H
  <2>3. QED BY <1>1, <2>1, <2>2
<1>4. QED BY <1>2, <1>3

\* Saving writes the one row or nothing; every other row is kept.
LEMMA SaveWritesOneRow ==
  ASSUME NEW rows, NEW o, NEW row
  PROVE  /\ DOMAIN rows \subseteq DOMAIN SaveUTXO(rows, o, row)
         /\ DOMAIN SaveUTXO(rows, o, row) \subseteq DOMAIN rows \cup {o}
         /\ \A p \in DOMAIN SaveUTXO(rows, o, row) :
              \/ p = o /\ SaveUTXO(rows, o, row)[p] = row
              \/ p \in DOMAIN rows /\ SaveUTXO(rows, o, row)[p] = rows[p]
BY DEF SaveUTXO, Put

\* Marking changes no field but the spent flag.
LEMMA MarkKeepsRow ==
  ASSUME NEW row \in Row
  PROVE  LET marked == [row EXCEPT !.spent = TRUE]
         IN  /\ marked \in Row
             /\ marked.amount = row.amount
             /\ marked.height = row.height
             /\ marked.coinbase = row.coinbase
             /\ marked.spent
BY DEF Row

\* The row chosen for spending is one of the unspent rows.
LEMMA SelectsUnspent ==
  ASSUME NEW rows, NEW h, NEW o \in GetOldestMatureUTXO(rows, h)
  PROVE  o \in Unspent(rows)
BY DEF GetOldestMatureUTXO, SplitRows, MatureCoinbaseRows, LargestFirst, OldestFirst,
       RegularFirst, Unspent

\* So are the small rows chosen for a consolidation.
LEMMA SmallAreUnspent ==
  ASSUME NEW rows, NEW threshold, NEW S \in GetSmallUTXOs(rows, threshold)
  PROVE  S \subseteq Unspent(rows)
BY DEF GetSmallUTXOs, kSubset

\* A coinbase row that is not mature at the height asked about is chosen only
\* when every unspent row is a coinbase and none of them is mature.
THEOREM ImmatureChosenLast ==
  ASSUME NEW rows, NEW h \in Nat, NEW o \in GetOldestMatureUTXO(rows, h),
         \A p \in DOMAIN rows : rows[p] \in Row,
         rows[o].coinbase, ~Mature(rows[o], h)
  PROVE  \A p \in Unspent(rows) : rows[p].coinbase /\ ~Mature(rows[p], h)
<1>1. SplitRows(rows) = {}
  BY DEF GetOldestMatureUTXO, LargestFirst, SplitRows
<1>2. MatureCoinbaseRows(rows, h) = {}
  BY <1>1 DEF GetOldestMatureUTXO, OldestFirst, MatureCoinbaseRows
<1>3. o \in RegularFirst(rows, Unspent(rows))
  BY <1>1, <1>2 DEF GetOldestMatureUTXO
<1>4. \A p \in Unspent(rows) : rows[p].coinbase
  BY <1>3 DEF RegularFirst, OldestFirst
<1>5. QED BY <1>2, <1>4 DEF MatureCoinbaseRows
=============================================================================
