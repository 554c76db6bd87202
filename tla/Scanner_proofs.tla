---------------------------- MODULE Scanner_proofs ----------------------------
(***************************************************************************)
(* What a scan records and what it leaves out, for every chain, page size, *)
(* range and word, over requests that may fail and a tip that may move.    *)
(***************************************************************************)
EXTENDS Scanner, UtxoStore_proofs, FiniteSetTheorems

-----------------------------------------------------------------------------
(* uint32 *)

LEMMA ModIn ==
    ASSUME NEW a \in Int
    PROVE  a % Word \in Heights
  BY ScannerAssumption DEF Heights

\* Below twice the word it wraps once at most.
LEMMA WrapsOnce ==
    ASSUME NEW a \in Nat, a < 2 * Word
    PROVE  a % Word = IF a < Word THEN a ELSE a - Word
  <1> DEFINE w == Word
             q == a \div w
             r == a % w
  <1>1. w \in Nat /\ w > 0
    BY ScannerAssumption
  <1>2. q \in Nat /\ r \in Nat /\ r < w /\ a = w * q + r
    <2>1. q \in Nat
      BY <1>1
    <2>2. r \in Nat /\ r < w
      BY <1>1
    <2>3. a = w * q + r
      BY <1>1
    <2> QED
      BY <2>1, <2>2, <2>3
  <1> SUFFICES r = IF a < w THEN a ELSE a - w
    OBVIOUS
  <1>3. a < 2 * w
    OBVIOUS
  <1> HIDE DEF w, q, r
  <1>4. CASE q = 0
    BY <1>1, <1>2, <1>4
  <1>5. CASE q = 1
    BY <1>1, <1>2, <1>5
  <1>6. CASE q >= 2
    <2>1. w * q >= w * 2
      BY <1>1, <1>2, <1>6
    <2> QED
      BY <1>1, <1>2, <1>3, <2>1
  <1> QED
    BY <1>2, <1>4, <1>5, <1>6

LEMMA MinusIs ==
    ASSUME NEW a \in Heights, NEW b \in Heights
    PROVE  /\ Minus(a, b) \in Heights
           /\ Minus(a, b) = IF b <= a THEN a - b ELSE a - b + Word
  <1>1. /\ Word \in Nat /\ a \in Nat /\ b \in Nat /\ a < Word /\ b < Word
        /\ a + Word - b \in Nat /\ a + Word - b < 2 * Word
    BY ScannerAssumption DEF Heights
  <1>2. Minus(a, b) = IF a + Word - b < Word THEN a + Word - b ELSE a + Word - b - Word
    BY <1>1, WrapsOnce DEF Minus
  <1> QED
    BY <1>1, <1>2 DEF Heights

\* How many blocks are asked for: all of the range, but none of 2^32.
LEMMA CountIs ==
    ASSUME NEW s \in Heights, NEW e \in Heights, s <= e
    PROVE  (Minus(e, s) + 1) % Word = IF s = 0 /\ e = Word - 1 THEN 0 ELSE e - s + 1
  <1>1. /\ Word \in Nat /\ s \in Nat /\ e \in Nat /\ e < Word /\ Minus(e, s) = e - s
        /\ e - s + 1 \in Nat /\ e - s + 1 < 2 * Word
    BY ScannerAssumption, MinusIs DEF Heights
  <1>2. (e - s + 1) % Word = IF e - s + 1 < Word THEN e - s + 1 ELSE e - s + 1 - Word
    BY <1>1, WrapsOnce
  <1> QED
    BY <1>1, <1>2

\* The first height of the last n blocks: no lower than it should be, and just
\* right where there are so many.
LEMMA FirstOfRecent ==
    ASSUME NEW b \in Heights, NEW n \in Nat \ {0}
    PROVE  LET s == (Minus(b, n % Word) + 1) % Word
           IN  /\ s \in Heights
               /\ \A h \in s .. b : h >= b - n + 1
               /\ n < Word /\ n <= b + 1 => s = b - n + 1
  <1> DEFINE m == n % Word
             x == Minus(b, m)
             s == (x + 1) % Word
  <1>1. Word \in Nat /\ Word > 0 /\ b \in Nat /\ b < Word
    BY ScannerAssumption DEF Heights
  <1>2. m \in Nat /\ m < Word /\ m <= n /\ m \in Heights
    <2>1. m \in Nat /\ m < Word
      BY <1>1
    <2>2. n = Word * (n \div Word) + m /\ n \div Word \in Nat
      BY <1>1
    <2>3. ASSUME NEW q \in Nat, NEW r \in Nat, n = Word * q + r PROVE r <= n
      BY <1>1, <2>3
    <2> QED
      BY <1>1, <2>1, <2>2, <2>3 DEF Heights
  <1>3. ASSUME n < Word PROVE m = n
    <2>1. n \in Nat /\ n < 2 * Word
      BY <1>1, <1>3
    <2>2. n % Word = IF n < Word THEN n ELSE n - Word
      BY <2>1, WrapsOnce, Zenon
    <2> QED
      BY <1>3, <2>2
  <1>4. n >= Word \/ m = n
    BY <1>1, <1>3
  <1>5. x \in Nat /\ x < Word /\ x = IF m <= b THEN b - m ELSE b - m + Word
    <2> HIDE DEF m
    <2>1. Minus(b, m) \in Heights /\ Minus(b, m) = IF m <= b THEN b - m ELSE b - m + Word
      BY <1>2, MinusIs
    <2> QED
      BY <1>1, <2>1 DEF Heights
  <1>6. s = IF x + 1 < Word THEN x + 1 ELSE x + 1 - Word
    BY <1>1, <1>5, WrapsOnce
  <1> SUFFICES /\ s \in Heights
               /\ \A h \in s .. b : h >= b - n + 1
               /\ n < Word /\ n <= b + 1 => s = b - n + 1
    OBVIOUS
  <1> HIDE DEF m, x, s
  <1>7. s \in Heights
    BY <1>1, <1>5, <1>6 DEF Heights
  <1>8. ASSUME NEW h \in s .. b PROVE h >= b - n + 1
    BY <1>1, <1>2, <1>4, <1>5, <1>6, <1>7 DEF Heights
  <1>9. ASSUME n < Word, n <= b + 1 PROVE s = b - n + 1
    BY <1>1, <1>3, <1>5, <1>6, <1>9
  <1> QED
    BY <1>7, <1>8, <1>9
-----------------------------------------------------------------------------
(* Types *)

TypeInv == TypeOK /\ Table(rows, MaxBest)

Recorded(table, h) == h \in Owned /\ h <= FutureLimit => h \in DOMAIN table

\* Saving the coinbase of a block adds the one row, unless it is too high to be
\* taken, and keeps the others.
LEMMA FoundAdds ==
    ASSUME TypeInv, NEW h \in Heights
    PROVE  LET table == Found(rows, h)
           IN  /\ DOMAIN table \subseteq Owned /\ table \in [DOMAIN table -> Row]
               /\ Table(table, MaxBest)
               /\ DOMAIN rows \subseteq DOMAIN table
               /\ DOMAIN table \subseteq DOMAIN rows \cup ({h} \cap Owned)
               /\ Recorded(table, h)
  <1> DEFINE table == Found(rows, h)
  <1> SUFFICES /\ DOMAIN table \subseteq Owned /\ table \in [DOMAIN table -> Row]
               /\ Table(table, MaxBest)
               /\ DOMAIN rows \subseteq DOMAIN table
               /\ DOMAIN table \subseteq DOMAIN rows \cup ({h} \cap Owned)
               /\ Recorded(table, h)
    OBVIOUS
  <1>1. /\ DOMAIN rows \subseteq Owned /\ rows \in [DOMAIN rows -> Row] /\ Table(rows, MaxBest)
        /\ h \in Nat /\ MaxBest \in Nat
    BY ScannerAssumption DEF TypeInv, TypeOK, Heights
  <1>2. CASE h \notin Owned
    BY <1>1, <1>2 DEF Found, Recorded
  <1>3. CASE h \in Owned
    <2>1. table = SaveUTXO(rows, h, Coinbase(h))
      BY <1>3 DEF Found
    <2>2. Coinbase(h) \in Row /\ Coinbase(h).coinbase /\ Coinbase(h).height = h /\ Coinbase(h).amount = 1
      BY <1>1 DEF Coinbase, Row
    <2>3. h <= MaxBest
      BY <1>3, ScannerAssumption
    <2>4. /\ DOMAIN rows \subseteq DOMAIN table /\ DOMAIN table \subseteq DOMAIN rows \cup {h}
          /\ \A p \in DOMAIN table : \/ p = h /\ table[p] = Coinbase(h)
                                     \/ p \in DOMAIN rows /\ table[p] = rows[p]
      BY <2>1, SaveWritesOneRow
    <2>5. table = [p \in DOMAIN table |-> table[p]]
      BY <1>1, <2>1 DEF SaveUTXO, Put
    <2>6. \A p \in DOMAIN table : table[p] \in Row /\ (table[p].coinbase => table[p].height <= MaxBest)
      <3> SUFFICES ASSUME NEW p \in DOMAIN table
                   PROVE  table[p] \in Row /\ (table[p].coinbase => table[p].height <= MaxBest)
        OBVIOUS
      <3>1. CASE p = h /\ table[p] = Coinbase(h)
        BY <2>2, <2>3, <3>1
      <3>2. CASE p \in DOMAIN rows /\ table[p] = rows[p]
        BY <1>1, <3>2 DEF Table
      <3> QED
        BY <2>4, <3>1, <3>2
    <2>7. Recorded(table, h)
      <3> SUFFICES ASSUME h <= FutureLimit PROVE h \in DOMAIN table
        BY DEF Recorded
      <3>1. GetCurrentBlockHeight(rows) \in 0 .. MaxBest
        BY <1>1, CurrentHeightBounded
      <3>2. ValidateUTXO(rows, h, Coinbase(h))
        BY <1>1, <2>2, <3>1, StoreAssumption, ScannerAssumption DEF ValidateUTXO
      <3> QED
        BY <2>1, <3>2 DEF SaveUTXO, Put
    <2> HIDE DEF table
    <2> QED
      BY <1>1, <1>3, <2>4, <2>5, <2>6, <2>7 DEF Table
  <1> QED
    BY <1>2, <1>3

LEMMA TypesHold == Spec => []TypeInv
  <1>1. Init => TypeInv
    <2> SUFFICES ASSUME Init PROVE TypeInv
      OBVIOUS
    <2>1. DOMAIN rows = {} /\ rows \in [DOMAIN rows -> Row]
      BY DEF Init
    <2>2. Table(rows, MaxBest)
      BY <2>1 DEF Table
    <2>3. best \in 0 .. MaxBest /\ {0} \subseteq Heights /\ asked = {} /\ listed = {}
      BY ScannerAssumption DEF Init, Heights
    <2> QED
      BY <2>1, <2>2, <2>3 DEF Init, TypeInv, TypeOK
  <1>2. ASSUME TypeInv, [Next]_vars PROVE TypeInv'
    <2> USE <1>2 DEF TypeInv
    <2>0. /\ Word \in Nat /\ Word > 0 /\ MaxBest \in Nat /\ MaxBest < Word /\ PageSize \in Nat /\ PageSize > 0
          /\ best \in Nat /\ best <= MaxBest
      BY ScannerAssumption DEF TypeOK
    <2>1. ASSUME NEW n \in RecentBlocks, ScanRecentBlocks(n) PROVE TypeInv'
      <3>1. start' \in Heights
        <4>1. best \in Heights /\ n \in Nat \ {0}
          BY <2>0, ScannerAssumption DEF Heights
        <4> QED
          BY <2>1, <4>1, FirstOfRecent DEF ScanRecentBlocks
      <3>2. end' \in Heights /\ asked' \subseteq Int
        BY <2>0, <2>1, ScannerAssumption DEF ScanRecentBlocks, TypeOK, Heights
      <3> QED
        BY <2>1, <3>1, <3>2 DEF ScanRecentBlocks, TypeOK
    <2>2. ASSUME NEW r \in Ranges, ScanRange(r[1], r[2]) PROVE TypeInv'
      <3>1. r[1] \in Nat /\ r[2] \in Nat /\ r[1] <= r[2] /\ r[2] < Word
        BY ScannerAssumption
      <3>2. start' \in Heights /\ end' \in Heights /\ asked' \subseteq Int
        BY <2>0, <2>2, <3>1 DEF ScanRange, Heights
      <3> QED
        BY <2>2, <3>2 DEF ScanRange, TypeOK
    <2>3. CASE BeginRange
      <3>1. /\ end' \in Heights /\ current' \in Heights /\ best - end' \in Nat
        BY <2>0, <2>3 DEF BeginRange, TypeOK, Heights
      <3>2. numBlocks' \in Nat
        <4>1. Minus(end, start) \in Heights
          BY MinusIs DEF TypeOK
        <4>2. Minus(end, start) + 1 \in Int
          BY <2>0, <4>1 DEF Heights
        <4>3. (Minus(end, start) + 1) % Word \in Heights
          BY <4>2, ModIn
        <4> QED
          BY <2>0, <2>3, <4>3 DEF BeginRange, Heights
      <3> QED
        BY <2>3, <3>1, <3>2 DEF BeginRange, TypeOK
    <2>4. CASE ListPage
      <3>1. listed' \subseteq 0 .. MaxBest
        BY <2>0, <2>4 DEF ListPage, Wanted, GetBlocks
      <3> QED
        BY <2>4, <3>1 DEF ListPage, TypeOK
    <2>5. CASE ScanBlock
      <3>1. Max(listed) \in listed
        BY <2>0, <2>5, MaxOfBounded DEF ScanBlock, TypeOK
      <3>2. Max(listed) \in Heights /\ 1 \in Nat
        BY <2>0, <3>1 DEF TypeOK, Heights
      <3>3. Minus(Max(listed), 1) \in Heights
        BY <2>0, <3>2, ModIn DEF Minus, Heights
      <3>4. CASE rows' = Found(rows, Max(listed)) /\ current' = Minus(Max(listed), 1) /\ UNCHANGED failed
        BY <2>5, <3>2, <3>3, <3>4, FoundAdds DEF ScanBlock, TypeOK
      <3>5. CASE failed' = TRUE /\ current' \in {current, Minus(Max(listed), 1)} /\ UNCHANGED rows
        BY <2>0, <2>5, <3>3, <3>5 DEF ScanBlock, TypeOK
      <3> QED
        BY <2>5, <3>4, <3>5 DEF ScanBlock
    <2>6. CASE NextPage
      <3>1. Limit \in Nat /\ Limit <= numBlocks
        BY <2>0 DEF Limit, TypeOK
      <3>2. numBlocks' \in Nat /\ offset' \in Nat
        BY <2>6, <3>1 DEF NextPage, NextOffset, TypeOK
      <3>3. phase' \in {"done", "page"}
        BY <2>6 DEF NextPage
      <3> QED
        BY <2>6, <3>2, <3>3 DEF NextPage, TypeOK
    <2>7. CASE BelowRange
      BY <2>7 DEF BelowRange, TypeOK
    <2>8. CASE BeginAll
      <3>1. end' \in Heights /\ asked' \subseteq Int /\ 1 \in Heights
        BY <2>0, <2>8, ScannerAssumption DEF BeginAll, Heights
      <3> QED
        BY <2>8, <3>1 DEF BeginAll, TypeOK
    <2>9. CASE ScanOne
      <3>1. current \in Heights /\ (current + 1) % Word \in Heights
        BY <2>0, ModIn DEF TypeOK, Heights
      <3>2. CASE current > end
        BY <2>9, <3>2 DEF ScanOne, TypeOK
      <3>3. CASE current <= end /\ rows' = Found(rows, current) /\ UNCHANGED failed
        BY <2>9, <3>1, <3>3, FoundAdds DEF ScanOne, TypeOK
      <3>4. CASE current <= end /\ failed' = TRUE /\ UNCHANGED rows
        BY <2>9, <3>1, <3>4 DEF ScanOne, TypeOK
      <3> QED
        <4>1. current > end \/ current <= end
          BY <2>0 DEF TypeOK, Heights
        <4> QED
          BY <2>9, <3>2, <3>3, <3>4, <4>1 DEF ScanOne
    <2>10. CASE PageFails
      BY <2>10 DEF PageFails, TypeOK
    <2>11. CASE NewBlock
      BY <2>0, <2>11 DEF NewBlock, TypeOK
    <2>12. CASE UNCHANGED vars
      BY <2>12 DEF vars, TypeOK
    <2> QED
      BY <2>1, <2>2, <2>3, <2>4, <2>5, <2>6, <2>7, <2>8, <2>9, <2>10, <2>11, <2>12 DEF Next, Scan
  <1> QED
    BY <1>1, <1>2, PTL DEF Spec

\* The types of the table, the chain and the scan.
THEOREM TypeCorrect == Spec => []TypeOK
  <1>1. TypeInv => TypeOK
    BY DEF TypeInv
  <1> QED
    BY <1>1, TypesHold, PTL
-----------------------------------------------------------------------------
(* Nothing outside the range *)

\* What is still to be looked at lies within what was asked for.
RangeInv ==
    /\ StaysInRange
    /\ phase = "idle" => DOMAIN rows = {}
    /\ phase \in {"range", "page", "blocks"} => start .. end \subseteq asked
    /\ phase = "blocks" => listed \subseteq start .. end
    /\ phase = "all" => 1 .. end \subseteq asked

LEMMA RangeHolds == Spec => []RangeInv
  <1>1. Init => RangeInv
    BY DEF Init, RangeInv, StaysInRange
  <1>2. ASSUME TypeInv, RangeInv, [Next]_vars PROVE RangeInv'
    <2> USE <1>2
    <2>0. /\ Word \in Nat /\ Word > 0 /\ best \in Nat /\ start \in Nat /\ end \in Nat /\ current \in Nat
          /\ best \in Heights
      BY ScannerAssumption DEF TypeInv, TypeOK, Heights
    <2>1. ASSUME NEW n \in RecentBlocks, ScanRecentBlocks(n) PROVE RangeInv'
      <3>1. n \in Nat \ {0}
        BY ScannerAssumption
      <3>2. start' \in Heights /\ \A h \in start' .. best : h >= best - n + 1
        BY <2>0, <2>1, <3>1, FirstOfRecent DEF ScanRecentBlocks
      <3>3. start' .. end' \subseteq asked'
        BY <2>0, <2>1, <3>1, <3>2 DEF ScanRecentBlocks, Heights
      <3> QED
        BY <2>1, <3>3 DEF RangeInv, StaysInRange, ScanRecentBlocks
    <2>2. ASSUME NEW r \in Ranges, ScanRange(r[1], r[2]) PROVE RangeInv'
      BY <2>2 DEF RangeInv, StaysInRange, ScanRange
    <2>3. CASE BeginRange
      <3>1. end' \in Int /\ end' <= end
        BY <2>0, <2>3 DEF BeginRange
      <3>2. start' .. end' \subseteq start .. end
        BY <2>0, <2>3, <3>1 DEF BeginRange
      <3> QED
        BY <2>3, <3>2 DEF BeginRange, RangeInv, StaysInRange
    <2>4. CASE ListPage
      BY <2>4 DEF ListPage, Wanted, RangeInv, StaysInRange
    <2>5. CASE ScanBlock
      <3>1. /\ listed' \subseteq start .. end /\ UNCHANGED <<phase, asked, start, end>>
            /\ phase = "blocks"
        BY <2>5 DEF ScanBlock, RangeInv
      <3>2. Max(listed) \in listed
        BY <2>5, ScannerAssumption, MaxOfBounded DEF ScanBlock, TypeInv, TypeOK
      <3>3. Max(listed) \in Heights /\ Max(listed) \in asked
        BY <2>0, <3>1, <3>2, ScannerAssumption DEF RangeInv, TypeInv, TypeOK, Heights
      <3>4. DOMAIN rows' \subseteq asked
        BY <2>5, <3>3, FoundAdds DEF ScanBlock, RangeInv, StaysInRange
      <3> QED
        BY <3>1, <3>4 DEF RangeInv, StaysInRange
    <2>6. CASE NextPage
      BY <2>6 DEF NextPage, RangeInv, StaysInRange
    <2>7. CASE BelowRange
      BY <2>7 DEF BelowRange, RangeInv, StaysInRange
    <2>8. CASE BeginAll
      BY <2>8 DEF BeginAll, RangeInv, StaysInRange
    <2>9. CASE ScanOne
      <3>1. /\ UNCHANGED <<asked, end>> /\ phase = "all" /\ phase' \in {"all", "done"}
            /\ 1 .. end \subseteq asked
        BY <2>9 DEF ScanOne, RangeInv
      <3>2. CASE UNCHANGED rows
        BY <3>1, <3>2 DEF RangeInv, StaysInRange
      <3>3. CASE current <= end /\ rows' = Found(rows, current)
        <4>1. {current} \cap Owned \subseteq asked
          BY <2>0, <3>1, <3>3, ScannerAssumption
        <4>2. DOMAIN rows' \subseteq asked
          BY <3>3, <4>1, FoundAdds DEF TypeInv, TypeOK, RangeInv, StaysInRange
        <4> QED
          BY <3>1, <4>2 DEF RangeInv, StaysInRange
      <3> QED
        BY <2>0, <2>9, <3>2, <3>3 DEF ScanOne
    <2>10. CASE PageFails
      BY <2>10 DEF PageFails, RangeInv, StaysInRange
    <2>11. CASE NewBlock
      BY <2>11 DEF NewBlock, RangeInv, StaysInRange
    <2>12. CASE UNCHANGED vars
      BY <2>12 DEF vars, RangeInv, StaysInRange
    <2> QED
      BY <2>1, <2>2, <2>3, <2>4, <2>5, <2>6, <2>7, <2>8, <2>9, <2>10, <2>11, <2>12 DEF Next, Scan
  <1> QED
    BY <1>1, <1>2, TypesHold, PTL DEF Spec

\* A scan records nothing outside of the heights it was asked for, whenever the
\* tip moves and whichever requests fail, also where the first height wraps
\* (scanner.go:99, 144-151).
THEOREM OnlyWhatWasAsked == Spec => []StaysInRange
  <1>1. RangeInv => StaysInRange
    BY DEF RangeInv
  <1> QED
    BY <1>1, RangeHolds, PTL
-----------------------------------------------------------------------------
(* Everything in the range *)

\* The scans of which QuietScanCovers speaks.
Quiet ==
    /\ ~moved /\ orphaned = {} /\ ~failed
    /\ asked \subseteq Heights /\ asked # Heights

InRange == {h \in Heights : start <= h /\ h <= end}

\* The blocks of the range that come before a place of the list, which counts
\* from the tip.
Before(place) == {h \in InRange : best - h < place}

AllRecorded(S) == \A h \in S : Recorded(rows, h)

\* A page counts on as far as the last of its blocks, and no further: where the
\* loop is, what it has passed is recorded, and what is to come reaches down to
\* the start of the range.  Below the range there is nothing to come.
CoverInv ==
    Quiet =>
        /\ phase # "idle" => \A h \in asked : start <= h
        /\ phase = "range" => ~(start = 0 /\ end = Word - 1)
        /\ phase \in {"page", "blocks"} =>
             /\ end <= best /\ InRange \subseteq Before(offset + numBlocks)
             /\ current < start => AllRecorded(InRange)
        /\ phase = "page" => AllRecorded(Before(offset))
        /\ phase = "blocks" =>
             /\ listed \subseteq Before(offset + Limit)
             /\ AllRecorded(Before(offset + Limit) \ listed)
        /\ phase = "all" => start = 1 /\ AllRecorded({h \in InRange : h < current})
        /\ phase = "done" => AllRecorded(InRange)

\* A step of a scan under way that is quiet afterwards was quiet before.
LEMMA QuietBefore ==
    ASSUME UNCHANGED <<asked, orphaned>>, moved \in BOOLEAN, moved => moved', failed => failed', Quiet'
    PROVE  Quiet
  BY DEF Quiet

\* What is recorded stays recorded.
LEMMA RecordedStays ==
    ASSUME NEW S, NEW S1, S1 \subseteq S, DOMAIN rows \subseteq DOMAIN rows', AllRecorded(S)
    PROVE  \A h \in S1 : Recorded(rows', h)
  BY DEF AllRecorded, Recorded

LEMMA CoverBegins ==
    ASSUME TypeInv, phase = "idle", CoverInv,
           \/ \E n \in RecentBlocks : ScanRecentBlocks(n)
           \/ \E r \in Ranges : ScanRange(r[1], r[2])
           \/ BeginAll
    PROVE  CoverInv'
  <1>0. Word \in Nat /\ Word > 1 /\ best \in Nat /\ best < Word /\ best \in Heights
    BY ScannerAssumption DEF TypeInv, TypeOK, Heights
  <1>1. ASSUME NEW n \in RecentBlocks, ScanRecentBlocks(n) PROVE CoverInv'
    <2> SUFFICES ASSUME Quiet'
                 PROVE  (\A h \in asked' : start' <= h) /\ ~(start' = 0 /\ end' = Word - 1)
      BY <1>1 DEF ScanRecentBlocks, CoverInv
    <2>1. n \in Nat \ {0} /\ asked' = best - n + 1 .. best /\ asked' \subseteq Heights /\ asked' # Heights
      BY <1>1, ScannerAssumption DEF ScanRecentBlocks, Quiet
    <2>2. best - n + 1 >= 0
      <3>1. best - n + 1 \in asked'
        BY <1>0, <2>1
      <3> QED
        BY <1>0, <2>1, <3>1 DEF Heights
    <2>3. ~(best - n + 1 = 0 /\ best = Word - 1)
      BY <1>0, <2>1 DEF Heights
    <2>4. n < Word
      BY <1>0, <2>1, <2>2, <2>3
    <2>5. start' = best - n + 1
      BY <1>0, <1>1, <2>1, <2>2, <2>4, FirstOfRecent DEF ScanRecentBlocks
    <2> QED
      BY <1>0, <1>1, <2>1, <2>3, <2>5 DEF ScanRecentBlocks
  <1>2. ASSUME NEW r \in Ranges, ScanRange(r[1], r[2]) PROVE CoverInv'
    <2> SUFFICES ASSUME Quiet'
                 PROVE  (\A h \in asked' : start' <= h) /\ ~(start' = 0 /\ end' = Word - 1)
      BY <1>2 DEF ScanRange, CoverInv
    <2>1. /\ r[1] \in Nat /\ r[2] \in Nat /\ asked' = r[1] .. r[2] /\ asked' # Heights
          /\ start' = r[1] /\ end' = r[2]
      BY <1>2, ScannerAssumption DEF ScanRange, Quiet
    <2> QED
      BY <1>0, <2>1 DEF Heights
  <1>3. CASE BeginAll
    <2> SUFFICES ASSUME Quiet'
                 PROVE  /\ \A h \in asked' : start' <= h
                        /\ start' = 1 /\ AllRecorded({h \in InRange : h < current})'
      BY <1>3 DEF BeginAll, CoverInv
    <2>1. start' = 1 /\ current' = 1 /\ asked' = 1 .. best
      BY <1>3 DEF BeginAll
    <2>2. {h \in InRange : h < current}' = {}
      BY <2>1 DEF InRange, Heights
    <2> QED
      BY <1>0, <2>1, <2>2 DEF AllRecorded
  <1> QED
    BY <1>1, <1>2, <1>3

LEMMA CoverBeginsRange ==
    ASSUME TypeInv, CoverInv, BeginRange
    PROVE  CoverInv'
  <1> SUFFICES ASSUME Quiet'
               PROVE  /\ \A h \in asked' : start' <= h
                      /\ end' <= best' /\ InRange' \subseteq Before(offset + numBlocks)'
                      /\ current' < start' => AllRecorded(InRange)'
                      /\ AllRecorded(Before(offset))'
    BY DEF BeginRange, CoverInv
  <1>0. /\ Word \in Nat /\ Word > 1 /\ best \in Nat /\ start \in Nat /\ end \in Nat /\ end < Word
        /\ start \in Heights /\ end \in Heights
    BY ScannerAssumption DEF TypeInv, TypeOK, Heights
  <1>1. Quiet /\ UNCHANGED <<asked, start, best, rows>> /\ phase = "range"
    BY QuietBefore DEF BeginRange, TypeInv, TypeOK
  <1>2. (\A h \in asked : start <= h) /\ ~(start = 0 /\ end = Word - 1)
    BY <1>1 DEF CoverInv
  <1>3. PICK e \in Nat : /\ e <= best /\ e <= end
                         /\ end' = e /\ offset' = best - e /\ current' = e
    BY <1>0 DEF BeginRange
  <1>4. InRange' \subseteq Before(offset + numBlocks)'
    <2> SUFFICES ASSUME NEW h \in InRange' PROVE best' - h < offset' + numBlocks'
      BY DEF Before
    <2>1. h \in Nat /\ start <= h /\ h <= e
      BY <1>1, <1>3 DEF InRange, Heights
    <2>2. numBlocks' = end - start + 1
      <3>1. start <= end
        BY <1>0, <1>3, <2>1
      <3> QED
        BY <1>0, <1>2, <3>1, CountIs DEF BeginRange
    <2>3. best - h < (best - e) + (end - start + 1)
      BY <1>0, <1>3, <2>1
    <2> QED
      BY <1>1, <1>3, <2>2, <2>3
  <1>5. current' < start' => InRange' = {}
    BY <1>0, <1>1, <1>3 DEF InRange, Heights
  <1>6. Before(offset)' = {}
    <2> SUFFICES ASSUME NEW h \in InRange' PROVE ~(best' - h < offset')
      BY DEF Before
    <2>1. h \in Nat /\ h <= e
      BY <1>0, <1>3 DEF InRange, Heights
    <2>2. ~(best - h < best - e)
      BY <1>0, <1>3, <2>1
    <2> QED
      BY <1>1, <1>3, <2>2
  <1> QED
    BY <1>1, <1>2, <1>3, <1>4, <1>5, <1>6 DEF AllRecorded

LEMMA CoverListed ==
    ASSUME TypeInv, CoverInv, ListPage
    PROVE  CoverInv'
  <1> SUFFICES ASSUME Quiet'
               PROVE  /\ \A h \in asked' : start' <= h
                      /\ end' <= best' /\ InRange' \subseteq Before(offset + numBlocks)'
                      /\ current' < start' => AllRecorded(InRange)'
                      /\ listed' \subseteq Before(offset + Limit)'
                      /\ AllRecorded(Before(offset + Limit) \ listed)'
    BY DEF ListPage, CoverInv
  <1>0. /\ best \in Nat /\ start \in Nat /\ end \in Nat /\ offset \in Nat /\ Limit \in Nat
        /\ best < Word /\ Word \in Nat
    BY ScannerAssumption DEF TypeInv, TypeOK, Heights, Limit
  <1>1. Quiet /\ UNCHANGED <<asked, start, end, best, rows, current, offset, numBlocks>> /\ phase = "page"
    BY QuietBefore DEF ListPage, TypeInv, TypeOK
  <1>2. /\ \A h \in asked : start <= h
        /\ end <= best /\ InRange \subseteq Before(offset + numBlocks)
        /\ current < start => AllRecorded(InRange)
        /\ AllRecorded(Before(offset))
    BY <1>1 DEF CoverInv
  <1>3. \A h \in 0 .. best : ListedBefore(h) = best - h
    <2> SUFFICES ASSUME NEW h \in 0 .. best PROVE ListedBefore(h) = best - h
      OBVIOUS
    <2>1. {o \in orphaned : h < o /\ o <= best} = {}
      BY <1>1 DEF Quiet
    <2> QED
      BY <1>0, <2>1, FS_EmptySet DEF ListedBefore
  <1>4. Wanted = Before(offset + Limit) \ Before(offset)
    <2>1. ASSUME NEW h \in Wanted PROVE h \in Before(offset + Limit) /\ h \notin Before(offset)
      BY <1>0, <1>2, <1>3 DEF Wanted, GetBlocks, Before, InRange, Heights
    <2>2. ASSUME NEW h \in Before(offset + Limit), h \notin Before(offset) PROVE h \in Wanted
      <3>1. h \in Nat /\ start <= h /\ h <= end /\ h \in 0 .. best /\ best - h < offset + Limit
        BY <1>0, <1>2 DEF Before, InRange, Heights
      <3>2. best - h >= offset
        BY <1>0, <2>2, <3>1 DEF Before
      <3> QED
        BY <1>0, <1>3, <3>1, <3>2 DEF Wanted, GetBlocks
    <2> QED
      BY <2>1, <2>2
  <1>5. Before(offset + Limit) \ Wanted \subseteq Before(offset)
    BY <1>4
  <1>6. listed' = Wanted /\ Before(offset + Limit)' = Before(offset + Limit) /\ InRange' = InRange
        /\ Before(offset + numBlocks)' = Before(offset + numBlocks)
    BY <1>1 DEF ListPage, Before, InRange, Limit
  <1> QED
    BY <1>1, <1>2, <1>4, <1>5, <1>6 DEF AllRecorded
LEMMA CoverBlock ==
    ASSUME TypeInv, RangeInv, CoverInv, ScanBlock
    PROVE  CoverInv'
  <1> DEFINE top == Max(listed)
  <1> SUFFICES ASSUME Quiet'
               PROVE  /\ \A h \in asked' : start' <= h
                      /\ end' <= best' /\ InRange' \subseteq Before(offset + numBlocks)'
                      /\ current' < start' => AllRecorded(InRange)'
                      /\ listed' \subseteq Before(offset + Limit)'
                      /\ AllRecorded(Before(offset + Limit) \ listed)'
    BY DEF ScanBlock, CoverInv
  <1>0. /\ Word \in Nat /\ Word > 1 /\ best \in Nat /\ start \in Nat /\ end \in Nat /\ start < Word
        /\ offset \in Nat /\ Limit \in Nat /\ MaxBest \in Nat /\ listed \subseteq 0 .. MaxBest
    BY ScannerAssumption DEF TypeInv, TypeOK, Heights, Limit
  <1>1. Quiet /\ UNCHANGED <<asked, start, end, best, offset, numBlocks>> /\ phase = "blocks"
    BY QuietBefore DEF ScanBlock, TypeInv, TypeOK
  <1>2. /\ \A h \in asked : start <= h
        /\ end <= best /\ InRange \subseteq Before(offset + numBlocks)
        /\ current < start => AllRecorded(InRange)
        /\ listed \subseteq Before(offset + Limit)
        /\ AllRecorded(Before(offset + Limit) \ listed)
    BY <1>1 DEF CoverInv
  <1>3. top \in listed /\ \A h \in listed : top >= h
    BY <1>0, MaxOfBounded DEF ScanBlock
  <1>4. top \in InRange /\ top \in Heights /\ top \in Nat /\ start <= top
    <2> HIDE DEF top
    <2>1. top \in Before(offset + Limit)
      BY <1>2, <1>3
    <2> QED
      BY <2>1 DEF Before, InRange, Heights
  <1>5. listed' = listed \ {top} /\ rows' = Found(rows, top) /\ current' = Minus(top, 1)
    BY DEF ScanBlock, Quiet
  <1>6. DOMAIN rows \subseteq DOMAIN rows' /\ Recorded(rows', top)
    BY <1>4, <1>5, FoundAdds
  <1>7. \A h \in Before(offset + Limit) \ listed' : Recorded(rows', h)
    BY <1>2, <1>5, <1>6 DEF AllRecorded, Recorded
  <1>8. ASSUME current' < start PROVE \A h \in InRange : Recorded(rows', h)
    <2>1. 1 \in Heights /\ current' = IF 1 <= top THEN top - 1 ELSE top - 1 + Word
      BY <1>0, <1>4, <1>5, MinusIs DEF Heights
    <2>2. top = start
      BY <1>0, <1>4, <1>8, <2>1
    <2>3. listed \subseteq {top}
      BY <1>0, <1>2, <1>3, <2>2 DEF Before, InRange
    <2>4. InRange \subseteq Before(offset + Limit)
      <3> SUFFICES ASSUME NEW h \in InRange PROVE best - h < offset + Limit
        BY DEF Before
      <3>1. h \in Nat /\ start <= h /\ best - start < offset + Limit
        <4> HIDE DEF top
        <4>1. top \in Before(offset + Limit)
          BY <1>2, <1>3
        <4> QED
          BY <2>2, <4>1 DEF Before, InRange, Heights
      <3> QED
        BY <1>0, <3>1
    <2> QED
      BY <1>5, <1>7, <2>3, <2>4
  <1>9. /\ Before(offset + Limit)' = Before(offset + Limit) /\ InRange' = InRange
        /\ Before(offset + numBlocks)' = Before(offset + numBlocks)
    BY <1>1 DEF Before, InRange, Limit
  <1> HIDE DEF top
  <1> QED
    BY <1>1, <1>2, <1>5, <1>7, <1>8, <1>9 DEF AllRecorded

LEMMA CoverNextPage ==
    ASSUME TypeInv, CoverInv, NextPage
    PROVE  CoverInv'
  <1>0. /\ best \in Nat /\ start \in Nat /\ end \in Nat /\ offset \in Nat /\ numBlocks \in Nat
        /\ Limit \in Nat /\ Limit <= numBlocks
    BY ScannerAssumption DEF TypeInv, TypeOK, Heights, Limit
  <1>1. SUFFICES ASSUME Quiet'
                 PROVE  /\ \A h \in asked' : start' <= h
                        /\ phase' = "page" =>
                             /\ end' <= best' /\ InRange' \subseteq Before(offset + numBlocks)'
                             /\ current' < start' => AllRecorded(InRange)'
                             /\ AllRecorded(Before(offset))'
                        /\ phase' = "done" => AllRecorded(InRange)'
    BY DEF NextPage, CoverInv
  <1>2. /\ Quiet /\ UNCHANGED <<asked, start, end, best, rows, current>> /\ phase = "blocks" /\ listed = {}
        /\ offset' = offset + Limit /\ numBlocks' = numBlocks - Limit
        /\ phase' = "done" => numBlocks - Limit <= 0
    <2>1. Quiet
      BY <1>1, QuietBefore DEF NextPage, TypeInv, TypeOK
    <2> QED
      BY <1>0, <2>1 DEF NextPage, NextOffset
  <1>3. /\ \A h \in asked : start <= h
        /\ end <= best /\ InRange \subseteq Before(offset + numBlocks)
        /\ current < start => AllRecorded(InRange)
        /\ AllRecorded(Before(offset + Limit))
    BY <1>2 DEF CoverInv
  <1>4. InRange' = InRange /\ Before(offset)' = Before(offset + Limit)
    BY <1>2 DEF Before, InRange
  <1>5. Before(offset + numBlocks)' = Before(offset + numBlocks)
    <2>1. offset' + numBlocks' = offset + numBlocks
      BY <1>0, <1>2
    <2> QED
      BY <1>2, <2>1 DEF Before, InRange
  <1>6. ASSUME phase' = "done" PROVE InRange \subseteq Before(offset + Limit)
    <2>1. numBlocks = Limit
      BY <1>0, <1>2, <1>6
    <2> QED
      BY <1>3, <2>1
  <1> QED
    BY <1>2, <1>3, <1>4, <1>5, <1>6 DEF AllRecorded

LEMMA CoverOne ==
    ASSUME TypeInv, CoverInv, ScanOne
    PROVE  CoverInv'
  <1>0. Word \in Nat /\ Word > 1 /\ start \in Nat /\ end \in Nat /\ end < Word /\ current \in Nat
        /\ current < Word /\ current \in Heights
    BY ScannerAssumption DEF TypeInv, TypeOK, Heights
  <1>1. SUFFICES ASSUME Quiet'
                 PROVE  /\ \A h \in asked' : start' <= h
                        /\ phase' = "all" => start' = 1 /\ AllRecorded({h \in InRange : h < current})'
                        /\ phase' = "done" => AllRecorded(InRange)'
    BY DEF ScanOne, CoverInv
  <1>2. Quiet /\ UNCHANGED <<asked, start, end>> /\ phase = "all" /\ InRange' = InRange
    <2>1. /\ UNCHANGED <<asked, orphaned, start, end, moved>> /\ phase = "all" /\ (failed => failed')
          /\ moved \in BOOLEAN
      BY DEF ScanOne, TypeInv, TypeOK
    <2>2. Quiet
      BY <1>1, <2>1, QuietBefore
    <2> QED
      BY <2>1, <2>2 DEF InRange
  <1>3. /\ \A h \in asked : start <= h
        /\ start = 1 /\ AllRecorded({h \in InRange : h < current})
    BY <1>2 DEF CoverInv
  <1>4. CASE current > end
    <2>1. InRange \subseteq {h \in InRange : h < current}
      BY <1>0, <1>4 DEF InRange, Heights
    <2>2. phase' = "done" /\ rows' = rows
      BY <1>4 DEF ScanOne
    <2> QED
      BY <1>2, <1>3, <2>1, <2>2 DEF AllRecorded
  <1>5. CASE current <= end
    <2>1. /\ phase' = "all" /\ rows' = Found(rows, current) /\ current' = (current + 1) % Word
      BY <1>0, <1>1, <1>2, <1>5 DEF ScanOne, Quiet
    <2>2. DOMAIN rows \subseteq DOMAIN rows' /\ Recorded(rows', current)
      BY <1>0, <2>1, FoundAdds
    <2>3. current' = IF current + 1 < Word THEN current + 1 ELSE current + 1 - Word
      BY <1>0, <2>1, WrapsOnce
    <2>4. \A h \in InRange : h < current' => h < current \/ h = current
      BY <1>0, <2>3 DEF InRange, Heights
    <2>5. \A h \in InRange : h < current' => Recorded(rows', h)
      BY <1>3, <2>2, <2>4 DEF AllRecorded, Recorded
    <2> QED
      BY <1>2, <1>3, <2>1, <2>5 DEF AllRecorded
  <1> QED
    BY <1>0, <1>4, <1>5

LEMMA CoverHolds == Spec => []CoverInv
  <1>1. Init => CoverInv
    BY DEF Init, CoverInv
  <1>2. ASSUME TypeInv, RangeInv, CoverInv, [Next]_vars PROVE CoverInv'
    <2>1. CASE \/ \E n \in RecentBlocks : ScanRecentBlocks(n)
               \/ \E r \in Ranges : ScanRange(r[1], r[2])
               \/ BeginAll
      BY <1>2, <2>1, CoverBegins DEF ScanRecentBlocks, ScanRange, BeginAll
    <2>2. CASE BelowRange
      <3>1. /\ phase = "page" /\ current < start /\ phase' = "done"
            /\ UNCHANGED <<rows, best, orphaned, asked, start, end, failed, moved>>
        BY <2>2 DEF BelowRange
      <3>2. Quiet' = Quiet /\ InRange' = InRange
        BY <3>1 DEF Quiet, InRange
      <3> QED
        BY <1>2, <3>1, <3>2 DEF CoverInv, AllRecorded
    <2>3. CASE PageFails
      BY <2>3 DEF PageFails, CoverInv, Quiet
    <2>4. CASE NewBlock
      BY <2>4 DEF NewBlock, CoverInv, Quiet
    <2>5. CASE UNCHANGED vars
      BY <1>2, <2>5 DEF vars, CoverInv, Quiet, InRange, Before, AllRecorded, Limit
    <2> QED
      BY <1>2, <2>1, <2>2, <2>3, <2>4, <2>5, CoverBeginsRange, CoverListed, CoverBlock,
         CoverNextPage, CoverOne DEF Next, Scan
  <1> QED
    BY <1>1, <1>2, TypesHold, RangeHolds, PTL DEF Spec

\* A scan without a failed request or write, of a chain that stands still and has
\* no orphaned blocks, for fewer than 2^32 blocks that are all there: it records,
\* page by page, every coinbase of ours at a height the table takes, for every
\* page size and word (scanner.go:86-196, README.md:24-31).
THEOREM NothingIsMissed == Spec => []QuietScanCovers
  <1>1. TypeInv /\ CoverInv => QuietScanCovers
    <2> SUFFICES ASSUME TypeInv, CoverInv, Quiet, phase = "done",
                        NEW h \in Owned \cap asked, h <= end, h <= FutureLimit
                 PROVE  h \in DOMAIN rows
      BY DEF QuietScanCovers, Quiet
    <2>1. h \in InRange
      BY DEF CoverInv, Quiet, InRange
    <2> QED
      BY <2>1 DEF CoverInv, AllRecorded, Recorded
  <1> QED
    BY <1>1, TypesHold, CoverHolds, PTL
=============================================================================
