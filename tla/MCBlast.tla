------------------------------ MODULE MCBlast -------------------------------
(* Small instances of Blast for TLC. *)
EXTENDS Blast, TLC

CONSTANTS c1, c2, s1, s2, d1

\* Two coinbases and a split output.  With batches of 3 the chain of c1 takes
\* two batches, the others one, with 17 and 48 left over.
TwoAndOne == {c1, c2, s1}
HeightsOfTwoAndOne == (c1 :> 1) @@ (c2 :> 3) @@ (s1 :> 2)
CoinbasesOfTwoAndOne == (c1 :> TRUE) @@ (c2 :> TRUE) @@ (s1 :> FALSE)
ShortChains == (c1 :> 1330) @@ (c2 :> 620) @@ (s1 :> 450)

\* The same with the OP_RETURN output of a split, recorded as a row of amount 0.
WithData == TwoAndOne \cup {d1}
HeightsWithData == HeightsOfTwoAndOne @@ (d1 :> 2)
CoinbasesWithData == CoinbasesOfTwoAndOne @@ (d1 :> FALSE)
AmountsWithData == ShortChains @@ (d1 :> 0)
TheDataOutput == {<<d1, 0>>}

\* With batches of 10, c1 fills one and leaves 390; c2 is just large enough to
\* be worth consolidating with what is left of s1.
LongChain == (c1 :> 2400) @@ (c2 :> 1310) @@ (s1 :> 299)

\* s1 is worth consolidating with c1, which matures first.
MergeWithOldest == (c1 :> 1310) @@ (c2 :> 2400) @@ (s1 :> 150)

\* One coinbase whose chain fills one batch of 10 and starts another.
OneCoinbase == {c1}
OneHeight == (c1 :> 1)
OneIsCoinbase == (c1 :> TRUE)
OneLongChain == (c1 :> 2600)

\* The same three, with a coinbase in block 10.
HeightsAroundTen == (c1 :> 1) @@ (c2 :> 10) @@ (s1 :> 2)

\* A coinbase that becomes mature only at height 4, and nothing else.
LateHeight == (c1 :> 3)

\* Split outputs, one of them too small to spend alone.
SmallAndLarge == {s1, c1}
SmallAndLargeHeights == (s1 :> 1) @@ (c1 :> 1)
SmallAndLargeCoinbases == (s1 :> FALSE) @@ (c1 :> TRUE)
SmallAndLargeAmounts == (s1 :> 150) @@ (c1 :> 1310)

\* s1 fills one batch of 10; the 260 left pay for one transaction more, and what
\* that leaves is just enough to be worth consolidating with c1.
BatchThenMerge == (s1 :> 2270) @@ (c1 :> 1317)

\* Two remainders that together do not pay the fee of a consolidation.
TwoSmall == {s1, s2}
TwoSmallHeights == (s1 :> 1) @@ (s2 :> 1)
TwoSmallCoinbases == (s1 :> FALSE) @@ (s2 :> FALSE)
TwoSmallAmounts == (s1 :> 150) @@ (s2 :> 120)

=============================================================================
