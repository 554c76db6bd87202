--------------------------- MODULE Builders_proofs ---------------------------
(* What the splits of module Builders pay, for every amount, number of       *)
(* outputs, word and size limit.                                             *)
EXTENDS Builders, TLAPS

\* A part of an amount, as often as it was divided, is no more than the amount.
LEMMA PartsFit ==
    ASSUME NEW a \in Nat, NEW n \in Nat, n > 0
    PROVE  /\ a \div n \in Nat
           /\ n * (a \div n) <= a
           /\ a < n * (a \div n) + n
  OBVIOUS

\* Each part is at least what the amount holds for each.
LEMMA PartsLarge ==
    ASSUME NEW a \in Nat, NEW n \in Nat, n > 0, NEW d \in Nat, a >= n * d
    PROVE  a \div n >= d
  OBVIOUS

\* A difference that does not go below 0 does not wrap.
LEMMA NoWrap ==
    ASSUME NEW a \in 0 .. Word - 1, NEW b \in Nat, a >= b
    PROVE  Minus(a, b) = a - b
  BY BuildersAssumption DEF Minus

-----------------------------------------------------------------------------
\* The split command: an amount that covers the fee for so many outputs is split
\* into them, paid for and none of them dust, or not at all
\* (BuildSplitTransaction).
THEOREM SplitIsPaid ==
    ASSUME NEW amount \in 0 .. Word - 1, NEW n \in Nat,
           amount >= SplitFee(n), BuildSplit(amount, n) # NoOutputs
    PROVE  /\ BuildSplit(amount, n).outputs = n
           /\ Pays(amount, SplitFee(n), BuildSplit(amount, n))
  <1> DEFINE total == amount - SplitFee(n)
  <1>1. SplitFee(n) \in Nat
    BY DEF SplitFee, BaseTxSize, InputSize, OutputSize
  <1>2. total \in Nat /\ Minus(amount, SplitFee(n)) = total
    BY <1>1, NoWrap, BuildersAssumption
  <1>3. n > 0 /\ total >= n * DustAmount /\ BuildSplit(amount, n) = Outputs(n, total \div n)
    BY <1>2 DEF BuildSplit, DustAmount
  <1>4. total \div n \in Nat /\ n * (total \div n) <= total /\ total \div n >= DustAmount
    <2> HIDE DEF total
    <2>1. DustAmount \in Nat
      BY DEF DustAmount
    <2>2. QED
      BY <1>2, <1>3, <2>1, PartsFit, PartsLarge
  <1>5. QED
    BY <1>1, <1>3, <1>4 DEF Pays, Outputs

-----------------------------------------------------------------------------
\* The size limit lets one output fit at least.
LEMMA OneFits == MaxOutputsBySize \in Nat /\ MaxOutputsBySize >= 1
  BY BuildersAssumption
  DEF MaxOutputsBySize, MassiveBase, BaseTxSize, InputSize, OpReturnSize, OutputSize

\* The fee grows with the number of outputs.
LEMMA FeeGrows ==
    ASSUME NEW m \in Nat, NEW n \in Nat, m <= n
    PROVE  /\ MassiveFee(m) \in Nat /\ MassiveFee(n) \in Nat
           /\ MassiveFee(m) <= MassiveFee(n)
  BY DEF MassiveFee, MassiveBase, BaseTxSize, InputSize, OpReturnSize, OutputSize

\* The split of blast-from-tx: an amount that covers the fee of the outputs that
\* fit is split into those or fewer, paid for with the fee of their own number
\* and none of them dust, or it does not hold enough for a single one
\* (BuildMassiveSplitTransaction).
THEOREM MassiveSplitIsPaid ==
    ASSUME NEW amount \in 0 .. Word - 1, NEW target \in Nat, target > 0,
           amount >= MassiveFee(Fitting(target))
    PROVE  LET s == BuildMassiveSplit(amount, target)
           IN  IF s = NoOutputs THEN amount < MassiveFee(Fitting(target)) + DustAmount
               ELSE /\ s.outputs \in Nat /\ s.outputs <= Fitting(target)
                    /\ Pays(amount, MassiveFee(s.outputs), s)
  <1> DEFINE n == Fitting(target)
             total == amount - MassiveFee(n)
             fewer == total \div DustAmount
             left == amount - MassiveFee(fewer)
  <1>1. n \in Nat /\ n >= 1
    BY OneFits DEF Fitting
  <1>2. MassiveFee(n) \in Nat
    BY <1>1, FeeGrows
  <1>3. total \in Nat /\ Minus(amount, MassiveFee(n)) = total
    BY <1>2, NoWrap, BuildersAssumption
  <1>4. BuildMassiveSplit(amount, target) =
          IF total >= n * DustAmount THEN Outputs(n, total \div n)
          ELSE IF fewer <= 0 THEN NoOutputs
          ELSE Outputs(fewer, Minus(amount, MassiveFee(fewer)) \div fewer)
    BY <1>3 DEF BuildMassiveSplit
  <1>5. DustAmount \in Nat /\ DustAmount > 0
    BY DEF DustAmount
  <1> HIDE DEF n
  <1>6. CASE total >= n * DustAmount
    <2> HIDE DEF total
    <2>1. total \div n \in Nat /\ n * (total \div n) <= total /\ total \div n >= DustAmount
      BY <1>1, <1>3, <1>5, <1>6, PartsFit, PartsLarge
    <2>2. n * (total \div n) + MassiveFee(n) <= amount
      BY <2>1, <1>1, <1>2, <1>3 DEF total
    <2>3. QED
      BY <1>1, <1>4, <1>6, <2>1, <2>2 DEF Outputs, NoOutputs, Pays, n
  <1>7. CASE ~(total >= n * DustAmount) /\ fewer <= 0
    <2>1. total < DustAmount
      <3> HIDE DEF total
      <3>1. fewer \in Nat /\ total < DustAmount * fewer + DustAmount
        BY <1>3, <1>5, PartsFit
      <3>2. QED
        BY <1>7, <3>1, <1>3, <1>5
    <2>2. BuildMassiveSplit(amount, target) = NoOutputs
      BY <1>4, <1>7
    <2>3. QED
      BY <2>1, <2>2, <1>2, <1>5 DEF n
  <1>8. CASE ~(total >= n * DustAmount) /\ ~(fewer <= 0)
    <2>1. fewer \in Nat /\ fewer > 0 /\ DustAmount * fewer <= total
      <3> HIDE DEF total
      <3>1. fewer \in Nat /\ DustAmount * fewer <= total
        BY <1>3, <1>5, PartsFit
      <3>2. QED
        BY <1>8, <3>1
    <2> HIDE DEF fewer
    <2>2. fewer <= n
      BY <2>1, <1>1, <1>3, <1>8 DEF DustAmount
    <2>3. MassiveFee(fewer) \in Nat /\ MassiveFee(fewer) <= MassiveFee(n)
      BY <1>1, <2>1, <2>2, FeeGrows
    <2>4. left \in Nat /\ left >= total /\ Minus(amount, MassiveFee(fewer)) = left
      BY <2>3, <1>2, <1>3, NoWrap, BuildersAssumption
    <2>5. left >= fewer * DustAmount
      BY <2>1, <2>4, <1>3 DEF DustAmount
    <2>6. BuildMassiveSplit(amount, target) = Outputs(fewer, left \div fewer)
      BY <1>4, <1>8, <2>4
    <2>7. left \div fewer \in Nat /\ fewer * (left \div fewer) <= left
                            /\ left \div fewer >= DustAmount
      <3> HIDE DEF left
      <3>1. QED
        BY <2>1, <2>4, <2>5, <1>5, PartsFit, PartsLarge
    <2>8. fewer * (left \div fewer) + MassiveFee(fewer) <= amount
      BY <2>1, <2>3, <2>4, <2>7
    <2>9. QED
      BY <2>1, <2>2, <2>6, <2>7, <2>8 DEF Outputs, NoOutputs, Pays, n
  <1>9. QED
    BY <1>6, <1>7, <1>8
=============================================================================
