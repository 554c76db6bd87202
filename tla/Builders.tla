------------------------------ MODULE Builders -------------------------------
(***************************************************************************)
(* The arithmetic of the splits, internal/blaster/builder.go and           *)
(* massive_split.go.  Amounts are uint64: their differences wrap.          *)
(***************************************************************************)
EXTENDS Integers

CONSTANTS
    Word,           \* 2^64
    MaxTxSize       \* 100000 bytes

DustAmount == 546
BaseTxSize == 10
InputSize == 148
OutputSize == 34
OpReturnSize == 50      \* only the massive split allows for it

ASSUME BuildersAssumption ==
    /\ Word \in Nat /\ MaxTxSize \in Nat
    /\ MaxTxSize > BaseTxSize + InputSize + OpReturnSize + OutputSize
    /\ Word > 600 * MaxTxSize

Minus(a, b) == (a - b) % Word

\* A split: so many outputs of so much each.  No outputs: the builder gives an
\* error.
Outputs(n, each) == [outputs |-> n, each |-> each]
NoOutputs == Outputs(0, 0)

-----------------------------------------------------------------------------
(* BuildSplitTransaction *)

SplitFee(n) == BaseTxSize + InputSize + OutputSize * n

\* A mistake: the fee is not set aside.
SplitAll(amount, n) ==
    IF n <= 0 \/ amount < n * DustAmount THEN NoOutputs ELSE Outputs(n, amount \div n)

\* The check for the dust limit of one output, after the division, never
\* finds anything: the total was checked.
BuildSplit(amount, n) ==
    LET total == Minus(amount, SplitFee(n))
    IN  IF n <= 0 \/ total < n * DustAmount THEN NoOutputs ELSE Outputs(n, total \div n)

-----------------------------------------------------------------------------
(* BuildMassiveSplitTransaction: as many outputs as fit and can be paid *)

MassiveBase == BaseTxSize + InputSize + OpReturnSize
MassiveFee(n) == MassiveBase + OutputSize * n

MaxOutputsBySize == (MaxTxSize - MassiveBase) \div OutputSize

Fitting(target) == IF target > MaxOutputsBySize THEN MaxOutputsBySize ELSE target

\* A mistake: the outputs keep the amount they had before their number was
\* reduced.
MassiveUnreduced(amount, target) ==
    LET n == Fitting(target)
        total == Minus(amount, MassiveFee(n))
        fewer == total \div DustAmount
    IN  IF target <= 0 THEN NoOutputs
        ELSE IF total >= n * DustAmount THEN Outputs(n, total \div n)
        ELSE IF fewer <= 0 THEN NoOutputs
        ELSE Outputs(fewer, total \div n)

BuildMassiveSplit(amount, target) ==
    LET n == Fitting(target)
        total == Minus(amount, MassiveFee(n))
        fewer == total \div DustAmount
    IN  IF target <= 0 THEN NoOutputs
        ELSE IF total >= n * DustAmount THEN Outputs(n, total \div n)
        ELSE IF fewer <= 0 THEN NoOutputs
        ELSE Outputs(fewer, Minus(amount, MassiveFee(fewer)) \div fewer)

-----------------------------------------------------------------------------
(* The node: what a split pays out and the fee for its size are within the *)
(* amount of its input, and each output is worth keeping.                  *)

Pays(amount, fee, s) == s.outputs * s.each + fee <= amount /\ s.each >= DustAmount
=============================================================================
