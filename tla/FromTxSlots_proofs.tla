------------------------- MODULE FromTxSlots_proofs --------------------------
(* What holds of the split and the slots of blast-from-tx for every amount,  *)
(* number of outputs, batch size and number of faults.                       *)
EXTENDS FromTxSlots, Builders_proofs, FiniteSetTheorems

\* The process has its split on the network.
AfterSplit == {"mark", "save", "build", "send", "results"}

\* What the command is given, and where the process is.
TypesInv ==
    /\ funds \in Funds /\ asked \in Asked /\ built = BuildMassiveSplit(funds, asked)
    /\ NumSlots \in Nat
    /\ refuses \in BOOLEAN /\ refusals \in Nat /\ index \in Nat
    /\ lead \in [Slots -> Int]
    /\ updates \subseteq Slots /\ batch \in Seq(Slots)
    /\ pc \in AfterSplit => NumSlots > 0

\* Beyond the split the network has it, no row knows of it before, and the
\* network has only what is paid for.
SplitInv ==
    /\ onNetwork \in BOOLEAN /\ (onNetwork => Paid)
    /\ pc \in AfterSplit => onNetwork
    /\ row = "spent" \/ saved # {} => onNetwork

\* Without refusals every slot of a batch is behind its chain once it is sent.
SlotsInv ==
    ~refuses =>
        /\ \A s \in Slots : lead[s] <= 0
        /\ pc = "results" => \A s \in updates : lead[s] < 0

\* A slot of the batch has a position in it; once the batch is sent, one that
\* no longer names an output of the split and whose transaction was not taken
\* has a refused one, for which its entry is still to be dropped.
SourceInv ==
    /\ pc = "send" => \A s \in updates : s \in ToSet(batch)
    /\ pc = "results" =>
           \A s \in updates : ~first[s] /\ lead[s] = 0 => \E i \in refused : batch[i] = s

IInv == TypesInv /\ SplitInv /\ SlotsInv /\ SourceInv

-----------------------------------------------------------------------------
\* The number of outputs of the split is a number, and is 0 for no split only.
LEMMA MassiveOutputs ==
    ASSUME NEW amount \in 0 .. Word - 1, NEW target \in Nat
    PROVE  LET s == BuildMassiveSplit(amount, target)
           IN  s.outputs \in Nat /\ (s # NoOutputs => s.outputs > 0)
  <1> DEFINE n == Fitting(target)
             total == Minus(amount, MassiveFee(n))
             fewer == total \div DustAmount
  <1>1. n \in Nat /\ (target > 0 => n > 0)
    BY OneFits DEF Fitting
  <1>2. MassiveFee(n) \in Nat
    BY <1>1, FeeGrows
  <1>3. total \in Nat
    BY <1>2, BuildersAssumption DEF Minus
  <1>4. fewer \in Nat
    <2> HIDE DEF total
    <2>1. DustAmount \in Nat /\ DustAmount > 0
      BY DEF DustAmount
    <2>2. QED
      BY <1>3, <2>1, PartsFit
  <1>5. QED
    <2> HIDE DEF n, total, fewer
    <2>1. CASE target <= 0
      BY <2>1 DEF BuildMassiveSplit, NoOutputs, Outputs
    <2>2. CASE target > 0 /\ total >= n * DustAmount
      BY <2>2, <1>1 DEF BuildMassiveSplit, Outputs, n, total
    <2>3. CASE target > 0 /\ ~(total >= n * DustAmount) /\ fewer <= 0
      BY <2>3 DEF BuildMassiveSplit, NoOutputs, Outputs, n, total, fewer
    <2>4. CASE target > 0 /\ ~(total >= n * DustAmount) /\ ~(fewer <= 0)
      BY <2>4, <1>4 DEF BuildMassiveSplit, Outputs, n, total, fewer
    <2>5. QED
      BY <2>1, <2>2, <2>3, <2>4

-----------------------------------------------------------------------------
LEMMA InitInv == Init => IInv
  <1> SUFFICES ASSUME Init PROVE IInv
    OBVIOUS
  <1> USE DEF Init, Fresh, given
  <1>1. NumSlots \in Nat /\ (built # NoOutputs => NumSlots > 0)
    BY MassiveOutputs, SlotsAssumption DEF NumSlots
  <1>2. lead \in [Slots -> Int] /\ \A s \in Slots : lead[s] <= 0
    OBVIOUS
  <1>3. TypesInv /\ SlotsInv /\ SourceInv
    BY <1>1, <1>2, SlotsAssumption DEF TypesInv, SlotsInv, SourceInv, AfterSplit
  <1>4. SplitInv
    BY DEF SplitInv, AfterSplit
  <1>5. QED
    BY <1>3, <1>4 DEF IInv

\* The steps before the batches.
LEMMA SplitSteps ==
    IInv /\ (Fetch \/ FetchFails \/ CannotSplit \/ Split \/ MarkOriginal \/ SaveSplit \/ Restart)
    => IInv'
  <1> SUFFICES ASSUME IInv,
                      Fetch \/ FetchFails \/ CannotSplit \/ Split \/ MarkOriginal \/ SaveSplit \/ Restart
               PROVE  IInv'
    OBVIOUS
  <1> USE DEF IInv, TypesInv, SplitInv, SlotsInv, SourceInv, AfterSplit, NumSlots, Slots, process, given, Paid
  <1>1. CASE Fetch
    BY <1>1 DEF Fetch
  <1>2. CASE FetchFails
    BY <1>2 DEF FetchFails
  <1>3. CASE CannotSplit
    BY <1>3 DEF CannotSplit
  <1>4. CASE Split
    <2>1. built.outputs > 0
      BY <1>4, MassiveOutputs, SlotsAssumption DEF Split
    <2> DEFINE paid == Paid
    <2>2. paid' = paid /\ paid \in BOOLEAN
      BY <1>4 DEF Split, Paid, Pays
    <2>3. onNetwork' \in BOOLEAN /\ (onNetwork' => paid) /\ (onNetwork => onNetwork')
          /\ (pc' = "mark" => onNetwork') /\ pc' \in {"mark", "stopped"}
      BY <1>4, <2>2 DEF Split
    <2>4. TypesInv' /\ SlotsInv' /\ SourceInv'
      BY <1>4, <2>1, <2>3 DEF Split
    <2>5. SplitInv'
      BY <1>4, <2>2, <2>3 DEF Split
    <2>6. QED
      BY <2>4, <2>5
  <1>5. CASE MarkOriginal
    BY <1>5 DEF MarkOriginal
  <1>6. CASE SaveSplit
    BY <1>6 DEF SaveSplit
  <1>7. CASE Restart
    BY <1>7 DEF Restart
  <1>8. QED
    BY <1>1, <1>2, <1>3, <1>4, <1>5, <1>6, <1>7

\* A function on the first n numbers is a sequence.
LEMMA IsASequence ==
    ASSUME NEW T, NEW n \in Nat, NEW f \in [1 .. n -> T]
    PROVE  f \in Seq(T)
  OBVIOUS

\* A batch goes to slots, over and over.
LEMMA BatchTypes ==
    ASSUME IInv, NEW n \in 1 .. MaxBatch, BuildBatch(n)
    PROVE  batch' \in Seq(Slots') /\ updates' \subseteq Slots'
  <1> USE DEF IInv, TypesInv, NumSlots, Slots
  <1>1. NumSlots \in Nat /\ NumSlots > 0 /\ Slots' = Slots
    BY DEF BuildBatch, AfterSplit, given
  <1>2. ASSUME NEW i \in 1 .. n PROVE (index + i - 1) % NumSlots \in Slots
    <2>1. index + i - 1 \in Int
      BY SlotsAssumption
    <2>2. QED
      BY <1>1, <2>1
  <1>3. n \in Nat
    BY SlotsAssumption
  <1> HIDE DEF NumSlots, Slots
  <1>4. SlotsOf(n) \in [1 .. n -> Slots]
    BY <1>2 DEF SlotsOf
  <1>5. SlotsOf(n) \in Seq(Slots) /\ ToSet(SlotsOf(n)) \subseteq Slots
    <2>1. ToSet(SlotsOf(n)) \subseteq Slots
      BY <1>4 DEF ToSet
    <2>2. SlotsOf(n) \in Seq(Slots)
      BY <1>3, <1>4, IsASequence
    <2>3. QED
      BY <2>1, <2>2
  <1>6. QED
    BY <1>1, <1>5 DEF BuildBatch

\* Without refusals the node takes everything that it can.
LEMMA AllTaken ==
    ASSUME TypesInv, NEW S \in SUBSET Acceptable, NEW X \in OnceRefused(S),
           refusals' = refusals + Cardinality(Acceptable \ S) + Cardinality(X),
           refusals' > refusals => refuses
    PROVE  refusals' \in Nat /\ (~refuses => S = Acceptable)
  <1>1. IsFiniteSet(Slots)
    BY FS_Interval DEF Slots, TypesInv
  <1>2. IsFiniteSet(Acceptable \ S)
    BY <1>1, FS_Subset DEF Acceptable, TypesInv
  <1>3. IsFiniteSet(X)
    <2>1. IsFiniteSet(DOMAIN batch)
      BY FS_Interval DEF TypesInv
    <2>2. X \subseteq DOMAIN batch
      BY DEF OnceRefused, Positions
    <2>3. QED
      BY <2>1, <2>2, FS_Subset
  <1>4. Cardinality(Acceptable \ S) \in Nat /\ Cardinality(X) \in Nat
    BY <1>2, <1>3, FS_CardinalityType
  <1>5. refusals' \in Nat /\ (~refuses => Cardinality(Acceptable \ S) = 0)
    BY <1>4 DEF TypesInv
  <1>6. Cardinality(Acceptable \ S) = 0 => Acceptable \ S = {}
    BY <1>2, FS_EmptySet
  <1>7. QED
    BY <1>5, <1>6

LEMMA BatchSteps ==
    IInv /\ ((\E n \in 1 .. MaxBatch : BuildBatch(n)) \/ SendBatch \/ LoseBatch \/ DropUpdate \/ ApplyUpdates)
    => IInv'
  <1> SUFFICES ASSUME IInv,
                      \/ \E n \in 1 .. MaxBatch : BuildBatch(n)
                      \/ SendBatch \/ LoseBatch \/ DropUpdate \/ ApplyUpdates
               PROVE  IInv'
    OBVIOUS
  <1> USE DEF IInv, TypesInv, SplitInv, SlotsInv, SourceInv, AfterSplit, NumSlots, Slots, process, given, Paid
  <1>1. ASSUME NEW n \in 1 .. MaxBatch, BuildBatch(n) PROVE IInv'
    <2>1. batch' \in Seq(Slots') /\ updates' \subseteq Slots'
      BY <1>1, BatchTypes
    <2>2. updates' = ToSet(batch') /\ pc' = "send"
      BY <1>1 DEF BuildBatch
    <2>3. QED
      BY <1>1, <2>1, <2>2 DEF BuildBatch
  <1>2. CASE SendBatch
    <2>1. PICK S \in SUBSET Acceptable : \E X \in OnceRefused(S) :
            /\ refusals' = refusals + Cardinality(Acceptable \ S) + Cardinality(X)
            /\ refusals' > refusals => refuses /\ lost + refusals' <= MaxLost
            /\ lead' = Accepted(S)
            /\ refused' = Failing(S) \cup X
      BY <1>2 DEF SendBatch
    <2>2. refusals' \in Nat
      BY <2>1, AllTaken
    <2>3. ~refuses => S = Acceptable
      BY <2>1, AllTaken
    <2>4. lead' \in [Slots -> Int]
      BY <2>1 DEF Accepted
    <2>5. ASSUME ~refuses, NEW s \in Slots PROVE lead'[s] <= 0 /\ (s \in updates => lead'[s] < 0)
      <3>1. lead[s] \in Int /\ lead[s] <= 0
        BY <2>5
      <3>2. lead'[s] = IF s \in updates /\ lead[s] = 0 THEN lead[s] - 1 ELSE lead[s]
        BY <2>1, <2>3, <2>5 DEF Accepted, Acceptable
      <3>3. QED
        BY <3>1, <3>2
    <2>6. ASSUME NEW s \in updates, lead'[s] = 0 PROVE \E i \in refused' : batch'[i] = s
      <3>1. lead[s] \in Int /\ s \in Acceptable \ S
        BY <2>1, <2>6 DEF Accepted, Acceptable
      <3>2. PICK i \in DOMAIN batch : batch[i] = s
        BY <1>2 DEF SendBatch, ToSet
      <3>3. i \in refused'
        BY <2>1, <3>1, <3>2 DEF Failing, Positions
      <3>4. QED
        BY <1>2, <3>2, <3>3 DEF SendBatch
    <2>7. QED
      BY <1>2, <2>2, <2>4, <2>5, <2>6 DEF SendBatch
  <1>3. CASE LoseBatch
    <2>1. PICK S \in SUBSET Acceptable : lead' = Accepted(S)
      BY <1>3 DEF LoseBatch
    <2>2. lead' \in [Slots -> Int]
      BY <2>1 DEF Accepted
    <2>3. ASSUME ~refuses, NEW s \in Slots PROVE lead'[s] <= 0
      <3>1. lead[s] \in Int /\ lead[s] <= 0
        BY <2>3
      <3>2. lead'[s] = lead[s] - 1 \/ lead'[s] = lead[s]
        BY <2>1 DEF Accepted
      <3>3. QED
        BY <3>1, <3>2
    <2>4. QED
      BY <1>3, <2>2, <2>3 DEF LoseBatch
  <1>4. CASE DropUpdate
    <2>1. updates' \subseteq updates
      BY <1>4 DEF DropUpdate
    <2>2. ASSUME NEW s \in updates', ~first[s], lead[s] = 0
          PROVE  \E i \in refused' : batch'[i] = s
      <3>1. PICK i \in refused : batch[i] = s
        BY <1>4, <2>1, <2>2 DEF DropUpdate
      <3>2. PICK j : /\ refused' = refused \ {j}
                     /\ \/ SameSource(batch[j]) = {}
                        \/ \E t \in SameSource(batch[j]) : updates' = updates \ {t}
        BY <1>4 DEF DropUpdate
      <3>3. j # i
        BY <2>1, <2>2, <3>1, <3>2 DEF SameSource
      <3>4. QED
        BY <1>4, <3>1, <3>2, <3>3 DEF DropUpdate
    <2>3. QED
      BY <1>4, <2>1, <2>2 DEF DropUpdate
  <1>5. CASE ApplyUpdates
    <2>1. lead' \in [Slots -> Int]
      BY <1>5 DEF ApplyUpdates
    <2>2. ASSUME ~refuses, NEW s \in Slots PROVE lead'[s] <= 0
      <3>1. lead[s] \in Int /\ lead[s] <= 0 /\ (s \in updates => lead[s] < 0)
        BY <1>5, <2>2 DEF ApplyUpdates
      <3>2. lead'[s] = IF s \in updates THEN lead[s] + 1 ELSE lead[s]
        BY <1>5 DEF ApplyUpdates
      <3>3. QED
        BY <3>1, <3>2
    <2>3. pc' = "build" /\ updates' = {} /\ batch' = <<>>
      BY <1>5 DEF ApplyUpdates
    <2>4. TypesInv'
      BY <1>5, <2>1, <2>3 DEF ApplyUpdates
    <2>5. SplitInv' /\ SlotsInv' /\ SourceInv'
      BY <1>5, <2>2, <2>3 DEF ApplyUpdates
    <2>6. QED
      BY <2>4, <2>5
  <1>6. QED
    BY <1>1, <1>2, <1>3, <1>4, <1>5

LEMMA StepInv == IInv /\ [Next]_vars => IInv'
  <1>1. IInv /\ UNCHANGED vars => IInv'
    BY DEF IInv, TypesInv, SplitInv, SlotsInv, SourceInv, NumSlots, Slots, Paid, vars, given
  <1>2. QED
    BY <1>1, SplitSteps, BatchSteps DEF Next, Blasting

-----------------------------------------------------------------------------
\* The invariant of blast-from-tx, from which the theorems below follow.
THEOREM InvariantHolds == Spec => []IInv
  BY InitInv, StepInv, PTL DEF Spec

\* Neither a lost answer nor a restart leaves a row that knows of a split the
\* network does not have.
THEOREM RowsFollow == Spec => []RowsFollowSplit
  <1>1. IInv => RowsFollowSplit
    BY DEF IInv, SplitInv, RowsFollowSplit
  <1>2. QED
    BY <1>1, InvariantHolds, PTL

\* Without refusals no slot ever names an output the network does not have,
\* whatever answers are lost and however often the process is restarted.
THEOREM SlotsNeverAhead == Spec => []NeverAhead
  <1>1. IInv => NeverAhead
    BY DEF IInv, SlotsInv, NeverAhead
  <1>2. QED
    BY <1>1, InvariantHolds, PTL

\* The split that blast-from-tx sends pays for its outputs and the fee.
THEOREM SplitPaidFor == Spec => []SplitIsPaidFor
  <1>1. ASSUME IInv PROVE SplitIsPaidFor
    BY <1>1, MassiveSplitIsPaid, SlotsAssumption
    DEF IInv, TypesInv, SplitIsPaidFor, Paid, NumSlots
  <1>2. QED
    BY <1>1, InvariantHolds, PTL

\* A slot that has moved on from the split never comes to name an output that
\* does not exist, whatever the node refuses.
THEOREM StrandedFromSplit == Spec => OnlySplitOutputsStrand
  <1> DEFINE Moves == \A s \in Slots \ Ahead : ~first[s] => s \notin Ahead'
  <1>1. ASSUME IInv, [Next]_vars, NEW s \in Slots \ Ahead, ~first[s] PROVE s \notin Ahead'
    <2>1. lead[s] \in Int /\ lead[s] <= 0 /\ Slots' = Slots
      <3>1. lead[s] \in Int /\ lead[s] <= 0
        BY <1>1 DEF IInv, TypesInv, Ahead
      <3>2. built' = built
        BY <1>1 DEF Next, Blasting, Fetch, FetchFails, CannotSplit, Split, MarkOriginal, SaveSplit,
                    BuildBatch, SendBatch, LoseBatch, DropUpdate, ApplyUpdates, Restart, vars, given
      <3>3. QED
        BY <3>1, <3>2 DEF Slots, NumSlots
    <2>2. CASE ApplyUpdates
      <3>1. s \in updates => lead[s] < 0
        BY <1>1, <2>1, <2>2 DEF ApplyUpdates, IInv, SourceInv
      <3>2. lead'[s] \in Int /\ lead'[s] <= 0
        BY <2>1, <2>2, <3>1 DEF ApplyUpdates
      <3>3. QED
        BY <3>2, <2>1 DEF Ahead
    <2>3. CASE SendBatch \/ LoseBatch
      <3>1. PICK S : lead' = Accepted(S)
        BY <2>3 DEF SendBatch, LoseBatch
      <3>2. lead'[s] \in Int /\ lead'[s] <= 0
        BY <2>1, <3>1 DEF Accepted
      <3>3. QED
        BY <3>2, <2>1 DEF Ahead
    <2>4. CASE lead' = lead
      BY <2>1, <2>4 DEF Ahead
    <2>5. QED
      BY <1>1, <2>2, <2>3, <2>4
      DEF Next, Blasting, Fetch, FetchFails, CannotSplit, Split, MarkOriginal, SaveSplit,
          BuildBatch, DropUpdate, Restart, process, vars
  <1>2. IInv /\ [Next]_vars => [Moves]_vars
    BY <1>1
  <1>3. QED
    BY <1>2, InvariantHolds, PTL DEF Spec, OnlySplitOutputsStrand

-----------------------------------------------------------------------------
\* What is left of the types: a batch is no longer than asked, and its
\* positions are numbered.
RestInv == TypeOK /\ Len(batch) <= MaxBatch

\* The slots stay the same.
LEMMA SameSlots == [Next]_vars => UNCHANGED <<given, built, NumSlots, Slots>>
  BY DEF Next, Blasting, Fetch, FetchFails, CannotSplit, Split, MarkOriginal, SaveSplit,
         BuildBatch, SendBatch, LoseBatch, DropUpdate, ApplyUpdates, Restart, vars, given, NumSlots, Slots

\* A position is one of a batch that is not too long.
LEMMA PositionsAre ==
    ASSUME IInv, RestInv, NEW S
    PROVE  Positions(S) \subseteq 1 .. MaxBatch
  <1>1. batch \in Seq(Slots) /\ Len(batch) \in Nat /\ DOMAIN batch = 1 .. Len(batch)
    BY DEF IInv, TypesInv
  <1> QED
    BY <1>1, SlotsAssumption DEF RestInv, Positions

LEMMA RestStep == IInv /\ IInv' /\ RestInv /\ [Next]_vars => RestInv'
  <1> SUFFICES ASSUME IInv, IInv', RestInv, [Next]_vars PROVE RestInv'
    OBVIOUS
  <1>1. UNCHANGED <<funds, asked, built, NumSlots, Slots>> /\ NumSlots \in Nat
    BY SameSlots DEF given, IInv, TypesInv
  <1>2. /\ funds' \in Funds /\ asked' \in Asked /\ NumSlots' \in Nat
        /\ onNetwork' \in BOOLEAN /\ refuses' \in BOOLEAN /\ refusals' \in Nat
        /\ updates' \subseteq Slots' /\ lead' \in [Slots' -> Int] /\ batch' \in Seq(Slots')
    BY DEF IInv, TypesInv, SplitInv
  <1>3. /\ row \in {"none", "unspent", "spent"} /\ saved \subseteq Slots
        /\ first \in [Slots -> BOOLEAN] /\ index \in Slots \cup {0}
        /\ refused \subseteq 1 .. MaxBatch /\ batch \in Seq(Slots) /\ Len(batch) <= MaxBatch
    BY DEF RestInv, TypeOK
  <1> DEFINE Rest == /\ row \in {"none", "unspent", "spent"} /\ saved \subseteq Slots
                     /\ first \in [Slots -> BOOLEAN] /\ index \in Slots \cup {0}
                     /\ refused \subseteq 1 .. MaxBatch /\ Len(batch) <= MaxBatch
  <1> SUFFICES Rest'
    BY <1>2 DEF RestInv, TypeOK
  <1>4. ASSUME NEW a \in Int, NumSlots > 0 PROVE a % NumSlots \in Slots
    BY <1>1, <1>4 DEF Slots
  <1>5. CASE Fetch \/ FetchFails \/ CannotSplit \/ Split \/ MarkOriginal \/ LoseBatch \/ UNCHANGED vars
    <2>1. row' \in {"none", "unspent", "spent"}
      BY <1>3, <1>5 DEF Fetch, FetchFails, CannotSplit, Split, MarkOriginal, LoseBatch, vars
    <2>2. UNCHANGED <<saved, first, index, refused, batch>>
      BY <1>5 DEF Fetch, FetchFails, CannotSplit, Split, MarkOriginal, LoseBatch, process, vars
    <2> QED
      BY <1>1, <1>3, <2>1, <2>2
  <1>6. CASE SaveSplit
    <2>1. NumSlots > 0 /\ index \in Slots
      BY <1>1, <1>3, <1>6 DEF SaveSplit, IInv, TypesInv, AfterSplit, Slots
    <2>2. index + 1 \in Int
      BY <2>1 DEF Slots
    <2>3. index' \in Slots
      BY <1>4, <1>6, <2>1, <2>2 DEF SaveSplit
    <2>4. saved' \subseteq Slots
      BY <1>3, <1>6, <2>1 DEF SaveSplit
    <2>5. UNCHANGED <<row, first, refused, batch>>
      BY <1>6 DEF SaveSplit
    <2> QED
      BY <1>1, <1>3, <2>3, <2>4, <2>5
  <1>7. ASSUME NEW n \in 1 .. MaxBatch, BuildBatch(n) PROVE Rest'
    <2>1. NumSlots > 0 /\ index \in Slots
      BY <1>1, <1>3, <1>7 DEF BuildBatch, IInv, TypesInv, AfterSplit, Slots
    <2>2. index + n \in Int
      BY <2>1, SlotsAssumption DEF Slots
    <2>3. index' \in Slots
      BY <1>4, <1>7, <2>1, <2>2 DEF BuildBatch
    <2>4. Len(batch') <= MaxBatch
      <3>1. n \in Nat /\ n <= MaxBatch
        BY SlotsAssumption
      <3>2. batch' = SlotsOf(n) /\ batch' \in Seq(Slots)
        BY <1>1, <1>2, <1>7 DEF BuildBatch
      <3>3. DOMAIN batch' = 1 .. n
        BY <3>2 DEF SlotsOf
      <3>4. Len(batch') = n
        BY <3>1, <3>2, <3>3
      <3> QED
        BY <3>1, <3>4
    <2>5. refused' = {} /\ UNCHANGED <<row, saved, first>>
      BY <1>7 DEF BuildBatch
    <2> QED
      BY <1>1, <1>3, <2>3, <2>4, <2>5
  <1>8. CASE SendBatch
    <2>1. PICK S \in SUBSET Acceptable : \E X \in OnceRefused(S) : refused' = Failing(S) \cup X
      BY <1>8 DEF SendBatch
    <2>2. PICK X \in OnceRefused(S) : refused' = Failing(S) \cup X
      BY <2>1
    <2>3. X \subseteq Positions(S)
      BY <2>2 DEF OnceRefused
    <2>4. refused' \subseteq 1 .. MaxBatch
      BY <2>2, <2>3, PositionsAre DEF Failing
    <2>5. UNCHANGED <<row, saved, first, index, batch>>
      BY <1>8 DEF SendBatch
    <2> QED
      BY <1>1, <1>3, <2>4, <2>5
  <1>9. CASE DropUpdate
    <2>1. refused' \subseteq refused /\ UNCHANGED <<row, saved, first, index, batch>>
      BY <1>9 DEF DropUpdate
    <2> QED
      BY <1>1, <1>3, <2>1
  <1>10. CASE ApplyUpdates
    <2>1. first' \in [Slots -> BOOLEAN]
      BY <1>3, <1>10 DEF ApplyUpdates
    <2>2. Len(batch') <= MaxBatch
      BY <1>10, SlotsAssumption DEF ApplyUpdates
    <2>3. UNCHANGED <<row, saved, index, refused>>
      BY <1>10 DEF ApplyUpdates
    <2> QED
      BY <1>1, <1>3, <2>1, <2>2, <2>3
  <1>11. CASE Restart
    <2>1. /\ first' \in [Slots -> BOOLEAN] /\ index' = 0 /\ refused' = {} /\ Len(batch') <= MaxBatch
          /\ UNCHANGED <<row, saved>>
      BY <1>11, SlotsAssumption DEF Restart
    <2> QED
      BY <1>1, <1>3, <2>1
  <1> QED
    BY <1>5, <1>6, <1>7, <1>8, <1>9, <1>10, <1>11 DEF Next, Blasting

LEMMA RestInit == Init => RestInv
  <1> SUFFICES ASSUME Init PROVE RestInv
    OBVIOUS
  <1>1. IInv
    BY InitInv
  <1>2. first \in [Slots -> BOOLEAN] /\ Len(batch) <= MaxBatch
    BY SlotsAssumption DEF Init, Fresh
  <1> QED
    BY <1>1, <1>2 DEF RestInv, TypeOK, Init, Fresh, IInv, TypesInv, SplitInv

LEMMA RestHolds == Spec => [](IInv /\ RestInv)
  <1>1. Init => IInv /\ RestInv
    BY InitInv, RestInit
  <1>2. (IInv /\ RestInv) /\ [Next]_vars => (IInv /\ RestInv)'
    BY StepInv, RestStep
  <1> QED
    BY <1>1, <1>2, PTL DEF Spec

\* Every variable keeps to its values: an index to the slots there are, also
\* after it wrapped, a refusal to the positions of the batch.
THEOREM TypeCorrect == Spec => []TypeOK
  <1>1. RestInv => TypeOK
    BY DEF RestInv
  <1> QED
    BY <1>1, RestHolds, PTL

-----------------------------------------------------------------------------
(* What a refusal costs *)

\* The slots that name an output the network does not have, or will once the
\* updates are applied: those the node refused whose entry is still there.
Stranding == Ahead \cup {s \in updates : pc = "results" /\ lead[s] = 0}

AheadInv == Cardinality(Stranding) <= refusals

\* There are finitely many slots.
LEMMA SlotsFinite ==
    ASSUME IInv, NEW S, S \subseteq Slots
    PROVE  IsFiniteSet(S) /\ Cardinality(S) \in Nat
  <1>1. IsFiniteSet(Slots)
    BY FS_Interval DEF IInv, TypesInv, Slots
  <1> QED
    BY <1>1, FS_Subset, FS_CardinalityType

\* A step after which no more slots are stranding keeps the invariant.
LEMMA NoMoreStranding ==
    ASSUME IInv, IInv', AheadInv, Stranding' \subseteq Stranding, refusals' >= refusals
    PROVE  AheadInv'
  <1>1. Stranding \subseteq Slots /\ refusals \in Nat /\ refusals' \in Nat
    BY DEF Stranding, Ahead, IInv, TypesInv
  <1>2. IsFiniteSet(Stranding) /\ Cardinality(Stranding) \in Nat
    BY <1>1, SlotsFinite
  <1>3. Cardinality(Stranding') <= Cardinality(Stranding) /\ Cardinality(Stranding') \in Nat
    BY <1>2, FS_Subset, FS_CardinalityType
  <1> QED
    BY <1>1, <1>2, <1>3 DEF AheadInv

\* Sending a batch adds the slots that were refused, and each of them is
\* counted.
LEMMA SendStrands ==
    ASSUME IInv, IInv', AheadInv, SendBatch
    PROVE  AheadInv'
  <1>1. PICK S \in SUBSET Acceptable : \E X \in OnceRefused(S) :
          /\ refusals' = refusals + Cardinality(Acceptable \ S) + Cardinality(X)
          /\ refusals' > refusals => refuses
          /\ lead' = Accepted(S)
    BY DEF SendBatch
  <1>2. PICK X \in OnceRefused(S) : refusals' = refusals + Cardinality(Acceptable \ S) + Cardinality(X)
    BY <1>1
  <1> DEFINE lose == Acceptable \ S
  <1>3. Ahead \subseteq Slots /\ lose \subseteq Slots /\ UNCHANGED <<Slots, updates>> /\ pc = "send"
    BY DEF IInv, TypesInv, Ahead, Acceptable, SendBatch, given, NumSlots, Slots
  <1>4. /\ IsFiniteSet(Ahead) /\ IsFiniteSet(lose)
        /\ Cardinality(Ahead) \in Nat /\ Cardinality(lose) \in Nat
    BY <1>3, SlotsFinite
  <1>5. Cardinality(X) \in Nat
    <2>1. X \subseteq DOMAIN batch /\ IsFiniteSet(DOMAIN batch)
      <3>1. X \subseteq DOMAIN batch
        BY <1>2 DEF OnceRefused, Positions
      <3>2. Len(batch) \in Nat /\ DOMAIN batch = 1 .. Len(batch)
        BY DEF IInv, TypesInv
      <3> QED
        BY <3>1, <3>2, FS_Interval
    <2> QED
      BY <2>1, FS_Subset, FS_CardinalityType
  <1>6. Stranding' \subseteq Ahead \cup lose
    <2> SUFFICES ASSUME NEW s \in Stranding' PROVE s \in Ahead \cup lose
      OBVIOUS
    <2>1. s \in Slots /\ lead[s] \in Int /\ lead'[s] = IF s \in S THEN lead[s] - 1 ELSE lead[s]
      BY <1>1, <1>3 DEF Stranding, Ahead, Accepted, IInv, TypesInv
    <2>2. s \in S => lead[s] = 0
      BY DEF Acceptable
    <2>3. CASE lead'[s] > 0
      BY <2>1, <2>2, <2>3 DEF Ahead
    <2>4. CASE s \in updates' /\ lead'[s] = 0
      BY <1>3, <2>1, <2>2, <2>4 DEF Acceptable
    <2> QED
      BY <2>3, <2>4 DEF Stranding, Ahead
  <1>7. Cardinality(Ahead \cup lose) <= Cardinality(Ahead) + Cardinality(lose)
    <2>1. /\ IsFiniteSet(Ahead \cap lose)
          /\ Cardinality(Ahead \cap lose) \in Nat
      BY <1>4, FS_Subset, FS_CardinalityType
    <2>2. Cardinality(Ahead \cup lose) =
            Cardinality(Ahead) + Cardinality(lose) - Cardinality(Ahead \cap lose)
      BY <1>4, FS_Union
    <2> QED
      BY <1>4, <2>1, <2>2
  <1>8. /\ Cardinality(Stranding') <= Cardinality(Ahead \cup lose)
        /\ Cardinality(Stranding') \in Nat /\ Cardinality(Ahead \cup lose) \in Nat
    <2>1. IsFiniteSet(Ahead \cup lose)
      BY <1>4, FS_Union
    <2> QED
      BY <1>6, <2>1, FS_Subset, FS_CardinalityType
  <1>9. Cardinality(Ahead) <= refusals /\ refusals \in Nat
    <2>1. Stranding = Ahead
      BY <1>3 DEF Stranding
    <2> QED
      BY <2>1 DEF AheadInv, IInv, TypesInv
  <1> QED
    BY <1>2, <1>4, <1>5, <1>7, <1>8, <1>9 DEF AheadInv

LEMMA AheadStep == IInv /\ IInv' /\ AheadInv /\ [Next]_vars => AheadInv'
  <1> SUFFICES ASSUME IInv, IInv', AheadInv, [Next]_vars PROVE AheadInv'
    OBVIOUS
  <1>1. UNCHANGED Slots /\ lead \in [Slots -> Int] /\ refusals \in Nat /\ updates \subseteq Slots
    BY SameSlots DEF IInv, TypesInv
  <1>2. CASE SendBatch
    BY <1>2, SendStrands
  <1>3. CASE LoseBatch
    <2>1. PICK S \in SUBSET Acceptable : lead' = Accepted(S)
      BY <1>3 DEF LoseBatch
    <2>2. ASSUME NEW s \in Slots PROVE lead'[s] <= lead[s]
      BY <1>1, <2>1 DEF Accepted
    <2>3. lead' \in [Slots -> Int]
      BY <1>1, <2>1 DEF Accepted
    <2>4. Stranding' \subseteq Stranding
      BY <1>1, <1>3, <2>2, <2>3 DEF LoseBatch, Stranding, Ahead
    <2>5. refusals' >= refusals
      BY <1>1, <1>3 DEF LoseBatch
    <2> QED
      BY <2>4, <2>5, NoMoreStranding
  <1>4. CASE ApplyUpdates
    <2>1. lead' = [s \in Slots |-> IF s \in updates THEN lead[s] + 1 ELSE lead[s]]
      BY <1>4 DEF ApplyUpdates
    <2>2. Stranding' \subseteq Stranding
      BY <1>1, <1>4, <2>1 DEF ApplyUpdates, Stranding, Ahead
    <2> QED
      BY <1>1, <1>4, <2>2, NoMoreStranding DEF ApplyUpdates
  <1>5. CASE DropUpdate
    <2>1. updates' \subseteq updates /\ UNCHANGED <<lead, pc, refusals>>
      BY <1>5 DEF DropUpdate
    <2> QED
      BY <1>1, <2>1, NoMoreStranding DEF Stranding, Ahead
  <1>6. CASE \/ Fetch \/ FetchFails \/ CannotSplit \/ Split \/ MarkOriginal \/ SaveSplit
             \/ (\E n \in 1 .. MaxBatch : BuildBatch(n)) \/ Restart
    <2>1. lead' = lead /\ pc' # "results" /\ refusals' >= refusals
      BY <1>1, <1>6 DEF Fetch, FetchFails, CannotSplit, Split, MarkOriginal, SaveSplit, BuildBatch, Restart
    <2>2. Stranding' \subseteq Stranding
      BY <1>1, <2>1 DEF Stranding, Ahead
    <2> QED
      BY <2>1, <2>2, NoMoreStranding
  <1>7. CASE UNCHANGED vars
    BY <1>1, <1>7, NoMoreStranding DEF vars, Stranding, Ahead
  <1> QED
    BY <1>2, <1>3, <1>4, <1>5, <1>6, <1>7 DEF Next, Blasting

\* A slot comes to name an output the network does not have only if its own
\* transaction was refused: although the entry of a refused transaction may stay
\* because that of another slot was dropped for it, a refusal strands one slot at
\* most, and lost answers, failures and restarts strand none (submitBatch).
THEOREM RefusalCostsOneSlot == Spec => []OneSlotPerRefusal
  <1>1. Init => AheadInv
    <2> SUFFICES ASSUME Init PROVE AheadInv
      OBVIOUS
    <2>1. Stranding = {}
      BY DEF Init, Fresh, Stranding, Ahead
    <2> QED
      BY <2>1, FS_EmptySet DEF AheadInv, Init
  <1>2. IInv /\ AheadInv => OneSlotPerRefusal
    <2> SUFFICES ASSUME IInv, AheadInv PROVE OneSlotPerRefusal
      OBVIOUS
    <2>1. Stranding \subseteq Slots /\ Ahead \subseteq Stranding /\ refusals \in Nat
      BY DEF Stranding, Ahead, IInv, TypesInv
    <2>2. IsFiniteSet(Stranding) /\ Cardinality(Stranding) \in Nat
      BY <2>1, SlotsFinite
    <2>3. Cardinality(Ahead) <= Cardinality(Stranding) /\ Cardinality(Ahead) \in Nat
      BY <2>1, <2>2, FS_Subset, FS_CardinalityType
    <2> QED
      BY <2>1, <2>2, <2>3 DEF AheadInv, OneSlotPerRefusal
  <1> QED
    BY <1>1, <1>2, AheadStep, InvariantHolds, PTL DEF Spec
=============================================================================
