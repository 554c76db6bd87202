----------------------------- MODULE Blast_proofs -----------------------------
(***************************************************************************)
(* What holds of every run of the blast command, whatever fails, whenever  *)
(* the process dies and however many outputs, retries and blocks there     *)
(* are: the table records existing outputs only and never overstates one,  *)
(* batches are signed over the true amount, and the attempts limit is      *)
(* exceeded by one at most.  They rest on one inductive invariant, IInv.   *)
(* Then what holds as long as some things do not go wrong: that the table  *)
(* implements OutputLife, that an immature coinbase is the last thing it   *)
(* tries, and that nothing it could still spend is forgotten.  Each of     *)
(* these theorems names what must not go wrong; with less, TLC refutes it. *)
(***************************************************************************)
EXTENDS Blast, UtxoStore_proofs

\* What the program holds about an output is true of it, or too modest.
Faithful(o, row) ==
    /\ o \in Outpoints
    /\ row \in Row
    /\ Exists(o)
    /\ row.amount <= LedgerAmount(o)
    /\ row.coinbase => row.height <= height

RowsFaithful == \A o \in DOMAIN rows : Faithful(o, rows[o])
InputsFaithful == \A o \in DOMAIN inputs : Faithful(o, inputs[o])

AtWork == {"mark", "verify", "rebuild", "build", "checkids", "merge", "mergeSettle",
           "broadcast", "settle", "retry"}
CurFaithful == pc \in AtWork => cur \in Candidate /\ Faithful(cur.op, cur.row)

\* Every accepted chain is paid for, and every consolidation is worth while.
ChainsPaid ==
    /\ \A r \in Roots : tip[r] >= 0 => LedgerAmount(<<r, tip[r]>>) >= 0
    /\ \A r \in Owned : tip[r] >= 0
    /\ \A m \in Merged : tip[m] >= 0 => mergeAmount[m] >= MinConsolidationOutput

Built == {"checkids", "broadcast", "settle", "retry"}
Signed ==
    /\ pc \in {"rebuild", "build"} \cup Built => cur.row.amount = LedgerAmount(cur.op)
    /\ pc \in Built => /\ batch >= 1
                       /\ cur.row.amount - ChainCost * (batch - 1) >= SmallestInput

Answered ==
    pc = "settle" => /\ reply.ok <= batch
                     /\ cur.op[2] + reply.ok <= tip[cur.op[1]]

MergeReady ==
    /\ pc = "merge" => merge \in Merged /\ mergeAmount[merge] >= MinConsolidationOutput
    /\ pc = "mergeSettle" /\ reply.ok = 1 => merge \in Merged /\ tip[merge] >= 0

\* The limit is passed only by the attempt on a consolidated output, which is
\* large enough for a transaction.
Limited ==
    MaxIterations > 0 =>
        /\ attempts <= MaxIterations + 1
        /\ pc = "start" => attempts = 0
        /\ pc = "mark" => attempts < MaxIterations
        /\ pc \in {"merge", "mergeSettle"} => attempts <= MaxIterations
        /\ pc \in {"verify", "rebuild", "build"} =>
              attempts <= MaxIterations \/ LedgerAmount(cur.op) >= MinConsolidationOutput

IInv == /\ NetworkOK /\ ControlOK
        /\ RowsFaithful /\ InputsFaithful /\ CurFaithful
        /\ ChainsPaid /\ Signed /\ Answered /\ MergeReady /\ Limited

USE DEF ChainCost, SmallestInput, MinConsolidationOutput, MaxRetries

-----------------------------------------------------------------------------
\* While the network stands still, what is true of an output stays true.
LEMMA FaithfulKept ==
  ASSUME UNCHANGED <<height, tip, mergeAmount>>, NEW o, NEW row, Faithful(o, row)
  PROVE  Faithful(o, row)'
BY DEF Faithful, Exists, Mined, LedgerAmount, RootAmount

\* It stays true when the network moves on.
LEMMA FaithfulGrows ==
  ASSUME NetworkOK, NetworkOK', height' >= height,
         \A r \in Roots : tip'[r] >= tip[r],
         \A m \in Merged : tip[m] >= 0 => mergeAmount'[m] = mergeAmount[m],
         NEW o, NEW row, Faithful(o, row)
  PROVE  Faithful(o, row)' /\ LedgerAmount(o)' = LedgerAmount(o)
<1>1. o[1] \in Roots /\ o[2] \in Nat
  BY DEF Faithful, Outpoints
<1>2. LedgerAmount(o)' = LedgerAmount(o)
  BY <1>1 DEF Faithful, Exists, LedgerAmount, RootAmount, Roots, NetworkOK
<1>3. Exists(o)'
  BY <1>1, BlastAssumption DEF Faithful, Exists, Mined, NetworkOK
<1>4. row.coinbase => row.height <= height'
  BY DEF Faithful, Row, NetworkOK
<1>5. QED BY <1>2, <1>3, <1>4 DEF Faithful

\* Amounts are integers, and of an existing output they are not negative.
LEMMA ExistingAmount ==
  ASSUME NetworkOK, ChainsPaid, NEW o \in Outpoints, Exists(o)
  PROVE  LedgerAmount(o) \in Nat
<1>1. o[1] \in Roots /\ o[2] \in Nat
  BY DEF Outpoints
<1>2. RootAmount(o[1]) \in Nat
  BY <1>1, BlastAssumption DEF RootAmount, Roots, NetworkOK
<1>3. tip[o[1]] \in Nat /\ o[2] <= tip[o[1]]
  BY <1>1 DEF Exists, NetworkOK
<1>4. RootAmount(o[1]) - 201 * tip[o[1]] >= 0
  BY <1>1, <1>3 DEF ChainsPaid, LedgerAmount
<1>5. QED BY <1>1, <1>2, <1>3, <1>4 DEF LedgerAmount

LEMMA MarkFaithful ==
  ASSUME UNCHANGED <<height, tip, mergeAmount>>, RowsFaithful, NEW o,
         rows' = MarkUTXOAsSpent(rows, o) \/ UNCHANGED rows
  PROVE  RowsFaithful'
<1> SUFFICES ASSUME NEW p \in DOMAIN rows' PROVE Faithful(p, rows[p])'
  BY DEF RowsFaithful
<1>1. p \in DOMAIN rows /\ Faithful(p, rows[p])
  BY DEF RowsFaithful, MarkUTXOAsSpent
<1>2. rows'[p] = rows[p] \/ rows'[p] = [rows[p] EXCEPT !.spent = TRUE]
  BY <1>1 DEF MarkUTXOAsSpent
<1>3. rows[p] \in Row
  BY <1>1 DEF Faithful
<1>4. Faithful(p, rows'[p])
  BY <1>1, <1>2, <1>3, MarkKeepsRow DEF Faithful
<1>5. QED BY <1>4 DEF Faithful, Exists, Mined, LedgerAmount, RootAmount

LEMMA MarkAllFaithful ==
  ASSUME RowsFaithful, NEW S, NEW p \in DOMAIN MarkAllAsSpent(rows, S)
  PROVE  Faithful(p, MarkAllAsSpent(rows, S)[p])
<1> DEFINE q == MarkAllAsSpent(rows, S)[p]
<1>1. p \in DOMAIN rows /\ Faithful(p, rows[p])
  BY DEF RowsFaithful, MarkAllAsSpent
<1>2. q = rows[p] \/ q = [rows[p] EXCEPT !.spent = TRUE]
  BY <1>1 DEF MarkAllAsSpent
<1>3. rows[p] \in Row
  BY <1>1 DEF Faithful
<1>4. QED BY <1>1, <1>2, <1>3, MarkKeepsRow DEF Faithful

LEMMA SaveFaithful ==
  ASSUME UNCHANGED <<height, tip, mergeAmount>>, RowsFaithful, NEW o, NEW row,
         Faithful(o, row), rows' = SaveUTXO(rows, o, row) \/ UNCHANGED rows
  PROVE  RowsFaithful'
<1> SUFFICES ASSUME NEW p \in DOMAIN rows' PROVE Faithful(p, rows[p])'
  BY DEF RowsFaithful
<1>1. \/ p = o /\ rows'[p] = row
      \/ p \in DOMAIN rows /\ rows'[p] = rows[p]
  BY SaveWritesOneRow
<1>2. Faithful(p, rows'[p])
  BY <1>1 DEF RowsFaithful
<1>3. QED BY <1>2 DEF Faithful, Exists, Mined, LedgerAmount, RootAmount

\* The height given to a new change row is a natural number.
LEMMA NextHeight ==
  ASSUME NetworkOK, RowsFaithful
  PROVE  GetCurrentBlockHeight(rows) + 1 \in Nat
<1>1. Table(rows, height)
  BY DEF Table, RowsFaithful, Faithful
<1>2. QED BY <1>1, CurrentHeightBounded DEF NetworkOK

-----------------------------------------------------------------------------
(* The initial states *)

LEMMA InitEstablishes == Init => IInv
<1> SUFFICES ASSUME Init PROVE IInv
  OBVIOUS
<1> USE BlastAssumption
<1>1. NetworkOK /\ ControlOK
  BY DEF Init, NetworkOK, ControlOK, NoReply, Roots
<1>2. RowsFaithful
  <2>1. PICK S \in SUBSET {r \in Owned : OwnedHeight[r] <= FirstHeight} :
          rows = [o \in {<<r, 0>> : r \in S} |-> OwnedRow(o[1])]
    BY DEF Init
  <2>2. ASSUME NEW r \in S PROVE Faithful(<<r, 0>>, OwnedRow(r))
    <3>1. r \in Owned /\ OwnedHeight[r] \in Nat /\ OwnedAmount[r] \in Nat
          /\ OwnedCoinbase[r] \in BOOLEAN
      BY <2>1
    <3>2. OwnedRow(r) \in Row
      BY <3>1 DEF OwnedRow, Row
    <3>3. Exists(<<r, 0>>) /\ LedgerAmount(<<r, 0>>) = OwnedAmount[r]
      BY <2>1, <3>1 DEF Init, Exists, Mined, LedgerAmount, RootAmount, Roots
    <3>4. QED BY <2>1, <3>1, <3>2, <3>3 DEF Faithful, OwnedRow, Outpoints, Roots, Init
  <2>3. ASSUME NEW o \in DOMAIN rows PROVE Faithful(o, rows[o])
    <3>1. PICK r \in S : o = <<r, 0>> /\ rows[o] = OwnedRow(r)
      BY <2>1
    <3>2. QED BY <2>2, <3>1
  <2>4. QED BY <2>3 DEF RowsFaithful
<1>3. InputsFaithful
  BY DEF Init, InputsFaithful, NoTable
<1>4. ChainsPaid
  BY DEF Init, ChainsPaid, LedgerAmount, RootAmount, Roots
<1>5. CurFaithful /\ Signed /\ Answered /\ MergeReady /\ Limited
  BY DEF Init, CurFaithful, AtWork, Signed, Built, Answered, MergeReady, Limited
<1>6. QED BY <1>1, <1>2, <1>3, <1>4, <1>5 DEF IInv

-----------------------------------------------------------------------------
(* The main goroutine *)

\* Coming back to the loop keeps the invariant as soon as the table is right.
LEMMA ReturnKeeps ==
  ASSUME IInv, Return, UNCHANGED <<network, attempts, env>>, RowsFaithful'
  PROVE  IInv'
<1> USE DEF Return, network, env
<1>1. NetworkOK' /\ ControlOK'
  BY BlastAssumption DEF IInv, NetworkOK, ControlOK, NoReply
<1>2. InputsFaithful'
  BY DEF InputsFaithful, NoTable
<1>3. ChainsPaid'
  BY DEF IInv, ChainsPaid, LedgerAmount, RootAmount
<1>4. CurFaithful' /\ Signed' /\ Answered' /\ MergeReady'
  BY DEF IInv, CurFaithful, AtWork, Signed, Built, Answered, MergeReady
<1>5. Limited'
  BY DEF IInv, Limited
<1>6. QED BY <1>1, <1>2, <1>3, <1>4, <1>5 DEF IInv

LEMMA SkipKeeps ==
  ASSUME IInv, Skip, UNCHANGED <<network, attempts, env>>
  PROVE  IInv'
<1>1. RowsFaithful'
  BY MarkFaithful DEF Skip, Write, IInv, network, env
<1>2. QED BY <1>1, ReturnKeeps DEF Skip

\* A step that moves only the program counter, the batch, the reply and the
\* retry count leaves the table, the inputs and the network as they were.
LEMMA TablesKept ==
  ASSUME IInv, UNCHANGED <<rows, network, height, inputs>>
  PROVE  RowsFaithful' /\ InputsFaithful' /\ NetworkOK' /\ ChainsPaid'
BY DEF IInv, RowsFaithful, InputsFaithful, Faithful, Exists, Mined, LedgerAmount,
       RootAmount, NetworkOK, ChainsPaid, network

LEMMA StartKeeps ==
  ASSUME IInv, Start \/ Stop
  PROVE  IInv'
<1> USE DEF Start, Stop, network, env, locals
<1>1. RowsFaithful' /\ InputsFaithful' /\ NetworkOK' /\ ChainsPaid'
  BY TablesKept
<1>2. ControlOK' /\ CurFaithful' /\ Signed' /\ Answered' /\ MergeReady' /\ Limited'
  BY BlastAssumption DEF IInv, ControlOK, CurFaithful, AtWork, Signed, Built, Answered,
       MergeReady, Limited
<1>3. QED BY <1>1, <1>2 DEF IInv

\* Taking up an output of which the row is true.
LEMMA TakeUp ==
  ASSUME UNCHANGED <<height, tip, mergeAmount>>, NEW o, NEW row, Faithful(o, row),
         cur' = [op |-> o, row |-> row]
  PROVE  cur' \in Candidate /\ CurFaithful'
<1>1. Faithful(o, row)'
  BY FaithfulKept
<1>2. cur' \in Candidate
  BY DEF Faithful, Candidate
<1>3. QED BY <1>1, <1>2 DEF CurFaithful

LEMMA StartFromRecordedKeeps ==
  ASSUME IInv, StartFromRecorded
  PROVE  IInv'
<1> USE DEF StartFromRecorded, network, env, locals
<1>1. RowsFaithful' /\ InputsFaithful' /\ NetworkOK' /\ ChainsPaid'
  BY TablesKept
<1>2. PICK o \in DOMAIN rows : cur' = [op |-> o, row |-> rows[o]]
  OBVIOUS
<1>3. cur' \in Candidate /\ CurFaithful'
  BY <1>2, TakeUp DEF IInv, RowsFaithful
<1>4. ControlOK'
  BY <1>3 DEF IInv, ControlOK
<1>5. Signed' /\ Answered' /\ MergeReady' /\ Limited'
  BY BlastAssumption DEF IInv, Signed, Built, Answered, MergeReady, Limited
<1>6. QED BY <1>1, <1>3, <1>4, <1>5 DEF IInv

LEMMA StartFromNetworkKeeps ==
  ASSUME IInv, StartFromNetwork
  PROVE  IInv'
<1> USE DEF StartFromNetwork, network, env, locals
<1> DEFINE rowOf(o) == [amount |-> LedgerAmount(o), height |-> 0, spent |-> FALSE,
                        coinbase |-> FALSE]
<1>1. PICK r \in Roots : \E k \in 0 .. tip[r] :
        /\ Exists(<<r, k>>)
        /\ cur' = [op |-> <<r, k>>, row |-> rowOf(<<r, k>>)]
        /\ Write(SaveUTXO(rows, <<r, k>>, rowOf(<<r, k>>)))
  OBVIOUS
<1>2. PICK k \in 0 .. tip[r] :
        /\ Exists(<<r, k>>)
        /\ cur' = [op |-> <<r, k>>, row |-> rowOf(<<r, k>>)]
        /\ Write(SaveUTXO(rows, <<r, k>>, rowOf(<<r, k>>)))
  BY <1>1
<1>3. PICK o \in Outpoints : /\ Exists(o)
                             /\ cur' = [op |-> o, row |-> rowOf(o)]
                             /\ Write(SaveUTXO(rows, o, rowOf(o)))
  <2>1. <<r, k>> \in Outpoints
    BY DEF Outpoints, IInv, NetworkOK
  <2> HIDE DEF rowOf
  <2>2. QED BY <1>2, <2>1
<1>4. LedgerAmount(o) \in Nat
  BY <1>3, ExistingAmount DEF IInv
<1>5. Faithful(o, rowOf(o))
  BY <1>3, <1>4 DEF Faithful, Row
<1> HIDE DEF rowOf
<1>6. RowsFaithful'
  BY <1>3, <1>5, SaveFaithful DEF IInv, Write
<1>7. cur' \in Candidate /\ CurFaithful'
  BY <1>3, <1>5, TakeUp
<1>8. ControlOK' /\ NetworkOK'
  BY <1>7 DEF IInv, ControlOK, NetworkOK
<1>9. InputsFaithful' /\ ChainsPaid'
  BY DEF IInv, InputsFaithful, ChainsPaid, Faithful, Exists, Mined, LedgerAmount, RootAmount
<1>10. Signed' /\ Answered' /\ MergeReady' /\ Limited'
  BY BlastAssumption DEF IInv, Signed, Built, Answered, MergeReady, Limited
<1>11. QED BY <1>6, <1>7, <1>8, <1>9, <1>10 DEF IInv

LEMMA SelectKeeps ==
  ASSUME IInv, SelectUTXO
  PROVE  IInv'
<1> USE DEF SelectUTXO, network, env, locals
<1>1. RowsFaithful' /\ InputsFaithful' /\ NetworkOK' /\ ChainsPaid'
  BY TablesKept
<1>2. PICK h : \E o \in GetOldestMatureUTXO(rows, h) : cur' = [op |-> o, row |-> rows[o]]
  OBVIOUS
<1>3. PICK o \in GetOldestMatureUTXO(rows, h) : cur' = [op |-> o, row |-> rows[o]]
  BY <1>2
<1>4. o \in DOMAIN rows
  BY SelectsUnspent DEF Unspent
<1>5. cur' \in Candidate /\ CurFaithful'
  BY <1>3, <1>4, TakeUp DEF IInv, RowsFaithful
<1>6. ControlOK'
  BY <1>5 DEF IInv, ControlOK
<1>7. Signed' /\ Answered' /\ MergeReady' /\ Limited'
  BY BlastAssumption DEF IInv, Signed, Built, Answered, MergeReady, Limited, LimitReached,
       ControlOK
<1>8. QED BY <1>1, <1>5, <1>6, <1>7 DEF IInv

LEMMA MarkKeeps ==
  ASSUME IInv, MarkBeforeUse
  PROVE  IInv'
<1> USE DEF MarkBeforeUse, network, env, locals
<1>1. RowsFaithful'
  BY MarkFaithful DEF IInv, Write
<1>2. NetworkOK' /\ ControlOK' /\ InputsFaithful' /\ ChainsPaid'
  BY DEF IInv, NetworkOK, ControlOK, InputsFaithful, ChainsPaid, Faithful, Exists, Mined,
       LedgerAmount, RootAmount
<1>3. CurFaithful'
  BY DEF IInv, CurFaithful, AtWork, Faithful, Exists, Mined, LedgerAmount, RootAmount
<1>4. Signed' /\ Answered' /\ MergeReady' /\ Limited'
  BY BlastAssumption DEF IInv, Signed, Built, Answered, MergeReady, Limited, ControlOK
<1>5. QED BY <1>1, <1>2, <1>3, <1>4 DEF IInv

LEMMA VerifyKeeps ==
  ASSUME IInv, Verify
  PROVE  IInv'
<1> USE DEF Verify, network, env, locals
<1> DEFINE amount == LedgerAmount(cur.op)
           fixed == [cur.row EXCEPT !.amount = amount]
<1>1. cur \in Candidate /\ Faithful(cur.op, cur.row)
  BY DEF IInv, CurFaithful, AtWork
<1>2. amount \in Nat
  BY <1>1, ExistingAmount DEF IInv, Faithful
<1>3. fixed \in Row /\ fixed.amount = amount /\ fixed.height = cur.row.height
      /\ fixed.coinbase = cur.row.coinbase
  BY <1>1, <1>2 DEF Faithful, Row
<1>4. Faithful(cur.op, fixed)
  BY <1>1, <1>2, <1>3 DEF Faithful
<1>5. /\ RowsFaithful' /\ cur' \in Candidate /\ CurFaithful'
      /\ cur'.row.amount = amount /\ cur'.op = cur.op
  <2>1. CASE cur.row.amount = amount
    <3>1. UNCHANGED <<rows, cur>>
      BY <2>1
    <3>2. QED BY <1>1, <2>1, <3>1 DEF IInv, RowsFaithful, CurFaithful, Faithful, Exists,
                Mined, LedgerAmount, RootAmount
  <2>2. CASE cur.row.amount # amount
    <3>1. Write(SaveUTXO(rows, cur.op, fixed)) /\ cur' = [cur EXCEPT !.row = fixed]
      BY <2>2
    <3>2. cur' = [op |-> cur.op, row |-> fixed]
      BY <1>1, <3>1 DEF Candidate
    <3> HIDE DEF fixed, amount
    <3>3. RowsFaithful'
      BY <1>4, <3>1, SaveFaithful DEF IInv, Write
    <3>4. QED BY <1>3, <1>4, <3>2, <3>3, TakeUp
  <2>3. QED BY <2>1, <2>2
<1>6. ControlOK' /\ NetworkOK'
  BY <1>5 DEF IInv, ControlOK, NetworkOK, AfterVerify
<1>7. InputsFaithful' /\ ChainsPaid'
  BY DEF IInv, InputsFaithful, ChainsPaid, Faithful, Exists, Mined, LedgerAmount, RootAmount
<1>8. Signed' /\ Answered' /\ MergeReady' /\ Limited'
  BY <1>5 DEF IInv, Signed, Built, Answered, MergeReady, Limited, AfterVerify,
       LedgerAmount, RootAmount
<1>9. QED BY <1>5, <1>6, <1>7, <1>8 DEF IInv

LEMMA BuildKeeps ==
  ASSUME IInv, RebuildBefore \/ Build \/ CheckIds
  PROVE  IInv'
<1> USE DEF RebuildBefore, Build, CheckIds, network, env, locals
<1>1. RowsFaithful' /\ InputsFaithful' /\ NetworkOK' /\ ChainsPaid'
  BY TablesKept
<1>2. CurFaithful'
  BY DEF IInv, CurFaithful, AtWork, Faithful, Exists, Mined, LedgerAmount, RootAmount
<1>3. ControlOK' /\ Signed'
  BY BlastAssumption DEF IInv, ControlOK, Signed, Built, BuildsExactly, LedgerAmount,
       RootAmount
<1>4. Answered' /\ MergeReady' /\ Limited'
  BY DEF IInv, Answered, MergeReady, Limited, LedgerAmount, RootAmount
<1>5. QED BY <1>1, <1>2, <1>3, <1>4 DEF IInv

\* When the network moves on, what is recorded and held stays true.
LEMMA NetworkGrows ==
  ASSUME IInv, NetworkOK', height' >= height, \A r \in Roots : tip'[r] >= tip[r],
         \A m \in Merged : tip[m] >= 0 => mergeAmount'[m] = mergeAmount[m]
  PROVE  /\ UNCHANGED rows => RowsFaithful'
         /\ UNCHANGED inputs => InputsFaithful'
         /\ UNCHANGED cur /\ pc \in AtWork =>
              /\ cur \in Candidate /\ CurFaithful'
              /\ LedgerAmount(cur.op)' = LedgerAmount(cur.op)
<1>1. \A o, row : Faithful(o, row) =>
        Faithful(o, row)' /\ LedgerAmount(o)' = LedgerAmount(o)
  BY FaithfulGrows DEF IInv
<1>2. ASSUME UNCHANGED rows PROVE RowsFaithful'
  <2>1. ASSUME NEW o \in DOMAIN rows PROVE Faithful(o, rows[o])'
    <3>1. Faithful(o, rows[o])
      BY DEF IInv, RowsFaithful
    <3>2. PICK row : row = rows[o]
      OBVIOUS
    <3>3. Faithful(o, row)'
      BY <1>1, <3>1, <3>2
    <3>4. row = rows'[o]
      BY <1>2, <3>2
    <3>5. QED BY <3>3, <3>4 DEF Faithful
  <2>2. QED BY <1>2, <2>1 DEF RowsFaithful
<1>3. ASSUME UNCHANGED inputs PROVE InputsFaithful'
  <2>1. ASSUME NEW o \in DOMAIN inputs PROVE Faithful(o, inputs[o])'
    <3>1. Faithful(o, inputs[o])
      BY DEF IInv, InputsFaithful
    <3>2. PICK row : row = inputs[o]
      OBVIOUS
    <3>3. Faithful(o, row)'
      BY <1>1, <3>1, <3>2
    <3>4. row = inputs'[o]
      BY <1>3, <3>2
    <3>5. QED BY <3>3, <3>4 DEF Faithful
  <2>2. QED BY <1>3, <2>1 DEF InputsFaithful
<1>4. ASSUME UNCHANGED cur, pc \in AtWork
      PROVE  /\ cur \in Candidate /\ CurFaithful'
             /\ LedgerAmount(cur.op)' = LedgerAmount(cur.op)
  <2>1. cur \in Candidate /\ Faithful(cur.op, cur.row)
    BY <1>4 DEF IInv, CurFaithful
  <2>2. PICK o, row : o = cur.op /\ row = cur.row
    OBVIOUS
  <2>3. Faithful(o, row)' /\ LedgerAmount(o)' = LedgerAmount(o)
    BY <1>1, <2>1, <2>2
  <2>4. o = cur'.op /\ row = cur'.row
    BY <1>4, <2>2
  <2>5. QED BY <1>4, <2>1, <2>2, <2>3, <2>4
           DEF CurFaithful, Faithful, LedgerAmount, RootAmount
<1>5. QED BY <1>2, <1>3, <1>4

LEMMA ConsolidateKeeps ==
  ASSUME IInv, Consolidate
  PROVE  IInv'
<1> USE DEF Consolidate, network, env, locals
<1>1. PICK table \in ToConsolidate, m \in Merged :
        /\ Worthwhile(table)
        /\ inputs' = table /\ merge' = m
        /\ \E marked \in Written(DOMAIN table) : rows' = MarkAllAsSpent(rows, marked)
        /\ mergeOf' = [mergeOf EXCEPT ![m] = DOMAIN table]
        /\ mergeAmount' = [mergeAmount EXCEPT ![m] =
              IF tip[m] >= 0 THEN @
              ELSE ConsolidationOutput(Total(table), Cardinality(DOMAIN table))]
  OBVIOUS
<1>2. PICK S \in GetSmallUTXOs(rows, ConsolidationThreshold) :
        table = [o \in S \cup {cur.op} |-> IF o \in S THEN rows[o] ELSE cur.row]
  BY DEF ToConsolidate
<1>3. S \subseteq DOMAIN rows
  BY SmallAreUnspent DEF Unspent
<1>4. cur \in Candidate /\ Faithful(cur.op, cur.row)
  BY DEF IInv, CurFaithful, AtWork, TooSmall
<1>5. \A o \in DOMAIN table : Faithful(o, table[o])
  BY <1>2, <1>3, <1>4 DEF IInv, RowsFaithful
<1>6. NetworkOK' /\ mergeAmount'[m] >= MinConsolidationOutput
  <2>1. mergeOf' \in [Merged -> SUBSET Outpoints]
    BY <1>1, <1>5 DEF IInv, NetworkOK, Faithful
  <2>2. CASE tip[m] >= 0
    BY <1>1, <2>1, <2>2 DEF IInv, NetworkOK, ChainsPaid
  <2>3. CASE ~(tip[m] >= 0)
    <3> DEFINE out == ConsolidationOutput(Total(table), Cardinality(DOMAIN table))
    <3>1. out \in MinConsolidationOutput .. Word - 1
      BY <1>1 DEF Worthwhile
    <3> HIDE DEF out
    <3>2. out \in Nat /\ out >= MinConsolidationOutput
      BY <3>1, BlastAssumption
    <3>3. mergeAmount' = [mergeAmount EXCEPT ![m] = out]
      BY <1>1, <2>3 DEF out
    <3>4. QED BY <2>1, <3>2, <3>3 DEF IInv, NetworkOK
  <2>4. QED BY <2>2, <2>3
<1>7. \A n \in Merged : tip[n] >= 0 => mergeAmount'[n] = mergeAmount[n]
  BY <1>1 DEF IInv, NetworkOK
<1>8. \A r \in Roots : tip'[r] >= tip[r]
  BY DEF IInv, NetworkOK
<1>9. height' >= height
  BY DEF IInv, NetworkOK
<1>10. \A o, row : Faithful(o, row) => Faithful(o, row)'
  BY <1>6, <1>7, <1>8, <1>9, FaithfulGrows DEF IInv
<1>11. InputsFaithful'
  <2>1. \A o \in DOMAIN table : Faithful(o, table[o])'
    <3> SUFFICES ASSUME NEW o \in DOMAIN table PROVE Faithful(o, table[o])'
      OBVIOUS
    <3>1. QED BY <1>5, <1>10
  <2>2. QED BY <1>1, <2>1 DEF InputsFaithful, Faithful
<1>12. RowsFaithful'
  <2> PICK marked : rows' = MarkAllAsSpent(rows, marked)
    BY <1>1
  <2>1. ASSUME NEW o \in DOMAIN rows' PROVE Faithful(o, rows[o])'
    <3>1. PICK row : row = MarkAllAsSpent(rows, marked)[o]
      OBVIOUS
    <3>2. Faithful(o, row)
      BY <3>1, MarkAllFaithful DEF IInv
    <3>3. Faithful(o, row)' /\ row = rows'[o]
      BY <1>10, <3>1, <3>2
    <3>4. QED BY <3>3 DEF Faithful
  <2>2. QED BY <2>1 DEF RowsFaithful
<1>13. CurFaithful'
  BY <1>6, <1>7, <1>8, <1>9, NetworkGrows DEF AtWork, TooSmall
<1>14. ControlOK'
  BY <1>1 DEF IInv, ControlOK
<1>15. ChainsPaid'
  BY <1>1, <1>7, BlastAssumption DEF IInv, ChainsPaid, NetworkOK, LedgerAmount, RootAmount,
       Roots
<1>16. Signed' /\ Answered' /\ MergeReady'
  BY <1>1, <1>6 DEF Signed, Built, Answered, MergeReady
<1>17. Limited'
  <2>1. cur.row.amount \in Nat /\ cur.row.amount < SmallestInput
    BY <1>4, BlastAssumption DEF TooSmall, BuildsExactly, Faithful, Row
  <2>2. cur.row.amount = LedgerAmount(cur.op)
    BY DEF IInv, Signed, TooSmall
  <2>3. ~ (LedgerAmount(cur.op) >= MinConsolidationOutput)
    BY <2>1, <2>2
  <2>4. QED BY <2>3, BlastAssumption DEF IInv, Limited, TooSmall, ControlOK
<1>18. QED BY <1>6, <1>11, <1>12, <1>13, <1>14, <1>15, <1>16, <1>17 DEF IInv

LEMMA BroadcastMergeKeeps ==
  ASSUME IInv, BroadcastMerge
  PROVE  IInv'
<1> USE DEF BroadcastMerge, network, env, locals
<1>1. merge \in Merged /\ mergeAmount[merge] >= MinConsolidationOutput
  BY DEF IInv, MergeReady
<1>2. \/ tip[merge] = -1 /\ tip' = [tip EXCEPT ![merge] = 0]
      \/ UNCHANGED tip /\ reply'.ok = 0
  BY DEF MergeAcceptable
<1>3. NetworkOK' /\ ControlOK'
  BY <1>1, <1>2 DEF IInv, NetworkOK, ControlOK, Roots
<1>4. \A r \in Roots : tip'[r] >= tip[r]
  BY <1>1, <1>2 DEF IInv, NetworkOK
<1>5. RowsFaithful' /\ InputsFaithful' /\ CurFaithful'
  BY <1>3, <1>4, NetworkGrows DEF AtWork, IInv, NetworkOK
<1>6. ChainsPaid'
  <2>1. ASSUME NEW r \in Roots, tip'[r] >= 0 PROVE LedgerAmount(<<r, tip[r]>>)' >= 0
    <3>1. CASE r = merge /\ tip' = [tip EXCEPT ![merge] = 0]
      <4>1. r \notin Owned /\ tip'[r] = 0
        BY <1>1, <3>1, BlastAssumption DEF IInv, NetworkOK, Roots
      <4>2. mergeAmount[r] \in Nat
        BY <1>1, <3>1 DEF IInv, NetworkOK
      <4>3. QED BY <4>1, <4>2 DEF LedgerAmount, RootAmount
    <3>2. CASE tip'[r] = tip[r]
      BY <2>1, <3>2 DEF IInv, ChainsPaid, LedgerAmount, RootAmount
    <3>3. QED BY <1>2, <3>1, <3>2 DEF IInv, NetworkOK
  <2>2. \A r \in Owned : tip'[r] >= 0
    BY <1>1, <1>2, BlastAssumption DEF IInv, ChainsPaid, NetworkOK, Roots
  <2>3. \A m \in Merged : tip'[m] >= 0 => mergeAmount'[m] >= MinConsolidationOutput
    BY <1>1, <1>2 DEF IInv, ChainsPaid, NetworkOK, Roots
  <2>4. QED BY <2>1, <2>2, <2>3 DEF ChainsPaid
<1>7. Signed' /\ Answered' /\ Limited'
  BY DEF IInv, Signed, Built, Answered, Limited
<1>8. MergeReady'
  BY <1>1, <1>2 DEF MergeReady, IInv, NetworkOK, Roots
<1>9. QED BY <1>3, <1>5, <1>6, <1>7, <1>8 DEF IInv

LEMMA MergeFailedKeeps ==
  ASSUME IInv, MergeFailed
  PROVE  IInv'
<1> PICK saved \in Written({o \in DOMAIN inputs : ValidateUTXO(rows, o, inputs[o])}) :
      rows' = [o \in DOMAIN rows \cup saved |->
                 IF o \in saved THEN [inputs[o] EXCEPT !.spent = FALSE] ELSE rows[o]]
  BY DEF MergeFailed
<1>0. saved \subseteq DOMAIN inputs
  BY DEF Written
<1>1. ASSUME NEW o \in DOMAIN rows' PROVE Faithful(o, rows'[o])
  <2>1. CASE o \in DOMAIN inputs /\ rows'[o] = [inputs[o] EXCEPT !.spent = FALSE]
    <3>1. Faithful(o, inputs[o])
      BY <2>1 DEF IInv, InputsFaithful
    <3>2. inputs[o] \in Row
      BY <3>1 DEF Faithful
    <3>3. /\ [inputs[o] EXCEPT !.spent = FALSE] \in Row
          /\ [inputs[o] EXCEPT !.spent = FALSE].amount = inputs[o].amount
          /\ [inputs[o] EXCEPT !.spent = FALSE].height = inputs[o].height
          /\ [inputs[o] EXCEPT !.spent = FALSE].coinbase = inputs[o].coinbase
      BY <3>2 DEF Row
    <3>4. QED BY <2>1, <3>1, <3>3 DEF Faithful
  <2>2. CASE o \in DOMAIN rows /\ rows'[o] = rows[o]
    BY <2>2 DEF IInv, RowsFaithful
  <2>3. QED BY <1>0, <2>1, <2>2
<1>2. RowsFaithful'
  <2>1. ASSUME NEW o \in DOMAIN rows' PROVE Faithful(o, rows[o])'
    <3>1. PICK row : row = rows'[o]
      OBVIOUS
    <3>2. Faithful(o, row)
      BY <1>1, <3>1
    <3>3. Faithful(o, row)'
      BY <3>2, FaithfulKept DEF MergeFailed, network, env
    <3>4. QED BY <3>1, <3>3 DEF Faithful
  <2>2. QED BY <2>1 DEF RowsFaithful
<1>3. QED BY <1>2, ReturnKeeps DEF MergeFailed

LEMMA MergeSentKeeps ==
  ASSUME IInv, MergeSent
  PROVE  IInv'
<1> USE DEF MergeSent, network, env, locals
<1> DEFINE o == <<merge, 0>>
           row == [amount |-> mergeAmount[merge],
                   height |-> GetCurrentBlockHeight(rows) + 1,
                   spent |-> FALSE, coinbase |-> FALSE]
<1>1. merge \in Merged /\ tip[merge] >= 0 /\ merge \notin Owned
  BY BlastAssumption DEF IInv, MergeReady
<1>2. mergeAmount[merge] \in Nat /\ mergeAmount[merge] >= MinConsolidationOutput
  BY <1>1 DEF IInv, NetworkOK, ChainsPaid
<1>3. LedgerAmount(o) = mergeAmount[merge] /\ Exists(o) /\ o \in Outpoints
  BY <1>1, <1>2 DEF LedgerAmount, RootAmount, Exists, Mined, Outpoints, Roots, IInv, NetworkOK
<1>4. GetCurrentBlockHeight(rows) + 1 \in Nat
  BY NextHeight DEF IInv
<1>5. Faithful(o, row)
  BY <1>2, <1>3, <1>4 DEF Faithful, Row
<1>6. Write(SaveUTXO(rows, o, row)) /\ cur' = [op |-> o, row |-> row]
  OBVIOUS
<1> HIDE DEF o, row
<1>7. RowsFaithful'
  BY <1>5, <1>6, SaveFaithful DEF IInv, Write
<1>8. cur' \in Candidate /\ CurFaithful'
  BY <1>5, <1>6, TakeUp
<1>9. ControlOK' /\ NetworkOK'
  BY <1>8 DEF IInv, ControlOK, NetworkOK, NoReply
<1>10. InputsFaithful' /\ ChainsPaid'
  BY DEF IInv, InputsFaithful, ChainsPaid, NoTable, LedgerAmount, RootAmount
<1>11. Signed' /\ Answered' /\ MergeReady'
  BY DEF Signed, Built, Answered, MergeReady
<1>12. LedgerAmount(cur.op)' >= MinConsolidationOutput
  BY <1>2, <1>3, <1>6 DEF LedgerAmount, RootAmount
<1>13. Limited'
  BY <1>12, BlastAssumption DEF IInv, Limited, ControlOK
<1>14. QED BY <1>7, <1>8, <1>9, <1>10, <1>11, <1>13 DEF IInv

LEMMA BroadcastKeeps ==
  ASSUME IInv, Broadcast
  PROVE  IInv'
<1> USE DEF Broadcast, network, env, locals
<1>1. PICK t \in Followed(cur.op, batch) :
        /\ tip' = [tip EXCEPT ![cur.op[1]] = t]
        /\ reply' \in Replies(cur.op, batch, t)
  OBVIOUS
<1>2. PICK r, k : cur.op = <<r, k>> /\ r \in Roots /\ k \in Nat
  BY DEF IInv, CurFaithful, AtWork, Faithful, Outpoints
<1>3. /\ batch \in Nat /\ batch >= 1
      /\ cur.row.amount \in Nat
      /\ cur.row.amount - ChainCost * (batch - 1) >= SmallestInput
      /\ cur.row.amount = LedgerAmount(cur.op)
      /\ RootAmount(r) \in Nat
      /\ cur.row.amount = RootAmount(r) - ChainCost * k
  BY <1>2, BlastAssumption DEF IInv, ControlOK, Signed, Built, CurFaithful, AtWork, Faithful,
       Row, NetworkOK, RootAmount, Roots, LedgerAmount
<1>4. tip[r] \in Nat /\ k <= tip[r]
  BY <1>2 DEF IInv, CurFaithful, AtWork, Faithful, Exists, NetworkOK
<1>5. t \in Nat /\ t >= tip[r] /\ (t = tip[r] \/ t <= k + batch)
  BY <1>1, <1>2, <1>3, <1>4 DEF Followed
<1>6. NetworkOK'
  BY <1>1, <1>2, <1>5 DEF IInv, NetworkOK
<1>7. \A q \in Roots : tip'[q] >= tip[q]
  BY <1>1, <1>2, <1>5 DEF IInv, NetworkOK
<1>8. /\ RowsFaithful' /\ InputsFaithful' /\ CurFaithful'
      /\ LedgerAmount(cur.op)' = LedgerAmount(cur.op)
  BY <1>6, <1>7, NetworkGrows DEF AtWork, IInv, NetworkOK
<1>9. ChainsPaid'
  <2>1. ASSUME NEW q \in Roots, tip'[q] >= 0 PROVE LedgerAmount(<<q, tip[q]>>)' >= 0
    <3>1. CASE tip'[q] = tip[q]
      BY <2>1, <3>1 DEF IInv, ChainsPaid, LedgerAmount, RootAmount
    <3>2. CASE q = r /\ tip'[q] = t /\ t <= k + batch
      <4>1. RootAmount(r) - 201 * t >= 0
        BY <1>2, <1>3, <1>5, <3>2
      <4>2. QED BY <3>2, <4>1 DEF LedgerAmount, RootAmount
    <3>3. QED BY <1>1, <1>2, <1>5, <3>1, <3>2 DEF IInv, NetworkOK
  <2>2. \A q \in Owned : tip'[q] >= 0
    BY <1>1, <1>2, <1>5 DEF IInv, ChainsPaid, NetworkOK, Roots
  <2>3. \A m \in Merged : tip'[m] >= 0 => mergeAmount'[m] >= MinConsolidationOutput
    BY <1>1, <1>2, <1>4, <1>5 DEF IInv, ChainsPaid, NetworkOK, Roots
  <2>4. QED BY <2>1, <2>2, <2>3 DEF ChainsPaid
<1>10. /\ reply' \in [ok : Nat, verdict : {"none", "sent", "invalid", "immature", "failed"}]
       /\ reply'.ok <= batch /\ k + reply'.ok <= t
  <2> DEFINE reached == (IF t < k + batch THEN t ELSE k + batch) - k
             again == ~UseProp /\ tip[r] > k
             ok == IF again THEN 0 ELSE reached
             lost == IF UseProp THEN 0 ELSE reached - 1
  <2>1. reached \in Nat /\ reached <= batch /\ k + reached <= t
    BY <1>2, <1>3, <1>4, <1>5
  <2>2. ok \in 0 .. reached
    BY <2>1
  <2>3. ok > 0 => lost \in 0 .. reached
    BY <2>1, <2>2
  <2>4. Verdicts(cur.op, batch) \subseteq {"invalid", "immature", "failed"}
    BY DEF Verdicts
  <2>5. \/ ok > 0 /\ reply' = [ok |-> ok, verdict |-> "sent"]
        \/ reply' \in [ok : {0}, verdict : Verdicts(cur.op, batch)]
        \/ ok > 0 /\ reply' = [ok |-> lost, verdict |-> IF lost > 0 THEN "sent" ELSE "failed"]
    BY <1>1, <1>2 DEF Replies
  <2> HIDE DEF reached, ok, lost
  <2>6. QED BY <1>2, <1>3, <1>5, <2>1, <2>2, <2>3, <2>4, <2>5
<1>11. ControlOK'
  BY <1>10 DEF IInv, ControlOK
<1>12. Signed'
  BY <1>3, <1>8 DEF Signed, Built
<1>13. Answered'
  BY <1>1, <1>2, <1>10 DEF Answered, IInv, NetworkOK
<1>14. MergeReady' /\ Limited'
  BY DEF IInv, MergeReady, Limited
<1>15. QED BY <1>6, <1>8, <1>9, <1>11, <1>12, <1>13, <1>14 DEF IInv

LEMMA SettleAcceptedKeeps ==
  ASSUME IInv, SettleAccepted
  PROVE  IInv'
<1> USE DEF SettleAccepted, network, env
<1> DEFINE o == <<cur.op[1], cur.op[2] + reply.ok>>
           row == [amount |-> cur.row.amount - ChainCost * batch,
                   height |-> GetCurrentBlockHeight(rows) + 1,
                   spent |-> FALSE, coinbase |-> FALSE]
<1>1. PICK r, k : cur.op = <<r, k>> /\ r \in Roots /\ k \in Nat
  BY DEF IInv, CurFaithful, AtWork, Faithful, Outpoints
<1>2. /\ batch \in Nat /\ batch >= 1
      /\ cur.row.amount \in Nat
      /\ cur.row.amount - ChainCost * (batch - 1) >= SmallestInput
      /\ RootAmount(r) \in Nat
      /\ cur.row.amount = RootAmount(r) - ChainCost * k
  BY <1>1, BlastAssumption DEF IInv, ControlOK, Signed, Built, CurFaithful, AtWork, Faithful,
       Row, NetworkOK, RootAmount, Roots, LedgerAmount
<1>3. reply.ok \in Nat /\ reply.ok <= batch /\ k + reply.ok <= tip[r] /\ Mined(r)
  BY <1>1 DEF IInv, ControlOK, Answered, CurFaithful, AtWork, Faithful, Exists
<1>4. o \in Outpoints /\ Exists(o)
  BY <1>1, <1>3 DEF Outpoints, Exists
<1>5. GetCurrentBlockHeight(rows) + 1 \in Nat
  BY NextHeight DEF IInv
<1>6. row.amount \in Nat /\ row.amount <= LedgerAmount(o)
  <2>1. cur.row.amount - 201 * batch \in Nat
    BY <1>2
  <2>2. LedgerAmount(o) = cur.row.amount - 201 * reply.ok
    BY <1>1, <1>2, <1>3 DEF LedgerAmount
  <2>3. 201 * reply.ok <= 201 * batch
    BY <1>2, <1>3
  <2>4. QED BY <1>2, <1>3, <2>1, <2>2, <2>3
<1>7. Faithful(o, row)
  BY <1>4, <1>5, <1>6 DEF Faithful, Row
<1>8. RowsFaithful'
  <2>1. rows' = SaveUTXO(rows, o, row) \/ UNCHANGED rows
    BY DEF SaveChange, Write
  <2> HIDE DEF o, row
  <2>2. QED BY <1>7, <2>1, SaveFaithful DEF IInv
<1>9. QED BY <1>8, ReturnKeeps

LEMMA SettleRestoredKeeps ==
  ASSUME IInv, SettleRestored
  PROVE  IInv'
<1> USE DEF SettleRestored, network, env
<1>1. cur \in Candidate /\ Faithful(cur.op, cur.row)
  BY DEF IInv, CurFaithful, AtWork
<1> DEFINE row == [cur.row EXCEPT !.spent = FALSE]
<1>2. row \in Row /\ row.amount = cur.row.amount /\ row.height = cur.row.height
      /\ row.coinbase = cur.row.coinbase
  BY <1>1 DEF Faithful, Row
<1>3. Faithful(cur.op, row)
  BY <1>1, <1>2 DEF Faithful
<1>4. RowsFaithful'
  <2>1. Write(SaveUTXO(rows, cur.op, row))
    OBVIOUS
  <2> HIDE DEF row
  <2>2. QED BY <1>3, <2>1, SaveFaithful DEF IInv, Write
<1>5. CASE ~Rebroadcast
  BY <1>4, <1>5, ReturnKeeps
<1>6. CASE Rebroadcast
  <2>1. cur' = [op |-> cur.op, row |-> row]
    BY <1>1, <1>6 DEF Candidate
  <2>2. cur' \in Candidate /\ CurFaithful'
    <3> HIDE DEF row
    <3>1. QED BY <1>3, <2>1, TakeUp
  <2>3. ControlOK' /\ NetworkOK'
    BY <1>6, <2>2 DEF IInv, ControlOK, NetworkOK, NoReply
  <2>4. InputsFaithful' /\ ChainsPaid'
    BY <1>6 DEF IInv, InputsFaithful, ChainsPaid, Faithful, Exists, Mined, LedgerAmount,
         RootAmount
  <2>5. Signed'
    BY <1>2, <1>6, <2>1 DEF IInv, Signed, Built, LedgerAmount, RootAmount
  <2>6. Answered' /\ MergeReady' /\ Limited'
    BY <1>6 DEF IInv, Answered, MergeReady, Limited
  <2>7. QED BY <1>4, <2>2, <2>3, <2>4, <2>5, <2>6 DEF IInv
<1>7. QED BY <1>5, <1>6

LEMMA SettleUnsavedKeeps ==
  ASSUME IInv, SettleUnsaved
  PROVE  IInv'
<1>1. RowsFaithful'
  BY DEF SettleUnsaved, network, env, IInv, RowsFaithful, Faithful, Exists, Mined,
       LedgerAmount, RootAmount
<1>2. QED BY <1>1, ReturnKeeps DEF SettleUnsaved

LEMMA RetryBatchKeeps ==
  ASSUME IInv, RetryBatch
  PROVE  IInv'
<1> USE DEF RetryBatch, network, env, locals
<1>1. RowsFaithful' /\ InputsFaithful' /\ NetworkOK' /\ ChainsPaid'
  BY TablesKept
<1>2. CurFaithful'
  BY DEF IInv, CurFaithful, AtWork, Faithful, Exists, Mined, LedgerAmount, RootAmount
<1>3. ControlOK' /\ Signed' /\ Answered' /\ MergeReady' /\ Limited'
  BY DEF IInv, ControlOK, Signed, Built, Answered, MergeReady, Limited, LedgerAmount,
       RootAmount
<1>4. QED BY <1>1, <1>2, <1>3 DEF IInv

\* The steps of the main goroutine that end an attempt by skipping the UTXO.
LEMMA SkipsKeep ==
  ASSUME IInv, VerifyFails \/ RebuildFails \/ SkipDuplicate \/ ConsolidateFails \/ GiveUp
  PROVE  IInv'
BY SkipKeeps DEF VerifyFails, RebuildFails, SkipDuplicate, ConsolidateFails, GiveUp

LEMMA MainKeeps ==
  ASSUME IInv, Main
  PROVE  IInv'
BY StartKeeps, StartFromRecordedKeeps, StartFromNetworkKeeps, SelectKeeps, MarkKeeps,
   SkipsKeep, VerifyKeeps, BuildKeeps, ConsolidateKeeps, BroadcastMergeKeeps,
   MergeFailedKeeps, MergeSentKeeps, BroadcastKeeps, SettleAcceptedKeeps,
   SettleUnsavedKeeps, SettleRestoredKeeps, RetryBatchKeeps
   DEF Main

-----------------------------------------------------------------------------
(* The rest of the world *)

LEMMA SyncKeeps ==
  ASSUME IInv, SyncCoinbase
  PROVE  IInv'
<1> USE DEF SyncCoinbase, network, locals
<1>1. PICK r \in Owned : Mined(r) /\ rows' = SaveUTXO(rows, <<r, 0>>, OwnedRow(r))
  OBVIOUS
<1>2. OwnedAmount[r] \in Nat /\ OwnedHeight[r] \in Nat /\ OwnedCoinbase[r] \in BOOLEAN
  BY BlastAssumption
<1>3. Faithful(<<r, 0>>, OwnedRow(r))
  <2>1. <<r, 0>> \in Outpoints /\ Exists(<<r, 0>>)
    BY <1>1 DEF Outpoints, Roots, Exists, IInv, ChainsPaid
  <2>2. LedgerAmount(<<r, 0>>) = OwnedAmount[r]
    BY <1>2 DEF LedgerAmount, RootAmount
  <2>3. OwnedRow(r) \in Row
    BY <1>2 DEF OwnedRow, Row
  <2>4. QED BY <1>1, <1>2, <2>1, <2>2, <2>3 DEF Faithful, OwnedRow, Mined
<1>4. RowsFaithful'
  BY <1>1, <1>3, SaveFaithful DEF IInv
<1>5. NetworkOK' /\ ControlOK'
  BY DEF IInv, NetworkOK, ControlOK
<1>6. InputsFaithful' /\ CurFaithful' /\ ChainsPaid'
  BY DEF IInv, InputsFaithful, CurFaithful, ChainsPaid, Faithful, Exists, Mined, LedgerAmount,
       RootAmount
<1>7. Signed' /\ Answered' /\ MergeReady' /\ Limited'
  BY DEF IInv, Signed, Answered, MergeReady, Limited, LedgerAmount, RootAmount
<1>8. QED BY <1>4, <1>5, <1>6, <1>7 DEF IInv

LEMMA NewBlockKeeps ==
  ASSUME IInv, NewBlock
  PROVE  IInv'
<1> USE DEF NewBlock, network, locals
<1>1. NetworkOK' /\ ControlOK' /\ height' >= height
  BY DEF IInv, NetworkOK, ControlOK
<1>2. RowsFaithful' /\ InputsFaithful'
  BY <1>1, NetworkGrows DEF IInv, NetworkOK
<1>3. CurFaithful'
  <2>1. CASE pc \in AtWork
    BY <1>1, <2>1, NetworkGrows DEF IInv, NetworkOK
  <2>2. CASE pc \notin AtWork
    BY <2>2 DEF CurFaithful
  <2>3. QED BY <2>1, <2>2
<1>4. ChainsPaid' /\ Signed' /\ Answered' /\ MergeReady' /\ Limited'
  BY DEF IInv, ChainsPaid, Signed, Answered, MergeReady, Limited, LedgerAmount, RootAmount
<1>5. QED BY <1>1, <1>2, <1>3, <1>4 DEF IInv

LEMMA CrashKeeps ==
  ASSUME IInv, Crash
  PROVE  IInv'
<1> USE DEF Crash, network
<1>1. NetworkOK' /\ ControlOK'
  BY BlastAssumption DEF IInv, NetworkOK, ControlOK, NoReply
<1>2. RowsFaithful' /\ InputsFaithful' /\ ChainsPaid'
  BY DEF IInv, RowsFaithful, InputsFaithful, NoTable, ChainsPaid, Faithful, Exists, Mined,
       LedgerAmount, RootAmount
<1>3. CurFaithful' /\ Signed' /\ Answered' /\ MergeReady' /\ Limited'
  BY BlastAssumption DEF CurFaithful, AtWork, Signed, Built, Answered, MergeReady, Limited
<1>4. QED BY <1>1, <1>2, <1>3 DEF IInv

LEMMA StutterKeeps ==
  ASSUME IInv, UNCHANGED vars
  PROVE  IInv'
BY DEF vars, IInv, NetworkOK, ControlOK, RowsFaithful, InputsFaithful, CurFaithful, ChainsPaid,
       Signed, Answered, MergeReady, Limited, Faithful, Exists, Mined, LedgerAmount, RootAmount

LEMMA StepKeeps == IInv /\ [Next]_vars => IInv'
BY MainKeeps, SyncKeeps, NewBlockKeeps, CrashKeeps, StutterKeeps
   DEF Next, WaitForUTXO, Stopped

THEOREM InvariantHolds == Spec => []IInv
BY InitEstablishes, StepKeeps, PTL DEF Spec

-----------------------------------------------------------------------------
(* What follows from the invariant *)

\* The table, the network and the main goroutine keep their types: no amount
\* or height written by blastFromUTXO is ever negative.
THEOREM BlastTypes == Spec => []TypeOK
<1>1. IInv => TypeOK
  BY DEF IInv, TypeOK, TablesOK, RowsFaithful, InputsFaithful, Faithful
<1>2. QED BY InvariantHolds, <1>1, PTL

\* Every row names an output of a transaction the network accepted, through
\* partial batches, lost answers, retries, consolidations and crashes.
THEOREM OnlyExistingOutputs == Spec => []RecordedOutputsExist
<1>1. IInv => RecordedOutputsExist
  BY DEF IInv, RecordedOutputsExist, RowsFaithful, Faithful
<1>2. QED BY InvariantHolds, <1>1, PTL

\* No row promises more than its output holds.
THEOREM NothingOverstated == Spec => []NeverOverstated
<1>1. IInv => NeverOverstated
  BY DEF IInv, NeverOverstated, RowsFaithful, Faithful
<1>2. QED BY InvariantHolds, <1>1, PTL

\* Every batch is signed over the amount the network has for its input.
THEOREM BatchesSignTheTruth == Spec => []SignedOverLedgerAmount
<1>1. IInv => SignedOverLedgerAmount
  BY DEF IInv, SignedOverLedgerAmount, Signed, Built
<1>2. QED BY InvariantHolds, <1>1, PTL

\* --iterations is exceeded by one attempt at most.
THEOREM LimitPlusOne == Spec => []OvershootByOne
<1>1. IInv => OvershootByOne
  BY DEF IInv, OvershootByOne, Limited
<1>2. QED BY InvariantHolds, <1>1, PTL

-----------------------------------------------------------------------------
(* The table implements OutputLife *)

\* Answers arrive, writes succeed, and a batch is taken as a whole or is too
\* small for 90% of it to be less than all; no transaction is looked up again.
Dependable ==
    /\ Faults \cap {"lost", "busy"} = {}
    /\ "partial" \in Faults => TxPerBatch < 10
    /\ ~Rebroadcast /\ ~FromTx

\* No consolidation, and the sync finds new coinbases only.
Undisturbed ==
    /\ ~Consolidate
    /\ SyncCoinbase => \A o \in DOMAIN rows : rows'[o] = rows[o]

NothingMerged ==
    /\ inputs = NoTable
    /\ pc \notin {"rebuild", "checkids", "merge", "mergeSettle", "retry"}
    /\ \A m \in Merged : tip[m] = -1

RowsExact == \A o \in DOMAIN rows : rows[o].amount = LedgerAmount(o)

OffersLive == \A o \in Unspent(rows) : Live(o)

\* A chain hangs from a row, also after that row was spent.
ChainsRecorded == \A r \in Roots : tip[r] > 0 => <<r, 0>> \in DOMAIN rows

\* The output being worked on has a row, marked once it is in use, and is
\* spent by nothing before the batch is sent.
InUse ==
    /\ pc \in AtWork <=> cur # NoUTXO
    /\ pc \in AtWork =>
         /\ cur.op \in DOMAIN rows
         /\ cur.row.amount = LedgerAmount(cur.op)
         /\ rows[cur.op].spent <=> pc # "mark"
         /\ pc # "settle" => Live(cur.op)

\* The answer says how far the chain has got, which is all or nothing unless
\* batches are taken in part; no row is ahead of it.
AnswerIsTrue ==
    pc = "settle" =>
        /\ reply.ok \in {0, batch} \/ "partial" \in Faults
        /\ tip[cur.op[1]] = cur.op[2] + reply.ok
        /\ \A o \in DOMAIN rows : o[1] = cur.op[1] => o[2] <= cur.op[2]

LifeInv == NothingMerged /\ RowsExact /\ OffersLive /\ ChainsRecorded /\ InUse /\ AnswerIsTrue

USE DEF ChainCost, SmallestInput, MinConsolidationOutput, MaxRetries

-----------------------------------------------------------------------------
\* Without consolidations, an output is live when its chain has got just there.
LEMMA LiveIsTip ==
  ASSUME NothingMerged
  PROVE  \A o : Live(o) <=> Exists(o) /\ o[2] = tip[o[1]]
BY DEF NothingMerged, Live, Consumed

LEMMA LiveIsTipNext ==
  ASSUME NothingMerged'
  PROVE  \A o : Live(o)' <=> Exists(o)' /\ o[2] = tip'[o[1]]
BY DEF NothingMerged, Live, Consumed

LEMMA LifeInit == Init /\ Dependable => LifeInv
<1> SUFFICES ASSUME Init, Dependable PROVE LifeInv
  OBVIOUS
<1>0. IInv
  BY InitEstablishes
<1>1. PICK S \in SUBSET {r \in Owned : OwnedHeight[r] <= FirstHeight} :
        rows = [o \in {<<r, 0>> : r \in S} |-> OwnedRow(o[1])]
  BY DEF Init
<1>2. NothingMerged
  BY BlastAssumption DEF Init, NothingMerged, Roots
<1>3. \A o \in DOMAIN rows : \E r \in S : o = <<r, 0>> /\ rows[o] = OwnedRow(r)
  BY <1>1
<1>4. \A r \in S : r \in Owned /\ r \in Roots /\ tip[r] = 0
  BY <1>1 DEF Init, Roots
<1>5. RowsExact
  <2>1. ASSUME NEW o \in DOMAIN rows PROVE rows[o].amount = LedgerAmount(o)
    <3>1. PICK r \in S : o = <<r, 0>> /\ rows[o] = OwnedRow(r)
      BY <1>3
    <3>2. OwnedAmount[r] \in Nat
      BY <1>4, BlastAssumption
    <3>3. QED BY <1>4, <3>1, <3>2 DEF OwnedRow, LedgerAmount, RootAmount
  <2>2. QED BY <2>1 DEF RowsExact
<1>6. OffersLive
  BY <1>0, <1>2, <1>3, <1>4, LiveIsTip DEF OffersLive, Unspent, IInv, RowsFaithful, Faithful
<1>7. ChainsRecorded
  BY DEF Init, ChainsRecorded
<1>8. InUse /\ AnswerIsTrue
  BY DEF Init, InUse, AtWork, AnswerIsTrue
<1>9. QED BY <1>2, <1>5, <1>6, <1>7, <1>8 DEF LifeInv
-----------------------------------------------------------------------------
(* The steps of Blast read as steps of OutputLife *)

LifeStep == [Life!Next]_<<LifeOfRows, TakenByNetwork>>

\* Under the invariant, an output with a row is taken when its chain has gone
\* on, and only the output being worked on is held.
LEMMA TakenIsPassed ==
  ASSUME IInv, NothingMerged
  PROVE  TakenByNetwork = {o \in DOMAIN rows : o[2] # tip[o[1]]}
BY LiveIsTip DEF TakenByNetwork, IInv, RowsFaithful, Faithful

LEMMA TakenIsPassedNext ==
  ASSUME IInv', NothingMerged'
  PROVE  TakenByNetwork' = {o \in DOMAIN rows' : o[2] # tip'[o[1]]}
BY LiveIsTipNext DEF TakenByNetwork, IInv, RowsFaithful, Faithful

LEMMA HeldIsCur ==
  ASSUME NothingMerged
  PROVE  HeldOutputs = IF cur = NoUTXO THEN {} ELSE {cur.op}
BY DEF NothingMerged, HeldOutputs, NoTable

LEMMA HeldIsCurNext ==
  ASSUME NothingMerged'
  PROVE  HeldOutputs' = IF cur' = NoUTXO THEN {} ELSE {cur'.op}
BY DEF NothingMerged, HeldOutputs, NoTable

\* Changes of what is held are not seen from outside.
LEMMA HeldChange ==
  ASSUME HeldOutputs' = HeldOutputs, DOMAIN rows' = DOMAIN rows,
         \A o \in DOMAIN rows \ HeldOutputs : rows'[o].spent = rows[o].spent,
         TakenByNetwork' = TakenByNetwork
  PROVE  LifeStep
BY DEF LifeStep, LifeOfRows

\* An attempt ends with its output free, when S has it, or gone, and perhaps a
\* fresh one.
LEMMA AttemptEnds ==
  ASSUME IInv, LifeInv, IInv', LifeInv', pc \in AtWork, cur' = NoUTXO,
         UNCHANGED tip,
         NEW S \in SUBSET {cur.op}, S \cap TakenByNetwork = {},
         NEW fresh, fresh = {} \/ \E o \in Outpoints : fresh = {o},
         fresh \cap DOMAIN rows = {}, DOMAIN rows' = DOMAIN rows \cup fresh,
         \A o \in DOMAIN rows \ {cur.op} : rows'[o].spent = rows[o].spent,
         rows'[cur.op].spent <=> S = {},
         \A o \in fresh : ~rows'[o].spent /\ o[2] = tip[o[1]]
  PROVE  LifeStep
<1>1. HeldOutputs = {cur.op} /\ HeldOutputs' = {} /\ cur.op \in DOMAIN rows
  BY HeldIsCur, HeldIsCurNext DEF LifeInv, InUse
<1>2. TakenByNetwork' = TakenByNetwork
  BY TakenIsPassed, TakenIsPassedNext DEF LifeInv
<1>3. S \subseteq Life!InStage("held") \ TakenByNetwork
  BY <1>1 DEF Life!InStage, LifeOfRows
<1>4. LifeOfRows' = [o \in DOMAIN LifeOfRows \cup fresh |->
                       IF o \in fresh \cup S THEN "free"
                       ELSE IF LifeOfRows[o] = "held" THEN "gone" ELSE LifeOfRows[o]]
  BY <1>1 DEF LifeOfRows
<1>5. Life!Settle(S, fresh)
  BY <1>2, <1>3, <1>4 DEF Life!Settle, LifeOfRows
<1>6. S \in SUBSET DOMAIN LifeOfRows
  BY <1>1 DEF LifeOfRows
<1>7. CASE fresh = {}
  BY <1>5, <1>6, <1>7 DEF LifeStep, Life!Next
<1>8. CASE fresh # {}
  <2>1. PICK o \in Outpoints : fresh = {o}
    BY <1>8
  <2>2. o \in Life!KnownNext
    BY <2>1 DEF Life!KnownNext, LifeOfRows
  <2>3. Life!Settle(S, {o})
    BY <1>5, <2>1
  <2>4. QED BY <1>6, <2>2, <2>3 DEF LifeStep, Life!Next
<1>9. QED BY <1>7, <1>8

\* An attempt that skips its output leaves it spent.
LEMMA SkipsLife ==
  ASSUME Dependable, IInv, LifeInv, IInv', Skip, UNCHANGED <<network, attempts, env>>,
         pc \in {"verify", "build"}
  PROVE  LifeInv' /\ LifeStep
<1> USE DEF Skip, Return, network, env
<1>0. rows' = MarkUTXOAsSpent(rows, cur.op)
  BY DEF Write, Dependable
<1>1. pc \in AtWork /\ cur.op \in DOMAIN rows /\ rows[cur.op].spent
  BY DEF LifeInv, InUse, AtWork
<1>2. /\ DOMAIN rows' = DOMAIN rows
      /\ \A o \in DOMAIN rows : rows[o] \in Row /\ rows'[o].amount = rows[o].amount
                                /\ rows'[o].spent = rows[o].spent
  <2>1. ASSUME NEW o \in DOMAIN rows
        PROVE  rows'[o] = IF o = cur.op THEN [rows[o] EXCEPT !.spent = TRUE] ELSE rows[o]
    BY <1>0 DEF MarkUTXOAsSpent
  <2>2. \A o \in DOMAIN rows : rows[o] \in Row
    BY DEF IInv, RowsFaithful, Faithful
  <2>3. ASSUME NEW o \in DOMAIN rows
        PROVE  rows'[o].amount = rows[o].amount /\ rows'[o].spent = rows[o].spent
    <3>1. CASE o = cur.op
      BY <1>1, <2>1, <2>2, <3>1 DEF Row
    <3>2. CASE o # cur.op
      BY <2>1, <3>2
    <3>3. QED BY <3>1, <3>2
  <2>4. DOMAIN rows' = DOMAIN rows
    BY <1>0 DEF MarkUTXOAsSpent
  <2>5. QED BY <2>2, <2>3, <2>4
<1>3. NothingMerged'
  BY DEF LifeInv, NothingMerged
<1>4. RowsExact'
  BY <1>2 DEF LifeInv, RowsExact, LedgerAmount, RootAmount
<1>5. OffersLive'
  BY <1>2 DEF LifeInv, OffersLive, Unspent, Live, Exists, Mined, Consumed
<1>6. ChainsRecorded' /\ InUse' /\ AnswerIsTrue'
  BY <1>2 DEF LifeInv, ChainsRecorded, InUse, AtWork, AnswerIsTrue
<1>7. LifeInv'
  BY <1>3, <1>4, <1>5, <1>6 DEF LifeInv
<1> DEFINE none == {}
<1>8. /\ none \in SUBSET {cur.op} /\ none \cap TakenByNetwork = {} /\ none \cap DOMAIN rows = {}
      /\ DOMAIN rows' = DOMAIN rows \cup none /\ (rows'[cur.op].spent <=> none = {})
  BY <1>1, <1>2
<1> HIDE DEF none
<1>9. LifeStep
  BY <1>1, <1>2, <1>7, <1>8, AttemptEnds DEF none
<1>10. QED BY <1>7, <1>9

\* Where the table, the network and the output in hand stand still.
LEMMA StillLife ==
  ASSUME IInv, LifeInv, IInv', UNCHANGED <<rows, network, height, cur, inputs>>,
         \/ pc \in {"start", "select"} /\ pc' \in {"select", "stopped"}
         \/ pc \in {"verify", "build"} /\ pc' \in {"build", "broadcast"}
         \/ pc' = pc /\ UNCHANGED <<batch, reply>>
  PROVE  LifeInv' /\ LifeStep
<1> USE DEF network
<1>1. NothingMerged'
  BY DEF LifeInv, NothingMerged
<1>2. RowsExact' /\ OffersLive' /\ ChainsRecorded'
  BY DEF LifeInv, RowsExact, OffersLive, ChainsRecorded, LedgerAmount, RootAmount, Unspent,
         Live, Exists, Mined, Consumed
<1>3. InUse' /\ AnswerIsTrue'
  BY DEF LifeInv, InUse, AtWork, AnswerIsTrue, LedgerAmount, RootAmount, Live, Exists, Mined,
         Consumed
<1>4. LifeInv'
  BY <1>1, <1>2, <1>3 DEF LifeInv
<1>5. TakenByNetwork' = TakenByNetwork
  BY <1>4, TakenIsPassed, TakenIsPassedNext DEF LifeInv
<1>6. QED BY <1>4, <1>5, HeldChange DEF HeldOutputs

LEMMA SelectLife ==
  ASSUME IInv, LifeInv, IInv', SelectUTXO
  PROVE  LifeInv' /\ LifeStep
<1> USE DEF SelectUTXO, network, env, locals
<1>1. PICK h : \E o \in GetOldestMatureUTXO(rows, h) : cur' = [op |-> o, row |-> rows[o]]
  OBVIOUS
<1>2. PICK o \in Unspent(rows) : cur' = [op |-> o, row |-> rows[o]]
  BY <1>1, SelectsUnspent
<1>3. cur = NoUTXO /\ cur' # NoUTXO
  BY BlastAssumption DEF LifeInv, InUse, AtWork, IInv, CurFaithful, Candidate
<1>4. NothingMerged' /\ RowsExact' /\ OffersLive' /\ ChainsRecorded'
  BY DEF LifeInv, NothingMerged, RowsExact, OffersLive, ChainsRecorded, LedgerAmount,
         RootAmount, Unspent, Live, Exists, Mined, Consumed
<1>5. InUse' /\ AnswerIsTrue'
  BY <1>2, <1>3, <1>4 DEF LifeInv, InUse, AtWork, AnswerIsTrue, RowsExact, OffersLive, Unspent
<1>6. LifeInv'
  BY <1>4, <1>5 DEF LifeInv
<1>7. TakenByNetwork' = TakenByNetwork
  BY <1>6, TakenIsPassed, TakenIsPassedNext DEF LifeInv
<1>8. HeldOutputs = {} /\ HeldOutputs' = {o}
  BY <1>2, <1>3, <1>6, HeldIsCur, HeldIsCurNext DEF LifeInv
<1>9. o \in DOMAIN rows /\ ~rows[o].spent
  BY DEF Unspent
<1>10. Life!Hold({o})
  BY <1>7, <1>8, <1>9 DEF Life!Hold, Life!InStage, LifeOfRows
<1>11. QED BY <1>6, <1>9, <1>10 DEF LifeStep, Life!Next, LifeOfRows

LEMMA MarkLife ==
  ASSUME Dependable, IInv, LifeInv, IInv', MarkBeforeUse
  PROVE  LifeInv' /\ LifeStep
<1> USE DEF MarkBeforeUse, network, env, locals
<1>1. rows' = MarkUTXOAsSpent(rows, cur.op)
  BY DEF Write, Dependable
<1>2. cur.op \in DOMAIN rows
  BY DEF LifeInv, InUse, AtWork
<1>3. /\ DOMAIN rows' = DOMAIN rows
      /\ \A o \in DOMAIN rows : rows'[o].amount = rows[o].amount
      /\ \A o \in DOMAIN rows \ {cur.op} : rows'[o].spent = rows[o].spent
      /\ rows'[cur.op].spent
  BY <1>1, <1>2, MarkKeepsRow DEF MarkUTXOAsSpent, IInv, RowsFaithful, Faithful
<1>4. NothingMerged'
  BY DEF LifeInv, NothingMerged
<1>5. RowsExact' /\ ChainsRecorded'
  BY <1>3 DEF LifeInv, RowsExact, ChainsRecorded, LedgerAmount, RootAmount
<1>6. OffersLive'
  BY <1>3 DEF LifeInv, OffersLive, Unspent, Live, Exists, Mined, Consumed
<1>7. InUse' /\ AnswerIsTrue'
  BY <1>3 DEF LifeInv, InUse, AtWork, AnswerIsTrue, LedgerAmount, RootAmount, Live, Exists,
       Mined, Consumed
<1>8. LifeInv'
  BY <1>4, <1>5, <1>6, <1>7 DEF LifeInv
<1>9. TakenByNetwork' = TakenByNetwork
  BY <1>3, <1>8, TakenIsPassed, TakenIsPassedNext DEF LifeInv
<1>10. HeldOutputs' = HeldOutputs /\ cur.op \in HeldOutputs
  BY DEF HeldOutputs, LifeInv, InUse, AtWork
<1>11. QED BY <1>3, <1>8, <1>9, <1>10, HeldChange

\* The row was right, so nothing is corrected.
LEMMA VerifyLife ==
  ASSUME Dependable, IInv, LifeInv, IInv', Verify
  PROVE  LifeInv' /\ LifeStep
<1>1. UNCHANGED <<rows, cur>> /\ pc' = "build"
  BY DEF Verify, LifeInv, InUse, AtWork, Dependable, AfterVerify
<1>2. QED BY <1>1, StillLife DEF Verify, network, env, locals

LEMMA BroadcastLife ==
  ASSUME Dependable, IInv, LifeInv, IInv', Broadcast
  PROVE  LifeInv' /\ LifeStep
<1> USE DEF Broadcast
<1>1. PICK t \in Followed(cur.op, batch) :
        /\ tip' = [tip EXCEPT ![cur.op[1]] = t]
        /\ reply' \in Replies(cur.op, batch, t)
  OBVIOUS
<1>2. PICK r, k : cur.op = <<r, k>> /\ r \in Roots /\ k \in Nat
  BY DEF IInv, CurFaithful, AtWork, Faithful, Outpoints
<1>3. cur.op \in DOMAIN rows /\ rows[cur.op].spent /\ tip[r] = k /\ cur # NoUTXO
  BY <1>2, LiveIsTip DEF LifeInv, InUse, AtWork
<1>4. batch \in Nat /\ batch >= 1 /\ tip \in [Roots -> Nat \cup {-1}]
  BY BlastAssumption DEF IInv, Signed, Built, ControlOK, NetworkOK
<1>5. t \in k .. k + batch /\ (t \in {k, k + batch} \/ "partial" \in Faults)
  BY <1>1, <1>2, <1>3, <1>4 DEF Followed
<1>6. reply'.ok = t - k
  BY <1>1, <1>2, <1>3, <1>4, <1>5 DEF Replies, Dependable
<1>7. tip'[r] = t /\ \A q \in Roots \ {r} : tip'[q] = tip[q]
  BY <1>1, <1>2, <1>4
<1>8. \A o \in DOMAIN rows : o \in Outpoints /\ Exists(o)
  BY DEF IInv, RowsFaithful, Faithful
<1>9. NothingMerged'
  BY <1>2, <1>3, <1>7 DEF LifeInv, NothingMerged, Roots
<1>10. RowsExact'
  BY DEF LifeInv, RowsExact, LedgerAmount, RootAmount
<1>11. OffersLive'
  <2>1. ASSUME NEW o \in Unspent(rows) PROVE o[2] = tip'[o[1]] /\ Exists(o)'
    <3>1. o[2] = tip[o[1]] /\ Exists(o) /\ o \in Outpoints /\ o # <<r, k>>
      BY <1>2, <1>3, <1>8, LiveIsTip DEF LifeInv, OffersLive, Unspent
    <3>2. o[1] # r
      BY <1>3, <3>1 DEF Outpoints
    <3>3. QED BY <1>7, <3>1, <3>2 DEF Outpoints, Exists, Mined, env
  <2>2. QED BY <1>9, <2>1, LiveIsTipNext DEF OffersLive
<1>12. ChainsRecorded'
  <2>1. k > 0 => <<r, 0>> \in DOMAIN rows
    BY <1>2, <1>3 DEF LifeInv, ChainsRecorded
  <2>2. k = 0 => <<r, 0>> \in DOMAIN rows
    BY <1>2, <1>3
  <2>3. QED BY <1>2, <1>7, <2>1, <2>2 DEF LifeInv, ChainsRecorded
<1>13. InUse'
  BY <1>3 DEF LifeInv, InUse, AtWork, LedgerAmount, RootAmount
<1>14. AnswerIsTrue'
  BY <1>2, <1>3, <1>4, <1>5, <1>6, <1>7, <1>8 DEF AnswerIsTrue, Exists
<1>15. LifeInv'
  BY <1>9, <1>10, <1>11, <1>12, <1>13, <1>14 DEF LifeInv
<1>16. LifeOfRows' = LifeOfRows
  BY DEF LifeOfRows, HeldOutputs
<1>17. TakenByNetwork' = IF t = k THEN TakenByNetwork ELSE TakenByNetwork \cup {cur.op}
  <2>1. ASSUME NEW o \in DOMAIN rows
        PROVE  o[2] # tip'[o[1]] <=> (o[2] # tip[o[1]] \/ (t # k /\ o = cur.op))
    <3>1. o \in Outpoints /\ o[2] <= tip[o[1]]
      BY <1>8 DEF Exists
    <3>2. CASE o[1] = r
      BY <1>2, <1>3, <1>5, <1>7, <3>1, <3>2 DEF Outpoints
    <3>3. CASE o[1] # r
      BY <1>2, <1>7, <3>1, <3>3 DEF Outpoints
    <3>4. QED BY <3>2, <3>3
  <2>2. /\ TakenByNetwork = {o \in DOMAIN rows : o[2] # tip[o[1]]}
        /\ TakenByNetwork' = {o \in DOMAIN rows : o[2] # tip'[o[1]]}
    BY <1>15, TakenIsPassed, TakenIsPassedNext DEF LifeInv
  <2>3. QED BY <1>3, <2>1, <2>2
<1>18. LifeOfRows[cur.op] = "held" /\ cur.op \in DOMAIN LifeOfRows
  BY <1>3 DEF LifeOfRows, HeldOutputs
<1>19. t = k \/ Life!Take({cur.op})
  BY <1>16, <1>17, <1>18 DEF Life!Take, Life!InStage
<1>20. QED BY <1>15, <1>16, <1>17, <1>18, <1>19 DEF LifeStep, Life!Next

\* What the settle actions start from.
LEMMA Settling ==
  ASSUME IInv, LifeInv, pc = "settle"
  PROVE  /\ pc \in AtWork /\ cur \in Candidate /\ cur.op \in Outpoints
         /\ cur.op \in DOMAIN rows /\ rows[cur.op].spent
         /\ cur.row \in Row /\ cur.row.amount = LedgerAmount(cur.op)
         /\ Exists(cur.op)
         /\ tip[cur.op[1]] = cur.op[2] + reply.ok
         /\ reply.ok \in Nat /\ reply.ok <= batch /\ batch \in 1 .. TxPerBatch
         /\ \A o \in DOMAIN rows : o[1] = cur.op[1] => o[2] <= cur.op[2]
BY BlastAssumption DEF IInv, LifeInv, CurFaithful, AtWork, Faithful, InUse, AnswerIsTrue,
       ControlOK, Answered, Signed, Built

\* A row written at the end of an attempt, unspent and exact, at the end of its
\* chain, keeps the invariant.
LEMMA SaveKeepsLife ==
  ASSUME IInv, LifeInv, IInv', Return, UNCHANGED <<network, attempts, env>>,
         NEW o \in Outpoints, NEW row \in Row,
         rows' = SaveUTXO(rows, o, row),
         Exists(o), o[2] = tip[o[1]], ~row.spent, row.amount = LedgerAmount(o)
  PROVE  LifeInv'
<1> USE DEF Return, network, env
<1>1. /\ DOMAIN rows \subseteq DOMAIN rows'
      /\ \A p \in DOMAIN rows' : \/ p = o /\ rows'[p] = row
                                 \/ p \in DOMAIN rows /\ rows'[p] = rows[p]
  BY SaveWritesOneRow
<1>2. NothingMerged'
  BY DEF LifeInv, NothingMerged
<1>3. RowsExact'
  BY <1>1 DEF LifeInv, RowsExact, LedgerAmount, RootAmount
<1>4. OffersLive'
  <2>1. ASSUME NEW p \in Unspent(rows)' PROVE p[2] = tip[p[1]] /\ Exists(p)
    <3>1. p = o \/ p \in Unspent(rows)
      BY <1>1 DEF Unspent
    <3>2. QED BY <3>1, LiveIsTip DEF LifeInv, OffersLive
  <2>2. QED BY <1>2, <2>1, LiveIsTipNext DEF OffersLive, Exists, Mined
<1>5. ChainsRecorded' /\ InUse' /\ AnswerIsTrue'
  BY <1>1 DEF LifeInv, ChainsRecorded, InUse, AtWork, AnswerIsTrue
<1>6. QED BY <1>2, <1>3, <1>4, <1>5 DEF LifeInv

\* An attempt that ends and leaves the table alone: what it spent is gone.
LEMMA LeavesLife ==
  ASSUME IInv, LifeInv, IInv', Return, UNCHANGED <<rows, network, attempts, env>>,
         pc = "settle"
  PROVE  LifeInv' /\ LifeStep
<1> USE DEF Return, network, env
<1>1. LifeInv'
  BY DEF LifeInv, NothingMerged, RowsExact, OffersLive, ChainsRecorded, InUse, AtWork,
         AnswerIsTrue, LedgerAmount, RootAmount, Unspent, Live, Exists, Mined, Consumed
<1> DEFINE none == {}
<1>2. /\ none \in SUBSET {cur.op} /\ none \cap TakenByNetwork = {} /\ none \cap DOMAIN rows = {}
      /\ DOMAIN rows' = DOMAIN rows \cup none /\ (rows'[cur.op].spent <=> none = {})
  BY Settling
<1> HIDE DEF none
<1>3. LifeStep
  BY <1>1, <1>2, Settling, AttemptEnds DEF none
<1>4. QED BY <1>1, <1>3

\* 90% of fewer than ten is all of them, and a batch that is taken as a whole or
\* not at all is all or nothing.
LEMMA AcceptedMeansAll ==
  ASSUME Dependable, IInv, LifeInv, pc = "settle", MostlyAccepted
  PROVE  reply.ok = batch
BY Settling, BlastAssumption DEF Dependable, MostlyAccepted, LifeInv, AnswerIsTrue

LEMMA SettleAcceptedLife ==
  ASSUME Dependable, IInv, LifeInv, IInv', SettleAccepted
  PROVE  LifeInv' /\ LifeStep
<1> USE DEF SettleAccepted, network, env
<1> DEFINE o == <<cur.op[1], cur.op[2] + reply.ok>>
           row == [amount |-> cur.row.amount - ChainCost * batch,
                   height |-> GetCurrentBlockHeight(rows) + 1,
                   spent |-> FALSE, coinbase |-> FALSE]
<1>1. PICK r, k : cur.op = <<r, k>> /\ r \in Roots /\ k \in Nat
  BY Settling DEF Outpoints
<1>2. reply.ok = batch /\ batch \in Nat /\ batch >= 1
  BY AcceptedMeansAll, Settling, BlastAssumption
<1>3. o \in Outpoints /\ o[2] = tip[o[1]] /\ o[1] = r /\ o[2] > k
  BY <1>1, <1>2, Settling DEF Outpoints
<1>4. Exists(o)
  BY <1>1, <1>3, Settling DEF Exists, IInv, NetworkOK
<1>5. row.amount = LedgerAmount(o)
  <2>1. RootAmount(r) \in Nat
    BY <1>1, BlastAssumption DEF IInv, NetworkOK, RootAmount, Roots
  <2>2. QED BY <1>1, <1>2, <2>1, Settling DEF LedgerAmount
<1>6. row \in Row /\ ~row.spent
  <2>1. row.amount \in Nat
    BY <1>2, Settling DEF IInv, Signed, Built, Row
  <2>2. row.height \in Nat
    BY NextHeight DEF IInv
  <2>3. QED BY <2>1, <2>2 DEF Row
<1>7. rows' = SaveUTXO(rows, o, row)
  BY DEF SaveChange, Write, Dependable
<1>8. o \notin DOMAIN rows
  BY <1>1, <1>3, Settling
<1> HIDE DEF o, row
<1>9. LifeInv'
  BY <1>3, <1>4, <1>5, <1>6, <1>7, SaveKeepsLife
<1>10. CASE UNCHANGED rows
  BY <1>10, LeavesLife
<1>11. CASE rows' = Put(rows, o, row)
  <2> DEFINE none == {}
             fresh == {o}
  <2>1. DOMAIN rows' = DOMAIN rows \cup fresh /\ fresh \cap DOMAIN rows = {}
    BY <1>8, <1>11 DEF Put
  <2>2. /\ none \in SUBSET {cur.op} /\ none \cap TakenByNetwork = {}
        /\ fresh = {} \/ \E p \in Outpoints : fresh = {p}
        /\ \A p \in DOMAIN rows : rows'[p] = rows[p]
        /\ rows'[o] = row
    BY <1>3, <1>8, <1>11 DEF Put
  <2>3. /\ \A p \in DOMAIN rows \ {cur.op} : rows'[p].spent = rows[p].spent
        /\ rows'[cur.op].spent <=> none = {}
        /\ \A p \in fresh : ~rows'[p].spent /\ p[2] = tip[p[1]]
    BY <1>3, <1>6, <2>2, Settling
  <2> HIDE DEF none, fresh
  <2>4. LifeStep
    BY <1>9, <2>1, <2>2, <2>3, Settling, AttemptEnds DEF Return, none
  <2>5. QED BY <1>9, <2>4
<1>12. QED BY <1>7, <1>10, <1>11 DEF SaveUTXO

\* Nothing was accepted, so the row that comes back is not spent.
LEMMA SettleRestoredLife ==
  ASSUME Dependable, IInv, LifeInv, IInv', SettleRestored
  PROVE  LifeInv' /\ LifeStep
<1> USE DEF SettleRestored, network, env
<1> DEFINE row == [cur.row EXCEPT !.spent = FALSE]
<1>1. Return /\ rows' = SaveUTXO(rows, cur.op, row)
  BY DEF Write, Dependable
<1>2. row \in Row /\ ~row.spent /\ row.amount = LedgerAmount(cur.op)
  BY Settling DEF Row
<1>3. cur.op[2] = tip[cur.op[1]] /\ Exists(cur.op) /\ cur.op \in Outpoints
  BY Settling DEF Outpoints
<1> HIDE DEF row
<1>4. LifeInv'
  BY <1>1, <1>2, <1>3, SaveKeepsLife
<1>5. CASE UNCHANGED rows
  BY <1>1, <1>5, LeavesLife
<1>6. CASE rows' = Put(rows, cur.op, row)
  <2> DEFINE none == {}
             S == {cur.op}
  <2>1. DOMAIN rows' = DOMAIN rows \cup none /\ none \cap DOMAIN rows = {}
    BY <1>6, Settling DEF Put
  <2>2. cur.op \notin TakenByNetwork
    BY <1>3, TakenIsPassed DEF LifeInv
  <2>3. S \in SUBSET {cur.op} /\ S \cap TakenByNetwork = {} /\ S # {}
    BY <2>2
  <2>4. /\ rows'[cur.op] = row
        /\ \A p \in DOMAIN rows \ {cur.op} : rows'[p].spent = rows[p].spent
    BY <1>6, Settling DEF Put
  <2> HIDE DEF none, S
  <2>5. LifeStep
    BY <1>1, <1>2, <1>4, <2>1, <2>3, <2>4, Settling, AttemptEnds DEF Return, none
  <2>6. QED BY <1>4, <2>5
<1>7. QED BY <1>1, <1>5, <1>6 DEF SaveUTXO

LEMMA SettleUnsavedLife ==
  ASSUME IInv, LifeInv, IInv', SettleUnsaved
  PROVE  LifeInv' /\ LifeStep
BY LeavesLife DEF SettleUnsaved

\* Steps the invariant rules out, or the conditions do.
LEMMA NeverTaken ==
  ASSUME Dependable, IInv, LifeInv, Undisturbed
  PROVE  /\ ~StartFromRecorded /\ ~StartFromNetwork /\ ~RebuildBefore /\ ~RebuildFails
         /\ ~CheckIds /\ ~SkipDuplicate /\ ~Consolidate /\ ~BroadcastMerge /\ ~MergeFailed
         /\ ~MergeSent /\ ~GiveUp /\ ~RetryBatch
BY DEF Dependable, LifeInv, NothingMerged, Undisturbed, StartFromRecorded, StartFromNetwork,
       RebuildBefore, RebuildFails, CheckIds, SkipDuplicate, Consolidate, BroadcastMerge,
       MergeFailed, MergeSent, GiveUp, RetryBatch

LEMMA MainLife ==
  ASSUME Dependable, IInv, LifeInv, IInv', Undisturbed, Main
  PROVE  LifeInv' /\ LifeStep
<1>1. CASE Start \/ Stop \/ Build
  BY <1>1, StillLife DEF Start, Stop, Build, Dependable, env, locals
<1>2. CASE VerifyFails \/ ConsolidateFails
  BY <1>2, SkipsLife DEF VerifyFails, ConsolidateFails, TooSmall
<1>3. QED BY <1>1, <1>2, NeverTaken, SelectLife, MarkLife, VerifyLife, BroadcastLife,
             SettleAcceptedLife, SettleUnsavedLife, SettleRestoredLife DEF Main

-----------------------------------------------------------------------------
(* The rest of the world *)

\* A new block, seen from the table: nothing.
LEMMA NewBlockLife ==
  ASSUME IInv, LifeInv, IInv', NewBlock
  PROVE  LifeInv' /\ LifeStep
<1> USE DEF NewBlock, network, locals
<1>1. NothingMerged' /\ RowsExact' /\ ChainsRecorded'
  BY DEF LifeInv, NothingMerged, RowsExact, ChainsRecorded, LedgerAmount, RootAmount
<1>2. \A o \in DOMAIN rows : Exists(o)'
  BY DEF IInv, RowsFaithful, Faithful
<1>3. OffersLive'
  BY <1>1, <1>2, LiveIsTip, LiveIsTipNext DEF LifeInv, OffersLive, Unspent
<1>4. InUse' /\ AnswerIsTrue'
  BY <1>1, <1>2, LiveIsTip, LiveIsTipNext DEF LifeInv, InUse, AtWork, AnswerIsTrue,
     LedgerAmount, RootAmount
<1>5. LifeInv'
  BY <1>1, <1>3, <1>4 DEF LifeInv
<1>6. TakenByNetwork' = TakenByNetwork
  BY <1>5, TakenIsPassed, TakenIsPassedNext DEF LifeInv
<1>7. QED BY <1>5, <1>6, HeldChange DEF HeldOutputs

\* The sync adds a coinbase of which nothing is spent yet.
LEMMA SyncLife ==
  ASSUME IInv, LifeInv, IInv', Undisturbed, SyncCoinbase
  PROVE  LifeInv' /\ LifeStep
<1> USE DEF SyncCoinbase, network, locals
<1>1. PICK r \in Owned : Mined(r) /\ rows' = SaveUTXO(rows, <<r, 0>>, OwnedRow(r))
  OBVIOUS
<1> DEFINE o == <<r, 0>>
<1>2. \A p \in DOMAIN rows : rows'[p] = rows[p]
  BY DEF Undisturbed
<1>3. r \in Roots /\ o \in Outpoints /\ tip[r] >= 0 /\ tip[r] \in Int
  BY DEF Roots, Outpoints, IInv, ChainsPaid, NetworkOK
<1>4. CASE DOMAIN rows' = DOMAIN rows
  <2>1. NothingMerged' /\ RowsExact' /\ ChainsRecorded'
    BY <1>2, <1>4 DEF LifeInv, NothingMerged, RowsExact, ChainsRecorded, LedgerAmount, RootAmount
  <2>2. OffersLive' /\ InUse' /\ AnswerIsTrue'
    BY <1>2, <1>4 DEF LifeInv, OffersLive, InUse, AtWork, AnswerIsTrue, LedgerAmount,
       RootAmount, Unspent, Live, Exists, Mined, Consumed
  <2>3. LifeInv'
    BY <2>1, <2>2 DEF LifeInv
  <2>4. TakenByNetwork' = TakenByNetwork
    BY <1>4, <2>3, TakenIsPassed, TakenIsPassedNext DEF LifeInv
  <2>5. QED BY <1>2, <1>4, <2>3, <2>4, HeldChange DEF HeldOutputs
<1>5. CASE DOMAIN rows' # DOMAIN rows
  <2>1. DOMAIN rows' = DOMAIN rows \cup {o} /\ o \notin DOMAIN rows /\ rows'[o] = OwnedRow(r)
    BY <1>1, <1>5 DEF SaveUTXO, Put
  <2>2. o[1] = r /\ o[2] = 0 /\ tip[r] = 0
    BY <1>3, <2>1 DEF LifeInv, ChainsRecorded
  <2>3. ~rows'[o].spent /\ rows'[o].amount = LedgerAmount(o) /\ OwnedAmount[r] \in Nat
    BY <2>1, BlastAssumption DEF OwnedRow, LedgerAmount, RootAmount
  <2> HIDE DEF o
  <2>4. NothingMerged' /\ RowsExact' /\ ChainsRecorded'
    BY <1>2, <2>1, <2>3 DEF LifeInv, NothingMerged, RowsExact, ChainsRecorded, LedgerAmount,
       RootAmount
  <2>5. \A p \in DOMAIN rows' : p = o \/ (p \in DOMAIN rows /\ rows'[p] = rows[p])
    BY <1>2, <2>1
  <2>6. OffersLive'
    <3>1. ASSUME NEW p \in Unspent(rows)' PROVE p[2] = tip[p[1]] /\ Exists(p)
      <4>1. CASE p = o
        BY <1>1, <1>3, <2>2, <4>1 DEF Exists
      <4>2. CASE p \in DOMAIN rows /\ rows'[p] = rows[p]
        BY <4>2, LiveIsTip DEF LifeInv, OffersLive, Unspent
      <4>3. QED BY <2>5, <4>1, <4>2 DEF Unspent
    <3>2. QED BY <2>4, <3>1, LiveIsTipNext DEF OffersLive, Exists, Mined
  <2>7. InUse'
    BY <1>2, <2>1 DEF LifeInv, InUse, AtWork, LedgerAmount, RootAmount, Live, Exists, Mined,
       Consumed
  <2>8. AnswerIsTrue'
    <3>1. pc = "settle" => cur.op[2] >= 0
      BY Settling DEF Outpoints
    <3>2. QED BY <2>2, <2>5, <3>1 DEF LifeInv, AnswerIsTrue
  <2>9. LifeInv'
    BY <2>4, <2>6, <2>7, <2>8 DEF LifeInv
  <2>10. TakenByNetwork' = TakenByNetwork
    BY <2>1, <2>2, <2>9, TakenIsPassed, TakenIsPassedNext DEF LifeInv
  <2>11. HeldOutputs' = HeldOutputs /\ o \notin HeldOutputs
    BY <2>1, HeldIsCur DEF HeldOutputs, LifeInv, InUse
  <2>12. Life!Discover(o)
    BY <1>2, <2>1, <2>3, <2>10, <2>11 DEF Life!Discover, LifeOfRows
  <2>13. o \in Life!KnownNext
    BY <1>3, <2>1 DEF Life!KnownNext, LifeOfRows, o
  <2>14. QED BY <2>9, <2>12, <2>13 DEF LifeStep, Life!Next
<1>6. QED BY <1>4, <1>5

\* A crash ends the attempt: only a row not marked yet is free again.
LEMMA CrashLife ==
  ASSUME IInv, LifeInv, IInv', Crash
  PROVE  LifeInv' /\ LifeStep
<1> USE DEF Crash, network
<1>1. NothingMerged' /\ RowsExact' /\ ChainsRecorded'
  BY DEF LifeInv, NothingMerged, RowsExact, ChainsRecorded, LedgerAmount, RootAmount
<1>2. OffersLive' /\ InUse' /\ AnswerIsTrue'
  BY DEF LifeInv, OffersLive, InUse, AtWork, AnswerIsTrue, Unspent, Live, Exists, Mined,
     Consumed
<1>3. LifeInv'
  BY <1>1, <1>2 DEF LifeInv
<1>4. CASE pc \in AtWork
  <2> DEFINE none == {}
             S == IF pc = "mark" THEN {cur.op} ELSE {}
  <2>1. cur.op \in DOMAIN rows /\ (rows[cur.op].spent <=> pc # "mark")
    BY <1>4 DEF LifeInv, InUse
  <2>2. pc = "mark" => cur.op \notin TakenByNetwork
    BY <1>4 DEF LifeInv, InUse, TakenByNetwork
  <2>3. /\ S \in SUBSET {cur.op} /\ S \cap TakenByNetwork = {}
        /\ rows'[cur.op].spent <=> S = {}
        /\ none \cap DOMAIN rows = {} /\ DOMAIN rows' = DOMAIN rows \cup none
    BY <2>1, <2>2
  <2> HIDE DEF none, S
  <2>4. LifeStep
    BY <1>3, <1>4, <2>3, AttemptEnds DEF none
  <2>5. QED BY <1>3, <2>4
<1>5. CASE pc \notin AtWork
  <2>1. cur = NoUTXO
    BY <1>5 DEF LifeInv, InUse
  <2>2. TakenByNetwork' = TakenByNetwork
    BY <1>3, TakenIsPassed, TakenIsPassedNext DEF LifeInv
  <2>3. HeldOutputs' = HeldOutputs
    BY <2>1 DEF HeldOutputs
  <2>4. QED BY <1>3, <2>2, <2>3, HeldChange
<1>6. QED BY <1>4, <1>5

LEMMA StutterLife ==
  ASSUME LifeInv, UNCHANGED vars
  PROVE  LifeInv' /\ LifeStep
<1> USE DEF vars
<1>1. LifeInv'
  BY DEF LifeInv, NothingMerged, RowsExact, OffersLive, ChainsRecorded, InUse, AtWork,
     AnswerIsTrue, LedgerAmount, RootAmount, Unspent, Live, Exists, Mined, Consumed
<1>2. LifeStep
  BY DEF LifeStep, LifeOfRows, HeldOutputs, TakenByNetwork, Live, Exists, Mined, Consumed
<1>3. QED BY <1>1, <1>2

LEMMA StepLife ==
  ASSUME Dependable, IInv, LifeInv, IInv', [Next]_vars, [Undisturbed]_vars
  PROVE  LifeInv' /\ LifeStep
<1>1. CASE UNCHANGED vars
  BY <1>1, StutterLife
<1>2. CASE Next /\ Undisturbed
  BY <1>2, StutterLife, MainLife, NewBlockLife, SyncLife, CrashLife
     DEF Next, WaitForUTXO, Stopped
<1>3. QED BY <1>1, <1>2

-----------------------------------------------------------------------------
LEMMA StartsFree == Init /\ Dependable => Life!Init
<1> SUFFICES ASSUME Init, Dependable PROVE Life!Init
  OBVIOUS
<1>1. IInv /\ LifeInv
  BY InitEstablishes, LifeInit
<1>2. DOMAIN LifeOfRows \subseteq Outpoints
  BY <1>1 DEF IInv, RowsFaithful, Faithful, LifeOfRows
<1>3. HeldOutputs = {} /\ \A o \in DOMAIN rows : ~rows[o].spent
  BY DEF Init, HeldOutputs, OwnedRow
<1>4. \A o \in DOMAIN LifeOfRows : LifeOfRows[o] = "free"
  BY <1>3 DEF LifeOfRows
<1>5. TakenByNetwork = {}
  BY <1>1, <1>3 DEF LifeInv, OffersLive, Unspent, TakenByNetwork
<1>6. QED BY <1>2, <1>4, <1>5 DEF Life!Init

\* Any number of outputs, blocks, attempts and crashes: while answers arrive and
\* writes succeed, nothing is consolidated and the sync overwrites no row, the
\* table and the attempt in progress implement OutputLife (blast.go 255, 890-940).
THEOREM KeepsThePromise ==
    Dependable => (Spec /\ [][Undisturbed]_vars => ImplementsOutputLife)
<1> SUFFICES ASSUME Dependable PROVE Spec /\ [][Undisturbed]_vars => ImplementsOutputLife
  OBVIOUS
<1>1. Init => Life!Init /\ LifeInv
  BY StartsFree, LifeInit
<1>2. IInv /\ LifeInv /\ IInv' /\ [Next]_vars /\ [Undisturbed]_vars
        => LifeInv' /\ [Life!Next]_<<LifeOfRows, TakenByNetwork>>
  BY StepLife DEF LifeStep
<1>3. QED BY <1>1, <1>2, InvariantHolds, PTL DEF Spec, Life!Spec, ImplementsOutputLife

LEMMA LifeInvHolds == Dependable => (Spec /\ [][Undisturbed]_vars => []LifeInv)
<1> SUFFICES ASSUME Dependable PROVE Spec /\ [][Undisturbed]_vars => []LifeInv
  OBVIOUS
<1>1. Init => LifeInv
  BY LifeInit
<1>2. IInv /\ LifeInv /\ IInv' /\ [Next]_vars /\ [Undisturbed]_vars => LifeInv'
  BY StepLife
<1>3. QED BY <1>1, <1>2, InvariantHolds, PTL DEF Spec

\* Under the same conditions every output of ours the network has seen spent is
\* marked, from the moment it sees it, so that no crash brings it back: the row
\* was marked before the batch was sent (blast.go 255) and nothing unmarks it.
THEOREM TakenStaysMarked ==
    Dependable => (Spec /\ [][Undisturbed]_vars => []TakenIsMarked)
<1>1. LifeInv => TakenIsMarked
  BY DEF LifeInv, OffersLive, Unspent, TakenIsMarked, TakenByNetwork
<1>2. QED BY <1>1, LifeInvHolds, PTL

\* ... and between attempts only outputs that nothing has spent are on offer.
THEOREM OffersOnlyLive ==
    Dependable => (Spec /\ [][Undisturbed]_vars => []NoSpentOffered)
<1>1. LifeInv => NoSpentOffered
  BY DEF LifeInv, OffersLive, NoSpentOffered
<1>2. QED BY <1>1, LifeInvHolds, PTL

-----------------------------------------------------------------------------
(* What the promise itself amounts to *)

PromiseInv == Life!TypeOK /\ Life!NeverFreeAgain

LEMMA PromiseStep ==
  ASSUME PromiseInv, LifeStep
  PROVE  PromiseInv'
<1> USE DEF PromiseInv, Life!TypeOK, Life!NeverFreeAgain, Life!InStage, Life!Stages
<1>1. ASSUME NEW o \in Life!KnownNext, Life!Discover(o) PROVE PromiseInv'
  BY <1>1 DEF Life!Discover, Life!KnownNext
<1>2. ASSUME NEW S \in SUBSET DOMAIN LifeOfRows, Life!Hold(S) PROVE PromiseInv'
  BY <1>2 DEF Life!Hold
<1>3. ASSUME NEW S \in SUBSET DOMAIN LifeOfRows, Life!Take(S) PROVE PromiseInv'
  BY <1>3 DEF Life!Take
<1>4. ASSUME NEW S, NEW fresh \in SUBSET Outpoints, Life!Settle(S, fresh)
      PROVE  PromiseInv'
  BY <1>4 DEF Life!Settle
<1>5. CASE UNCHANGED <<LifeOfRows, TakenByNetwork>>
  BY <1>5
<1>6. QED BY <1>1, <1>2, <1>3, <1>4, <1>5 DEF LifeStep, Life!Next, Life!KnownNext

\* Whatever implements OutputLife never offers again an output that the network
\* has seen spent.
THEOREM TakenStaysTaken == Life!Spec => []Life!NeverFreeAgain
<1>1. Life!Init => PromiseInv
  BY DEF Life!Init, PromiseInv, Life!TypeOK, Life!NeverFreeAgain, Life!InStage, Life!Stages
<1>2. PromiseInv /\ [Life!Next]_<<LifeOfRows, TakenByNetwork>> => PromiseInv'
  BY PromiseStep DEF LifeStep
<1>3. PromiseInv => Life!NeverFreeAgain
  BY DEF PromiseInv
<1>4. QED BY <1>1, <1>2, <1>3, PTL DEF Life!Spec

-----------------------------------------------------------------------------
(* An immature coinbase is the last resort *)

\* The row of an output the program did not chain has its true height and
\* flag, and no other row is flagged as a coinbase.
TrueRow(o, row) ==
    IF o[1] \in Owned /\ o[2] = 0
    THEN row.coinbase = OwnedCoinbase[o[1]] /\ row.height = OwnedHeight[o[1]]
    ELSE ~row.coinbase

RowsTrue ==
    /\ \A o \in DOMAIN rows : TrueRow(o, rows[o])
    /\ \A o \in DOMAIN inputs : TrueRow(o, inputs[o])
    /\ pc \in AtWork => TrueRow(cur.op, cur.row)

LEMMA SaveKeepsTrue ==
  ASSUME RowsTrue, NEW o, NEW row, TrueRow(o, row),
         rows' = SaveUTXO(rows, o, row) \/ UNCHANGED rows
  PROVE  \A p \in DOMAIN rows' : TrueRow(p, rows'[p])
<1> SUFFICES ASSUME NEW p \in DOMAIN rows' PROVE TrueRow(p, rows'[p])
  OBVIOUS
<1>1. \/ p = o /\ rows'[p] = row
      \/ p \in DOMAIN rows /\ rows'[p] = rows[p]
  BY SaveWritesOneRow
<1>2. QED BY <1>1 DEF RowsTrue

LEMMA MarkKeepsTrue ==
  ASSUME IInv, RowsTrue, NEW S, rows' = MarkAllAsSpent(rows, S) \/ UNCHANGED rows
  PROVE  \A p \in DOMAIN rows' : TrueRow(p, rows'[p])
<1> SUFFICES ASSUME NEW p \in DOMAIN rows' PROVE TrueRow(p, rows'[p])
  OBVIOUS
<1>1. p \in DOMAIN rows /\ rows[p] \in Row /\ TrueRow(p, rows[p])
  BY DEF IInv, RowsFaithful, Faithful, MarkAllAsSpent, RowsTrue
<1>2. rows'[p] = rows[p] \/ rows'[p] = [rows[p] EXCEPT !.spent = TRUE]
  BY <1>1 DEF MarkAllAsSpent
<1>3. QED BY <1>1, <1>2, MarkKeepsRow DEF TrueRow

LEMMA MarkOneIsMarkAll ==
  ASSUME NEW o
  PROVE  MarkUTXOAsSpent(rows, o) = MarkAllAsSpent(rows, {o})
BY DEF MarkUTXOAsSpent, MarkAllAsSpent

\* Coming back to the loop.
LEMMA ReturnTrue ==
  ASSUME Return, \A p \in DOMAIN rows' : TrueRow(p, rows'[p])
  PROVE  RowsTrue'
BY DEF Return, RowsTrue, NoTable, AtWork, TrueRow

LEMMA SkipTrue ==
  ASSUME IInv, RowsTrue, Skip
  PROVE  RowsTrue'
BY MarkOneIsMarkAll, MarkKeepsTrue, ReturnTrue DEF Skip, Write

LEMMA SelectTrue ==
  ASSUME RowsTrue, SelectUTXO
  PROVE  RowsTrue'
<1> USE DEF SelectUTXO, network, env, locals
<1>1. PICK h : \E o \in GetOldestMatureUTXO(rows, h) : cur' = [op |-> o, row |-> rows[o]]
  OBVIOUS
<1>2. PICK o \in DOMAIN rows : cur' = [op |-> o, row |-> rows[o]]
  BY <1>1, SelectsUnspent DEF Unspent
<1>3. QED BY <1>2 DEF RowsTrue

\* The correction of an amount keeps the flag and the height.
LEMMA VerifyTrue ==
  ASSUME IInv, RowsTrue, Verify
  PROVE  RowsTrue'
<1> USE DEF Verify, network, env, locals
<1> DEFINE fixed == [cur.row EXCEPT !.amount = LedgerAmount(cur.op)]
<1>1. cur \in Candidate /\ TrueRow(cur.op, cur.row)
  BY DEF IInv, CurFaithful, AtWork, RowsTrue
<1>2. TrueRow(cur.op, fixed)
  BY <1>1 DEF TrueRow, Candidate, Row
<1>3. CASE UNCHANGED <<rows, cur>>
  BY <1>3 DEF RowsTrue, AtWork, AfterVerify
<1>4. CASE cur' = [cur EXCEPT !.row = fixed] /\ Write(SaveUTXO(rows, cur.op, fixed))
  <2>1. cur'.op = cur.op /\ cur'.row = fixed
    BY <1>1, <1>4 DEF Candidate
  <2> HIDE DEF fixed
  <2>2. \A p \in DOMAIN rows' : TrueRow(p, rows'[p])
    BY <1>2, <1>4, SaveKeepsTrue DEF Write
  <2>3. QED BY <1>2, <2>1, <2>2 DEF RowsTrue, AfterVerify
<1>5. QED BY <1>3, <1>4

LEMMA ConsolidateTrue ==
  ASSUME IInv, RowsTrue, Consolidate
  PROVE  RowsTrue'
<1> USE DEF Consolidate, network, env, locals
<1>1. PICK S \in GetSmallUTXOs(rows, ConsolidationThreshold) :
        inputs' = [o \in S \cup {cur.op} |-> IF o \in S THEN rows[o] ELSE cur.row]
  BY DEF ToConsolidate
<1>2. S \subseteq DOMAIN rows
  BY SmallAreUnspent DEF Unspent
<1>3. TrueRow(cur.op, cur.row)
  BY DEF RowsTrue, AtWork, TooSmall
<1>4. \A o \in DOMAIN inputs' : TrueRow(o, inputs'[o])
  BY <1>1, <1>2, <1>3 DEF RowsTrue
<1>5. \A p \in DOMAIN rows' : TrueRow(p, rows'[p])
  <2>1. PICK marked : rows' = MarkAllAsSpent(rows, marked)
    OBVIOUS
  <2>2. QED BY <2>1, MarkKeepsTrue
<1>6. QED BY <1>3, <1>4, <1>5 DEF RowsTrue

LEMMA MergeFailedTrue ==
  ASSUME IInv, RowsTrue, MergeFailed
  PROVE  RowsTrue'
<1>1. PICK saved \in SUBSET DOMAIN inputs :
        rows' = [o \in DOMAIN rows \cup saved |->
                   IF o \in saved THEN [inputs[o] EXCEPT !.spent = FALSE] ELSE rows[o]]
  BY DEF MergeFailed, Written
<1>2. ASSUME NEW o \in DOMAIN rows' PROVE TrueRow(o, rows'[o])
  <2>1. CASE o \in saved
    BY <1>1, <2>1 DEF RowsTrue, TrueRow, IInv, InputsFaithful, Faithful, Row
  <2>2. CASE o \notin saved
    BY <1>1, <2>2 DEF RowsTrue
  <2>3. QED BY <2>1, <2>2
<1>3. QED BY <1>2, ReturnTrue DEF MergeFailed

LEMMA MergeSentTrue ==
  ASSUME IInv, RowsTrue, MergeSent
  PROVE  RowsTrue'
<1> USE DEF MergeSent, network, env
<1> DEFINE o == <<merge, 0>>
           row == [amount |-> mergeAmount[merge],
                   height |-> GetCurrentBlockHeight(rows) + 1,
                   spent |-> FALSE, coinbase |-> FALSE]
<1>1. Write(SaveUTXO(rows, o, row)) /\ cur' = [op |-> o, row |-> row]
  OBVIOUS
<1>2. TrueRow(o, row)
  BY BlastAssumption DEF TrueRow, IInv, MergeReady
<1> HIDE DEF o, row
<1>3. \A p \in DOMAIN rows' : TrueRow(p, rows'[p])
  BY <1>1, <1>2, SaveKeepsTrue DEF Write
<1>4. TrueRow(cur'.op, cur'.row)
  <2>1. cur'.op = o /\ cur'.row = row
    BY <1>1
  <2>2. QED BY <1>2, <2>1 DEF TrueRow
<1>5. QED BY <1>3, <1>4 DEF RowsTrue, NoTable, TrueRow

\* The change of a batch is never the output of a root.
LEMMA SettlesLater ==
  ASSUME IInv, pc = "settle", MostlyAccepted
  PROVE  cur.op[2] + reply.ok # 0
BY DEF MostlyAccepted, IInv, ControlOK, CurFaithful, AtWork, Faithful, Outpoints

LEMMA SettleAcceptedTrue ==
  ASSUME IInv, RowsTrue, SettleAccepted
  PROVE  RowsTrue'
<1> USE DEF SettleAccepted, network, env
<1>1. CASE UNCHANGED rows
  BY <1>1, ReturnTrue DEF RowsTrue
<1>2. CASE rows' = SaveChange
  <2>1. PICK o, row : rows' = SaveUTXO(rows, o, row) /\ ~row.coinbase /\ o[2] # 0
    BY <1>2, SettlesLater DEF SaveChange
  <2>2. TrueRow(o, row)
    BY <2>1 DEF TrueRow
  <2>3. QED BY <2>1, <2>2, SaveKeepsTrue, ReturnTrue
<1>3. QED BY <1>1, <1>2 DEF Write

LEMMA SettleRestoredTrue ==
  ASSUME IInv, RowsTrue, SettleRestored
  PROVE  RowsTrue'
<1> USE DEF SettleRestored, network, env
<1> DEFINE row == [cur.row EXCEPT !.spent = FALSE]
<1>1. cur \in Candidate /\ TrueRow(cur.op, cur.row)
  BY DEF IInv, CurFaithful, AtWork, RowsTrue
<1>2. TrueRow(cur.op, row)
  BY <1>1 DEF TrueRow, Candidate, Row
<1>3. Rebroadcast => cur'.op = cur.op /\ cur'.row = row
  BY <1>1 DEF Candidate
<1>4. rows' = SaveUTXO(rows, cur.op, row) \/ UNCHANGED rows
  BY DEF Write
<1> HIDE DEF row
<1>5. \A p \in DOMAIN rows' : TrueRow(p, rows'[p])
  BY <1>2, <1>4, SaveKeepsTrue
<1>6. CASE Rebroadcast
  BY <1>2, <1>3, <1>5, <1>6 DEF RowsTrue
<1>7. CASE ~Rebroadcast
  BY <1>5, <1>7, ReturnTrue
<1>8. QED BY <1>6, <1>7

\* Steps that write no row and take up nothing.
LEMMA SameTrue ==
  ASSUME RowsTrue, UNCHANGED <<rows, cur, inputs>>, pc' \in AtWork => pc \in AtWork
  PROVE  RowsTrue'
BY DEF RowsTrue

LEMMA MarkTrue ==
  ASSUME IInv, RowsTrue, MarkBeforeUse
  PROVE  RowsTrue'
<1> USE DEF MarkBeforeUse, network, env, locals
<1>1. \A p \in DOMAIN rows' : TrueRow(p, rows'[p])
  BY MarkOneIsMarkAll, MarkKeepsTrue DEF Write
<1>2. QED BY <1>1 DEF RowsTrue, AtWork

LEMMA MainTrue ==
  ASSUME ~FromTx, IInv, RowsTrue, Main
  PROVE  RowsTrue'
<1>1. CASE Start \/ Stop \/ RebuildBefore \/ Build \/ CheckIds \/ BroadcastMerge
           \/ Broadcast \/ RetryBatch
  BY <1>1, SameTrue DEF Start, Stop, RebuildBefore, Build, CheckIds, BroadcastMerge, Broadcast,
     RetryBatch, locals, AtWork
<1>2. CASE VerifyFails \/ RebuildFails \/ SkipDuplicate \/ ConsolidateFails \/ GiveUp
  BY <1>2, SkipTrue DEF VerifyFails, RebuildFails, SkipDuplicate, ConsolidateFails, GiveUp
<1>3. CASE SettleUnsaved
  BY <1>3, ReturnTrue DEF SettleUnsaved, RowsTrue
<1>4. QED BY <1>1, <1>2, <1>3, SelectTrue, MarkTrue, VerifyTrue, ConsolidateTrue,
             MergeFailedTrue, MergeSentTrue, SettleAcceptedTrue, SettleRestoredTrue
          DEF Main, StartFromRecorded, StartFromNetwork

LEMMA WorldTrue ==
  ASSUME RowsTrue, SyncCoinbase \/ NewBlock \/ Crash \/ UNCHANGED vars
  PROVE  RowsTrue'
<1>1. CASE SyncCoinbase
  <2> USE <1>1 DEF SyncCoinbase, network, locals
  <2>1. PICK r \in Owned : rows' = SaveUTXO(rows, <<r, 0>>, OwnedRow(r))
    OBVIOUS
  <2>2. TrueRow(<<r, 0>>, OwnedRow(r))
    BY DEF TrueRow, OwnedRow
  <2>3. \A p \in DOMAIN rows' : TrueRow(p, rows'[p])
    BY <2>1, <2>2, SaveKeepsTrue
  <2>4. QED BY <2>3 DEF RowsTrue
<1>2. CASE NewBlock
  BY <1>2 DEF NewBlock, locals, RowsTrue
<1>3. CASE Crash
  BY <1>3 DEF Crash, RowsTrue, AtWork, NoTable
<1>4. CASE UNCHANGED vars
  BY <1>4 DEF vars, RowsTrue
<1>5. QED BY <1>1, <1>2, <1>3, <1>4

LEMMA RowsTrueHolds == ~FromTx => (Spec => []RowsTrue)
<1> SUFFICES ASSUME ~FromTx PROVE Spec => []RowsTrue
  OBVIOUS
<1>1. Init => RowsTrue
  <2> SUFFICES ASSUME Init PROVE RowsTrue
    OBVIOUS
  <2>1. PICK S \in SUBSET {r \in Owned : OwnedHeight[r] <= FirstHeight} :
          rows = [o \in {<<r, 0>> : r \in S} |-> OwnedRow(o[1])]
    BY DEF Init
  <2>2. \A o \in DOMAIN rows : TrueRow(o, rows[o])
    BY <2>1 DEF TrueRow, OwnedRow
  <2>3. QED BY <2>2 DEF Init, RowsTrue, AtWork, NoTable
<1>2. IInv /\ RowsTrue /\ [Next]_vars => RowsTrue'
  BY MainTrue, WorldTrue DEF Next, WaitForUTXO, Stopped
<1>3. QED BY <1>1, <1>2, InvariantHolds, PTL DEF Spec

\* The step that chooses: a coinbase still immature at the best height is so at
\* the height the choice was made for, where it is a last resort.
LEMMA ChoiceIsLast ==
  ASSUME IInv, RowsTrue, [Next]_vars, pc = "select", pc' = "mark",
         cur'.row.coinbase, Immature(cur'.op)
  PROVE  \E h \in {height, GetCurrentBlockHeight(rows)} :
            \A o \in Unspent(rows) : rows[o].coinbase /\ ~Mature(rows[o], h)
<1>1. SelectUTXO
  BY DEF Next, Main, vars, Start, StartFromRecorded, StartFromNetwork, Stop, MarkBeforeUse,
     VerifyFails, Verify, RebuildBefore, RebuildFails, Build, CheckIds, SkipDuplicate,
     ConsolidateFails, Consolidate, TooSmall, BroadcastMerge, MergeFailed, MergeSent,
     Broadcast, SettleAccepted, SettleUnsaved, SettleRestored, GiveUp, RetryBatch,
     WaitForUTXO, SyncCoinbase, NewBlock, Crash, Stopped
<1>2. PICK h \in {height, GetCurrentBlockHeight(rows)} :
        \E o \in GetOldestMatureUTXO(rows, h) : cur' = [op |-> o, row |-> rows[o]]
  BY <1>1 DEF SelectUTXO
<1>3. PICK o \in GetOldestMatureUTXO(rows, h) : cur' = [op |-> o, row |-> rows[o]]
  BY <1>2
<1>4. o \in DOMAIN rows /\ rows[o].coinbase /\ Immature(o)
  BY <1>3, SelectsUnspent DEF Unspent
<1>5. h \in Nat /\ h <= height
  <2>1. Table(rows, height) /\ height \in Nat
    BY DEF Table, IInv, RowsFaithful, Faithful, NetworkOK
  <2>2. GetCurrentBlockHeight(rows) \in 0 .. height
    BY <2>1, CurrentHeightBounded
  <2>3. QED BY <1>2, <2>1, <2>2
<1>6. ~Mature(rows[o], h)
  <2>1. rows[o] \in Row /\ rows[o].height = OwnedHeight[o[1]]
    BY <1>4 DEF IInv, RowsFaithful, Faithful, RowsTrue, TrueRow
  <2>2. height < rows[o].height + CoinbaseMaturity
    BY <1>4, <2>1 DEF Immature
  <2>3. QED BY <1>5, <2>1, <2>2, StoreAssumption DEF Mature, Row, IInv, NetworkOK
<1>7. \A p \in DOMAIN rows : rows[p] \in Row
  BY DEF IInv, RowsFaithful, Faithful
<1>8. \A p \in Unspent(rows) : rows[p].coinbase /\ ~Mature(rows[p], h)
  BY <1>3, <1>4, <1>5, <1>6, <1>7, ImmatureChosenLast
<1>9. QED BY <1>2, <1>8

\* Whatever fails: a coinbase the node would refuse is selected only when, at
\* the height asked about, every unspent row is an immature coinbase (sqlite.go
\* 285).  With --from-tx the first output is the user's choice.
THEOREM LastResort == ~FromTx => (Spec => ImmatureOnlyAsLastResort)
<1> SUFFICES ASSUME ~FromTx PROVE Spec => ImmatureOnlyAsLastResort
  OBVIOUS
<1>1. IInv /\ RowsTrue /\ [Next]_vars
        => [pc = "select" /\ pc' = "mark" /\ cur'.row.coinbase /\ Immature(cur'.op) =>
              \E h \in {height, GetCurrentBlockHeight(rows)} :
                 \A o \in Unspent(rows) : rows[o].coinbase /\ ~Mature(rows[o], h)]_vars
  BY ChoiceIsLast
<1>2. Spec => []RowsTrue
  BY RowsTrueHolds
<1>3. QED BY <1>1, <1>2, InvariantHolds, PTL DEF Spec, ImmatureOnlyAsLastResort

-----------------------------------------------------------------------------
(* Nothing is forgotten *)

\* Nodes refuse, but the database takes every write, answers arrive, batches are
\* taken whole, nothing is looked up in vain and the process does not die.
Reliable ==
    /\ Faults \cap {"partial", "orphan", "lost", "unverified", "busy"} = {}
    /\ UseProp /\ ~Rebroadcast /\ ~FromTx
    /\ MaxCrash = 0
    /\ FutureLimit >= 1

\* The network accepts no output of more than all the money there is.
WithinSupply == \A r \in Roots : tip[r] >= 0 => RootAmount(r) <= MaxMoney

\* ValidateUTXO let the rows of the table in.
RowsAdmitted ==
    \A o \in DOMAIN rows : rows[o].height <= GetCurrentBlockHeight(rows) + FutureLimit

\* An output that must be kept: unspent, worth a transaction, and ours to know.
Due(o) ==
    /\ Live(o) /\ LedgerAmount(o) >= SmallestInput
    /\ o[2] > 0 \/ o[1] \in Merged \/ o \in DOMAIN rows

\* The attempt in progress will put it back, or its successor.
InHand(o) ==
    \/ pc \in {"verify", "build", "broadcast"} /\ o = cur.op
    \/ pc \in {"merge", "mergeSettle"} /\ o \in DOMAIN inputs
    \/ pc = "mergeSettle" /\ reply.ok = 1 /\ o = <<merge, 0>>
    \/ pc = "settle" /\ reply.ok = 0 /\ o = cur.op
    \/ pc = "settle" /\ reply.ok = batch /\ o = <<cur.op[1], cur.op[2] + batch>>

KeptOrInHand ==
    \A o \in Outpoints : Due(o) => o \in Unspent(rows) \/ InHand(o)

\* ValidateUTXO would let the row in again.
Savable(o, row) ==
    /\ row.amount = 0 => o \in DataOutputs \/ LedgerAmount(o) < SmallestInput
    /\ row.height <= GetCurrentBlockHeight(rows) + FutureLimit

AllSavable ==
    /\ \A o \in DOMAIN rows : Savable(o, rows[o])
    /\ \A o \in DOMAIN inputs : Savable(o, inputs[o])
    /\ pc \in AtWork => Savable(cur.op, cur.row)

AnswersKnown ==
    /\ pc \notin {"rebuild", "checkids", "retry"}
    /\ pc = "settle" /\ reply.ok = 0 => reply.verdict \in {"immature", "failed"}
    /\ pc = "mergeSettle" => reply.ok \in {0, 1}
    /\ pc \in {"merge", "mergeSettle"} => mergeOf[merge] = DOMAIN inputs

\* Nothing is chained to an output of a block still to come.
ChainsMined == \A r \in Roots : tip[r] > 0 => Mined(r)

KeepInv == KeptOrInHand /\ AllSavable /\ AnswersKnown /\ ChainsMined

-----------------------------------------------------------------------------
\* What the network has accepted keeps its amount.
LEMMA LedgerKept ==
  ASSUME IInv, [Next]_vars, NEW o \in Outpoints, Exists(o)'
  PROVE  LedgerAmount(o)' = LedgerAmount(o)
<1>1. CASE UNCHANGED mergeAmount
  BY <1>1 DEF LedgerAmount, RootAmount
<1>2. CASE Consolidate
  BY <1>2 DEF Consolidate, Outpoints, Exists, LedgerAmount, RootAmount, IInv, NetworkOK, Roots
<1>3. UNCHANGED mergeAmount \/ Consolidate
  BY DEF Next, Main, vars, network, Start, StartFromRecorded, StartFromNetwork, Stop,
     SelectUTXO, MarkBeforeUse, VerifyFails, Verify, RebuildBefore, RebuildFails, Build,
     CheckIds, SkipDuplicate, ConsolidateFails, BroadcastMerge, MergeFailed, MergeSent,
     Broadcast, SettleAccepted, SettleUnsaved, SettleRestored, GiveUp, RetryBatch,
     WaitForUTXO, SyncCoinbase, NewBlock, Crash, Stopped
<1>4. QED BY <1>1, <1>2, <1>3

\* No row is ever deleted.
LEMMA RowsRemain ==
  ASSUME [Next]_vars
  PROVE  DOMAIN rows \subseteq DOMAIN rows'
<1>1. \A o, row : DOMAIN rows \subseteq DOMAIN SaveUTXO(rows, o, row)
  BY SaveWritesOneRow
<1>2. \A o : DOMAIN MarkUTXOAsSpent(rows, o) = DOMAIN rows
  BY DEF MarkUTXOAsSpent
<1>3. \A S : DOMAIN MarkAllAsSpent(rows, S) = DOMAIN rows
  BY DEF MarkAllAsSpent
<1>4. CASE UNCHANGED rows
  BY <1>4
<1>5. CASE \E o, row : rows' = SaveUTXO(rows, o, row)
  BY <1>1, <1>5
<1>6. CASE \E o : rows' = MarkUTXOAsSpent(rows, o)
  BY <1>2, <1>6
<1>7. CASE \E S : rows' = MarkAllAsSpent(rows, S)
  BY <1>3, <1>7
<1>8. CASE MergeFailed
  BY <1>8 DEF MergeFailed
<1>9. CASE StartFromNetwork
  BY <1>4, <1>5, <1>9 DEF StartFromNetwork, Write
<1>10. CASE Verify \/ SettleAccepted \/ SettleRestored \/ MergeSent \/ SyncCoinbase
  BY <1>4, <1>5, <1>10 DEF Verify, SettleAccepted, SaveChange, SettleRestored, MergeSent,
     SyncCoinbase, Write
<1>11. CASE VerifyFails \/ RebuildFails \/ SkipDuplicate \/ ConsolidateFails \/ GiveUp
            \/ MarkBeforeUse
  BY <1>4, <1>6, <1>11 DEF VerifyFails, RebuildFails, SkipDuplicate, ConsolidateFails, GiveUp,
     MarkBeforeUse, Skip, Write
<1>12. CASE Consolidate
  BY <1>7, <1>12 DEF Consolidate
<1>13. QED
  BY <1>4, <1>8, <1>9, <1>10, <1>11, <1>12
     DEF Next, Main, vars, Start, StartFromRecorded, Stop, SelectUTXO, RebuildBefore, Build,
     CheckIds, BroadcastMerge, Broadcast, SettleUnsaved, RetryBatch, WaitForUTXO, NewBlock,
     Crash, Stopped

\* The height the table stands for never falls: a coinbase row is only ever
\* replaced by a row of the same coinbase.
LEMMA HeightNeverFalls ==
  ASSUME IInv, IInv', RowsTrue, RowsTrue', DOMAIN rows \subseteq DOMAIN rows'
  PROVE  /\ GetCurrentBlockHeight(rows) \in Nat /\ GetCurrentBlockHeight(rows)' \in Nat
         /\ GetCurrentBlockHeight(rows) <= GetCurrentBlockHeight(rows)'
<1> DEFINE H == CoinbaseHeights(rows)
           K == CoinbaseHeights(rows')
<1>1. Table(rows, height) /\ height \in Nat /\ Table(rows', height') /\ height' \in Nat
  BY DEF Table, IInv, RowsFaithful, Faithful, NetworkOK
<1>2. GetCurrentBlockHeight(rows) \in 0 .. height /\ GetCurrentBlockHeight(rows') \in 0 .. height'
  BY <1>1, CurrentHeightBounded
<1>3. H \subseteq K
  <2>1. ASSUME NEW p \in DOMAIN rows, rows[p].coinbase
        PROVE  p \in DOMAIN rows' /\ rows'[p].coinbase /\ rows'[p].height = rows[p].height
    BY <2>1 DEF RowsTrue, TrueRow
  <2>2. QED BY <2>1 DEF CoinbaseHeights
<1>4. K \subseteq 0 .. height'
  <2>1. ASSUME NEW p \in DOMAIN rows', rows'[p].coinbase PROVE rows'[p].height \in 0 .. height'
    BY <1>1, <2>1 DEF Table, Row
  <2>2. QED BY <2>1 DEF CoinbaseHeights
<1>5. CASE H = {}
  BY <1>1, <1>2, <1>5 DEF GetCurrentBlockHeight
<1>6. CASE H # {}
  <2> HIDE DEF H, K
  <2>1. K # {} /\ H \subseteq 0 .. height'
    BY <1>3, <1>4, <1>6
  <2>2. Max(H) \in H
    BY <1>1, <1>6, <2>1, MaxOfBounded
  <2>3. \A y \in K : Max(K) >= y
    BY <1>1, <1>4, <2>1, MaxOfBounded
  <2>4. GetCurrentBlockHeight(rows) = Max(H) /\ GetCurrentBlockHeight(rows') = Max(K)
    BY <1>6, <2>1 DEF GetCurrentBlockHeight, H, K
  <2>5. QED BY <1>1, <1>2, <1>3, <2>2, <2>3, <2>4
<1>7. QED BY <1>5, <1>6

LEMMA CurrentHeightNatural ==
  ASSUME IInv
  PROVE  GetCurrentBlockHeight(rows) \in Nat
<1>1. Table(rows, height)
  BY DEF Table, IInv, RowsFaithful, Faithful
<1>2. QED BY <1>1, CurrentHeightBounded DEF IInv, NetworkOK

\* What could be written back can be written back later.
LEMMA SavableLater ==
  ASSUME IInv, RowsTrue, IInv', RowsTrue', [Next]_vars,
         NEW o, NEW row, Faithful(o, row)', Savable(o, row)
  PROVE  Savable(o, row)'
<1>1. LedgerAmount(o)' = LedgerAmount(o)
  BY LedgerKept DEF Faithful
<1>2. /\ GetCurrentBlockHeight(rows) \in Nat /\ GetCurrentBlockHeight(rows)' \in Nat
      /\ GetCurrentBlockHeight(rows) <= GetCurrentBlockHeight(rows)'
  BY RowsRemain, HeightNeverFalls
<1>3. row.height \in Nat
  BY DEF Faithful, Row
<1>4. QED BY <1>1, <1>2, <1>3, StoreAssumption DEF Savable

\* Whatever a step writes to the table could be written before it.
LEMMA WritesSavable ==
  ASSUME Reliable, IInv, KeepInv, [Next]_vars, NEW o \in DOMAIN rows'
  PROVE  Savable(o, rows'[o])
<1>1. CASE o \in DOMAIN rows /\ rows'[o] = rows[o]
  BY <1>1 DEF KeepInv, AllSavable
<1>2. CASE o \in DOMAIN rows /\ rows'[o] = [rows[o] EXCEPT !.spent = TRUE]
  <2>1. rows[o] \in Row /\ Savable(o, rows[o])
    BY <1>2 DEF IInv, RowsFaithful, Faithful, KeepInv, AllSavable
  <2>2. QED BY <1>2, <2>1, MarkKeepsRow DEF Savable
<1>3. ASSUME NEW p, NEW row, rows' = SaveUTXO(rows, p, row)
      PROVE  Savable(o, rows'[o])
  <2>1. CASE ValidateUTXO(rows, p, row) /\ o = p /\ rows'[o] = row
    BY <2>1 DEF ValidateUTXO, Savable
  <2>2. \/ ValidateUTXO(rows, p, row) /\ o = p /\ rows'[o] = row
        \/ o \in DOMAIN rows /\ rows'[o] = rows[o]
    BY <1>3 DEF SaveUTXO, Put
  <2>3. QED BY <1>1, <2>1, <2>2
<1>4. CASE MergeFailed
  <2>1. CASE o \in DOMAIN inputs /\ rows'[o] = [inputs[o] EXCEPT !.spent = FALSE]
    <3>1. inputs[o] \in Row /\ Savable(o, inputs[o])
      BY <2>1 DEF IInv, InputsFaithful, Faithful, KeepInv, AllSavable
    <3>2. rows'[o].amount = inputs[o].amount /\ rows'[o].height = inputs[o].height
      BY <2>1, <3>1 DEF Row
    <3>3. QED BY <3>1, <3>2 DEF Savable
  <2>2. CASE o \in DOMAIN rows /\ rows'[o] = rows[o]
    BY <1>1, <2>2
  <2>3. QED BY <1>4, <2>1, <2>2 DEF MergeFailed, Written, Reliable
<1>5. CASE \E p : rows' = MarkUTXOAsSpent(rows, p)
  BY <1>1, <1>2, <1>5 DEF MarkUTXOAsSpent
<1>6. CASE Consolidate
  BY <1>1, <1>2, <1>6 DEF Consolidate, MarkAllAsSpent
<1>7. CASE UNCHANGED rows
  BY <1>1, <1>7
<1>8. CASE Verify \/ SettleAccepted \/ SettleRestored \/ MergeSent \/ SyncCoinbase
  BY <1>3, <1>7, <1>8 DEF Verify, SettleAccepted, SaveChange, SettleRestored, MergeSent,
     SyncCoinbase, Write
<1>9. CASE VerifyFails \/ RebuildFails \/ SkipDuplicate \/ ConsolidateFails \/ GiveUp
           \/ MarkBeforeUse
  BY <1>5, <1>7, <1>9 DEF VerifyFails, RebuildFails, SkipDuplicate, ConsolidateFails, GiveUp,
     MarkBeforeUse, Skip, Write
<1>10. CASE StartFromNetwork
  BY <1>3, <1>7, <1>10 DEF StartFromNetwork, Write
<1>11. QED
  BY <1>4, <1>6, <1>7, <1>8, <1>9, <1>10
     DEF Next, Main, vars, Start, StartFromRecorded, Stop, SelectUTXO, RebuildBefore, Build,
     CheckIds, BroadcastMerge, Broadcast, SettleUnsaved, RetryBatch, WaitForUTXO, NewBlock,
     Crash, Stopped

\* The output worked on after a step is the one before it, or was read from the
\* table, or is the consolidation just sent.
LEMMA CurSavable ==
  ASSUME Reliable, IInv, KeepInv, [Next]_vars, pc' \in AtWork
  PROVE  Savable(cur'.op, cur'.row)
<1>1. CASE pc \in AtWork /\ UNCHANGED cur
  BY <1>1 DEF KeepInv, AllSavable
<1>2. CASE SelectUTXO
  <2>1. PICK h : \E o \in GetOldestMatureUTXO(rows, h) : cur' = [op |-> o, row |-> rows[o]]
    BY <1>2 DEF SelectUTXO
  <2>2. PICK o \in DOMAIN rows : cur' = [op |-> o, row |-> rows[o]]
    BY <2>1, SelectsUnspent DEF Unspent
  <2>3. cur'.op = o /\ cur'.row = rows[o]
    BY <2>2
  <2>4. QED BY <2>3 DEF KeepInv, AllSavable
<1>3. CASE Verify
  <2> DEFINE fixed == [cur.row EXCEPT !.amount = LedgerAmount(cur.op)]
  <2>1. cur \in Candidate /\ Savable(cur.op, cur.row) /\ pc \in AtWork
    BY <1>3 DEF Verify, AtWork, IInv, CurFaithful, KeepInv, AllSavable
  <2>2. CASE cur' = [cur EXCEPT !.row = fixed]
    <3>1. cur'.op = cur.op /\ cur'.row.amount = LedgerAmount(cur.op)
          /\ cur'.row.height = cur.row.height
      BY <2>1, <2>2 DEF Candidate, Row
    <3>2. QED BY <2>1, <3>1 DEF Savable
  <2>3. QED BY <1>1, <1>3, <2>1, <2>2 DEF Verify
<1>4. CASE MergeSent
  <2>1. /\ cur'.row.amount = mergeAmount[merge]
        /\ cur'.row.height = GetCurrentBlockHeight(rows) + 1
    BY <1>4 DEF MergeSent
  <2>2. mergeAmount[merge] >= MinConsolidationOutput
    BY <1>4 DEF MergeSent, IInv, MergeReady, ChainsPaid
  <2>3. QED BY <2>1, <2>2, CurrentHeightNatural, StoreAssumption DEF Savable, Reliable
<1>5. CASE Return
  BY <1>5 DEF Return, AtWork
<1>6. QED
  BY <1>1, <1>2, <1>3, <1>4, <1>5
     DEF Next, Main, vars, env, locals, AtWork, Reliable, Start, StartFromRecorded,
     StartFromNetwork, Stop, MarkBeforeUse, VerifyFails, RebuildBefore, RebuildFails, Build,
     CheckIds, SkipDuplicate, ConsolidateFails, Consolidate, TooSmall, BroadcastMerge,
     MergeFailed, Broadcast, SettleAccepted, SettleUnsaved, SettleRestored, GiveUp,
     RetryBatch, WaitForUTXO, SyncCoinbase, NewBlock, Crash, Stopped, Skip

\* What a consolidation reads.
LEMMA InputsSavable ==
  ASSUME Reliable, IInv, KeepInv, [Next]_vars, NEW o \in DOMAIN inputs'
  PROVE  Savable(o, inputs'[o])
<1>1. CASE UNCHANGED inputs
  BY <1>1 DEF KeepInv, AllSavable
<1>2. CASE inputs' = NoTable
  BY <1>2 DEF NoTable
<1>3. CASE Consolidate
  <2>1. PICK S \in GetSmallUTXOs(rows, ConsolidationThreshold) :
          inputs' = [p \in S \cup {cur.op} |-> IF p \in S THEN rows[p] ELSE cur.row]
    BY <1>3 DEF Consolidate, ToConsolidate
  <2>2. S \subseteq DOMAIN rows
    BY SmallAreUnspent DEF Unspent
  <2>3. \/ o \in DOMAIN rows /\ inputs'[o] = rows[o]
        \/ o = cur.op /\ inputs'[o] = cur.row
    BY <2>1, <2>2
  <2>4. pc \in AtWork
    BY <1>3 DEF Consolidate, TooSmall, AtWork
  <2>5. QED BY <2>3, <2>4 DEF KeepInv, AllSavable
<1>4. QED
  BY <1>1, <1>2, <1>3
     DEF Next, Main, vars, env, locals, AtWork, Reliable, Start, StartFromRecorded,
     StartFromNetwork, Stop, SelectUTXO, MarkBeforeUse, VerifyFails, Verify, RebuildBefore,
     RebuildFails, Build, CheckIds, SkipDuplicate, ConsolidateFails, BroadcastMerge,
     MergeFailed, MergeSent, Broadcast, SettleAccepted, SettleUnsaved, SettleRestored, GiveUp,
     RetryBatch, WaitForUTXO, SyncCoinbase, NewBlock, Crash, Stopped, Skip, Return

LEMMA SavableStep ==
  ASSUME Reliable, IInv, RowsTrue, KeepInv, IInv', RowsTrue', [Next]_vars
  PROVE  AllSavable'
<1>1. ASSUME NEW o \in DOMAIN rows' PROVE Savable(o, rows[o])'
  <2>1. PICK row : row = rows'[o]
    OBVIOUS
  <2>2. Faithful(o, row)' /\ Savable(o, row)
    BY <2>1, WritesSavable DEF IInv, RowsFaithful
  <2>3. Savable(o, row)'
    BY <2>2, SavableLater
  <2>4. QED BY <2>1, <2>3 DEF Savable
<1>2. ASSUME NEW o \in DOMAIN inputs' PROVE Savable(o, inputs[o])'
  <2>1. PICK row : row = inputs'[o]
    OBVIOUS
  <2>2. Faithful(o, row)' /\ Savable(o, row)
    BY <2>1, InputsSavable DEF IInv, InputsFaithful
  <2>3. Savable(o, row)'
    BY <2>2, SavableLater
  <2>4. QED BY <2>1, <2>3 DEF Savable
<1>3. ASSUME pc' \in AtWork PROVE Savable(cur.op, cur.row)'
  <2>1. PICK o, row : o = cur'.op /\ row = cur'.row
    OBVIOUS
  <2>2. Faithful(o, row)' /\ Savable(o, row)
    BY <1>3, <2>1, CurSavable DEF IInv, CurFaithful
  <2>3. Savable(o, row)'
    BY <2>2, SavableLater
  <2>4. QED BY <2>1, <2>3 DEF Savable
<1>4. QED BY <1>1, <1>2, <1>3 DEF AllSavable

-----------------------------------------------------------------------------
\* An output that is due and whose row could be written is written.
LEMMA SavableSaves ==
  ASSUME IInv, WithinSupply, NEW o, NEW row, Faithful(o, row), Savable(o, row),
         LedgerAmount(o) >= SmallestInput,
         NEW new, new.amount = row.amount, new.height = row.height
  PROVE  ValidateUTXO(rows, o, new)
<1>1. PICK r, k : o = <<r, k>> /\ r \in Roots /\ k \in Nat
  BY DEF Faithful, Outpoints
<1>2. tip[r] >= 0 /\ RootAmount(r) \in Nat
  BY <1>1, BlastAssumption DEF Faithful, Exists, IInv, NetworkOK, RootAmount, Roots
<1>3. RootAmount(r) <= MaxMoney
  BY <1>1, <1>2 DEF WithinSupply
<1>4. row.amount <= MaxMoney
  BY <1>1, <1>2, <1>3, StoreAssumption DEF Faithful, LedgerAmount, Row
<1>5. LedgerAmount(o) \in Int
  BY <1>1, <1>2 DEF LedgerAmount
<1>6. QED BY <1>4, <1>5 DEF ValidateUTXO, Savable

\* While the network stands still, only a new row makes an output due.
LEMMA StillDue ==
  ASSUME UNCHANGED <<network, height>>, NEW o, Due(o)'
  PROVE  Due(o) \/ o \in DOMAIN rows' \ DOMAIN rows
BY DEF Due, Live, Exists, Mined, Consumed, LedgerAmount, RootAmount, network

\* Steps that leave the table, and the attempt, where they were.
LEMMA SameKept ==
  ASSUME KeepInv, UNCHANGED <<rows, network, height, cur, inputs>>,
         \/ pc \in {"start", "select"}
         \/ pc = "build" /\ pc' = "broadcast"
  PROVE  KeptOrInHand'
BY StillDue DEF KeepInv, KeptOrInHand, InHand, Unspent

LEMMA SelectKept ==
  ASSUME KeepInv, SelectUTXO
  PROVE  KeptOrInHand'
BY StillDue DEF KeepInv, KeptOrInHand, InHand, Unspent, SelectUTXO, env

LEMMA MarkKept ==
  ASSUME Reliable, KeepInv, MarkBeforeUse
  PROVE  KeptOrInHand'
<1> USE DEF MarkBeforeUse, env, locals
<1> SUFFICES ASSUME NEW o \in Outpoints, Due(o)'
             PROVE  o \in Unspent(rows)' \/ InHand(o)'
  BY DEF KeptOrInHand
<1>0. rows' = MarkUTXOAsSpent(rows, cur.op)
  BY DEF Write, Reliable
<1>1. DOMAIN rows' = DOMAIN rows
  BY <1>0 DEF MarkUTXOAsSpent
<1>2. Due(o)
  BY <1>1, StillDue
<1>3. o \in Unspent(rows)
  BY <1>2 DEF KeepInv, KeptOrInHand, InHand
<1>4. CASE o = cur.op
  BY <1>4 DEF InHand
<1>5. CASE o # cur.op
  BY <1>0, <1>1, <1>3, <1>5 DEF Unspent, MarkUTXOAsSpent
<1>6. QED BY <1>4, <1>5

LEMMA VerifyKept ==
  ASSUME Reliable, IInv, KeepInv, Verify
  PROVE  KeptOrInHand'
<1> USE DEF Verify, env, locals, AfterVerify, Reliable, Write
<1>0. cur'.op = cur.op
  BY DEF IInv, CurFaithful, AtWork, Candidate
<1> SUFFICES ASSUME NEW o \in Outpoints, Due(o)', o # cur.op
             PROVE  o \in Unspent(rows)'
  BY <1>0 DEF KeptOrInHand, InHand
<1>1. DOMAIN rows' \subseteq DOMAIN rows \cup {cur.op}
      /\ \A p \in DOMAIN rows \ {cur.op} : p \in DOMAIN rows' /\ rows'[p] = rows[p]
  BY SaveWritesOneRow
<1>2. Due(o)
  BY <1>1, StillDue
<1>3. o \in Unspent(rows)
  BY <1>2 DEF KeepInv, KeptOrInHand, InHand
<1>4. QED BY <1>1, <1>3 DEF Unspent

LEMMA SmallIsNotDue ==
  ASSUME IInv, TooSmall
  PROVE  ~ (LedgerAmount(cur.op) >= SmallestInput)
BY BlastAssumption DEF IInv, TooSmall, BuildsExactly, Signed, CurFaithful, AtWork, Faithful, Row

\* What is skipped is worth no transaction.
LEMMA SkipKept ==
  ASSUME Reliable, IInv, KeepInv, VerifyFails \/ ConsolidateFails
  PROVE  KeptOrInHand'
<1>1. ~VerifyFails
  BY DEF VerifyFails, Reliable, IInv, CurFaithful, AtWork, Faithful
<1> USE <1>1 DEF ConsolidateFails, env, Skip, Return
<1> SUFFICES ASSUME NEW o \in Outpoints, Due(o)'
             PROVE  o \in Unspent(rows)'
  BY DEF KeptOrInHand
<1>0. rows' = MarkUTXOAsSpent(rows, cur.op)
  BY DEF Write, Reliable
<1>2. DOMAIN rows' = DOMAIN rows
  BY <1>0 DEF MarkUTXOAsSpent
<1>3. Due(o)
  BY <1>2, StillDue
<1>4. ~ (LedgerAmount(cur.op) >= SmallestInput)
  BY SmallIsNotDue
<1>5. o # cur.op /\ o \in Unspent(rows)
  BY <1>3, <1>4 DEF Due, KeepInv, KeptOrInHand, InHand, TooSmall
<1>6. QED BY <1>0, <1>2, <1>5 DEF Unspent, MarkUTXOAsSpent

LEMMA ConsolidateKept ==
  ASSUME Reliable, IInv, KeepInv, Consolidate, [Next]_vars
  PROVE  KeptOrInHand'
<1> USE DEF Consolidate, env
<1> SUFFICES ASSUME NEW o \in Outpoints, Due(o)'
             PROVE  o \in Unspent(rows)' \/ InHand(o)'
  BY DEF KeptOrInHand
<1>1. DOMAIN rows' = DOMAIN rows /\ rows' = MarkAllAsSpent(rows, DOMAIN inputs')
  BY DEF MarkAllAsSpent, Written, Reliable
<1>2. PICK m \in Merged :
        /\ mergeOf[m] = DOMAIN inputs' \/ mergeOf[m] = {}
        /\ mergeOf' = [mergeOf EXCEPT ![m] = DOMAIN inputs']
  OBVIOUS
<1>3. \A n \in Merged : mergeOf[n] \subseteq mergeOf'[n]
  BY <1>2 DEF IInv, NetworkOK
<1>4. Consumed \subseteq Consumed'
  BY <1>3 DEF Consumed
<1>5. LedgerAmount(o)' = LedgerAmount(o)
  BY LedgerKept DEF Due, Live
<1>6. Due(o)
  BY <1>1, <1>4, <1>5 DEF Due, Live, Exists, Mined
<1>7. ~ (LedgerAmount(cur.op) >= SmallestInput)
  BY SmallIsNotDue
<1>8. o # cur.op /\ o \in Unspent(rows)
  BY <1>6, <1>7 DEF Due, KeepInv, KeptOrInHand, InHand, TooSmall
<1>9. QED BY <1>1, <1>8 DEF Unspent, MarkAllAsSpent, InHand

LEMMA BroadcastMergeKept ==
  ASSUME Reliable, IInv, KeepInv, BroadcastMerge
  PROVE  KeptOrInHand'
<1> USE DEF BroadcastMerge, env, locals
<1> SUFFICES ASSUME NEW o \in Outpoints, Due(o)'
             PROVE  o \in Unspent(rows)' \/ InHand(o)'
  BY DEF KeptOrInHand
<1>1. CASE UNCHANGED tip
  <2>1. Due(o)
    BY <1>1, StillDue DEF network
  <2>2. QED BY <2>1 DEF KeepInv, KeptOrInHand, InHand, Unspent
<1>2. CASE tip' = [tip EXCEPT ![merge] = 0] /\ tip[merge] = -1 /\ reply'.ok = 1
  <2>1. merge \in Roots /\ tip \in [Roots -> Nat \cup {-1}]
    BY DEF IInv, MergeReady, NetworkOK, Roots
  <2>2. CASE o[1] = merge
    BY <1>2, <2>1, <2>2 DEF Due, Live, Outpoints, InHand
  <2>3. CASE o[1] # merge
    <3>1. Consumed \subseteq Consumed'
      BY <1>2, <2>1 DEF Consumed, Roots
    <3>2. tip'[o[1]] = tip[o[1]]
      BY <1>2, <2>1, <2>3 DEF Outpoints
    <3>3. Due(o)
      BY <3>1, <3>2 DEF Due, Live, Exists, Mined, LedgerAmount, RootAmount
    <3>4. QED BY <3>3 DEF KeepInv, KeptOrInHand, InHand, Unspent
  <2>4. QED BY <2>2, <2>3
<1>3. QED BY <1>1, <1>2 DEF MergeAcceptable, Reliable

LEMMA MergeFailedKept ==
  ASSUME Reliable, IInv, KeepInv, WithinSupply, MergeFailed
  PROVE  KeptOrInHand'
<1> USE DEF MergeFailed, env, Return
<1> SUFFICES ASSUME NEW o \in Outpoints, Due(o)'
             PROVE  o \in Unspent(rows)'
  BY DEF KeptOrInHand
<1> DEFINE saved == {p \in DOMAIN inputs : ValidateUTXO(rows, p, inputs[p])}
<1>1. \A p \in saved : inputs[p] \in Row
  BY DEF IInv, InputsFaithful, Faithful
<1>2. rows' = [p \in DOMAIN rows \cup saved |->
                 IF p \in saved THEN [inputs[p] EXCEPT !.spent = FALSE] ELSE rows[p]]
  BY DEF Written, Reliable
<1>3. o \in saved \/ o \in Unspent(rows)
  <2>1. CASE Due(o)
    <3>1. CASE o \in DOMAIN inputs
      <4>1. Faithful(o, inputs[o]) /\ Savable(o, inputs[o])
        BY <3>1 DEF IInv, InputsFaithful, KeepInv, AllSavable
      <4>2. ValidateUTXO(rows, o, inputs[o])
        BY <2>1, <4>1, SavableSaves DEF Due
      <4>3. QED BY <3>1, <4>2
    <3>2. CASE o \notin DOMAIN inputs
      BY <2>1, <3>2 DEF KeepInv, KeptOrInHand, InHand
    <3>3. QED BY <3>1, <3>2
  <2>2. CASE o \in DOMAIN rows' \ DOMAIN rows
    BY <1>2, <2>2
  <2>3. QED BY <2>1, <2>2, StillDue
<1> HIDE DEF saved
<1>4. QED BY <1>1, <1>2, <1>3 DEF Unspent, Row

LEMMA MergeSentKept ==
  ASSUME Reliable, IInv, KeepInv, WithinSupply, MergeSent
  PROVE  KeptOrInHand'
<1> USE DEF MergeSent, env
<1> DEFINE c == <<merge, 0>>
           row == [amount |-> mergeAmount[merge],
                   height |-> GetCurrentBlockHeight(rows) + 1,
                   spent |-> FALSE, coinbase |-> FALSE]
<1>1. rows' = SaveUTXO(rows, c, row) /\ cur'.op = c /\ ~row.spent
  BY DEF Write, Reliable
<1>2. c \in Outpoints
  BY DEF Outpoints, Roots, IInv, MergeReady
<1> SUFFICES ASSUME NEW o \in Outpoints, Due(o)', o # c
             PROVE  o \in Unspent(rows)'
  BY <1>1 DEF KeptOrInHand, InHand
<1> HIDE DEF c, row
<1>3. Due(o)
  BY <1>1, SaveWritesOneRow, StillDue
<1>4. o \notin DOMAIN inputs
  BY <1>3 DEF Due, Live, Consumed, KeepInv, AnswersKnown, IInv, MergeReady
<1>5. o \in Unspent(rows)
  BY <1>3, <1>4 DEF KeepInv, KeptOrInHand, InHand, c
<1>6. QED BY <1>1, <1>5, SaveWritesOneRow DEF Unspent

LEMMA BroadcastKept ==
  ASSUME Reliable, IInv, KeepInv, Broadcast
  PROVE  KeptOrInHand' /\ (reply'.ok = 0 => reply'.verdict \in {"immature", "failed"})
<1> USE DEF Broadcast, env, locals
<1>1. PICK t \in Followed(cur.op, batch) :
        /\ tip' = [tip EXCEPT ![cur.op[1]] = t]
        /\ reply' \in Replies(cur.op, batch, t)
  OBVIOUS
<1>2. PICK r, k : cur.op = <<r, k>> /\ r \in Roots /\ k \in Nat
  BY DEF IInv, CurFaithful, AtWork, Faithful, Outpoints
<1>3. batch \in Nat /\ batch >= 1 /\ tip \in [Roots -> Nat \cup {-1}]
  BY BlastAssumption DEF IInv, Signed, Built, ControlOK, NetworkOK
<1>4. tip[r] \in Nat /\ k <= tip[r]
  BY <1>2 DEF IInv, CurFaithful, AtWork, Faithful, Exists, NetworkOK
<1>5. t = tip[r] \/ (t = k + batch /\ t > tip[r])
  BY <1>1, <1>2, <1>3, <1>4 DEF Followed, Reliable
<1>6. /\ t <= k + batch => reply'.ok = t - k
      /\ reply'.ok = 0 => reply'.verdict \in {"immature", "failed"}
  BY <1>1, <1>2, <1>3, <1>4, <1>5 DEF Replies, Verdicts, Reliable
<1>7. tip'[r] = t /\ \A q \in Roots \ {r} : tip'[q] = tip[q]
  BY <1>1, <1>2, <1>3
<1>8. Consumed' = Consumed
  <2>1. \A n \in Merged : tip'[n] >= 0 <=> tip[n] >= 0
    BY <1>2, <1>3, <1>4, <1>5, <1>7 DEF Roots
  <2>2. QED BY <2>1 DEF Consumed
<1>9. ASSUME NEW o \in Outpoints, Due(o)' PROVE o \in Unspent(rows)' \/ InHand(o)'
  <2>1. PICK q, j : o = <<q, j>> /\ q \in Roots /\ j \in Nat /\ j = tip'[q]
    BY <1>9 DEF Outpoints, Due, Live
  <2>2. CASE tip'[q] = tip[q]
    <3>1. Due(o)
      BY <1>8, <1>9, <2>1, <2>2 DEF Due, Live, Exists, Mined, LedgerAmount, RootAmount
    <3>2. o \in Unspent(rows) \/ o = cur.op
      BY <3>1 DEF KeepInv, KeptOrInHand, InHand
    <3>3. CASE o = cur.op
      <4>1. t = k /\ reply'.ok = 0
        BY <1>2, <1>3, <1>6, <1>7, <2>1, <2>2, <3>3
      <4>2. QED BY <3>3, <4>1 DEF InHand
    <3>4. QED BY <3>2, <3>3 DEF Unspent
  <2>3. CASE tip'[q] # tip[q]
    <3>1. q = r /\ j = k + batch /\ reply'.ok = batch
      BY <1>2, <1>3, <1>4, <1>5, <1>6, <1>7, <2>1, <2>3
    <3>2. QED BY <1>2, <2>1, <3>1 DEF InHand
  <2>4. QED BY <2>2, <2>3
<1>10. QED BY <1>6, <1>9 DEF KeptOrInHand

LEMMA SettleAcceptedKept ==
  ASSUME Reliable, IInv, KeepInv, WithinSupply, SettleAccepted
  PROVE  KeptOrInHand'
<1> USE DEF SettleAccepted, env, Return
<1> DEFINE c == <<cur.op[1], cur.op[2] + reply.ok>>
           row == [amount |-> cur.row.amount - ChainCost * batch,
                   height |-> GetCurrentBlockHeight(rows) + 1,
                   spent |-> FALSE, coinbase |-> FALSE]
<1>1. rows' = SaveUTXO(rows, c, row) /\ ~row.spent
  BY DEF Reliable, SaveChange, Write
<1>2. PICK r, k : cur.op = <<r, k>> /\ r \in Roots /\ k \in Nat
  BY DEF IInv, CurFaithful, AtWork, Faithful, Outpoints
<1>3. /\ batch \in Nat /\ batch >= 1 /\ reply.ok \in Nat /\ reply.ok > 0
      /\ cur.row.amount \in Nat /\ cur.row.amount = LedgerAmount(cur.op)
      /\ RootAmount(r) \in Nat
  BY <1>2, BlastAssumption DEF MostlyAccepted, IInv, ControlOK, Signed, Built, CurFaithful,
     AtWork, Faithful, Row, NetworkOK, RootAmount, Roots
<1> SUFFICES ASSUME NEW o \in Outpoints, Due(o)'
             PROVE  o \in Unspent(rows)'
  BY DEF KeptOrInHand
<1>4. CASE o \in Unspent(rows) \/ o \in DOMAIN rows' \ DOMAIN rows
  <2> HIDE DEF c, row
  <2>1. o \in DOMAIN rows'
    BY <1>1, <1>4, SaveWritesOneRow DEF Unspent
  <2>2. QED BY <1>1, <1>4, <2>1, SaveWritesOneRow DEF Unspent
<1>5. CASE Due(o) /\ reply.ok = batch /\ o = c
  <2>1. row.amount = LedgerAmount(o)
    BY <1>2, <1>3, <1>5 DEF LedgerAmount
  <2>2. LedgerAmount(o) >= SmallestInput /\ Exists(o)
    BY <1>5 DEF Due, Live
  <2>3. Faithful(o, row) /\ Savable(o, row)
    BY <1>3, <2>1, <2>2, CurrentHeightNatural, StoreAssumption
       DEF Faithful, Savable, Row, Reliable
  <2> HIDE DEF row
  <2>4. ValidateUTXO(rows, o, row)
    BY <2>2, <2>3, SavableSaves
  <2>5. QED BY <1>1, <1>5, <2>4 DEF SaveUTXO, Put, Unspent
<1>6. Due(o) => o \in Unspent(rows) \/ (reply.ok = batch /\ o = c)
  BY <1>3 DEF KeepInv, KeptOrInHand, InHand
<1>7. QED BY <1>4, <1>5, <1>6, StillDue

LEMMA SettleRestoredKept ==
  ASSUME Reliable, IInv, KeepInv, WithinSupply, SettleRestored
  PROVE  KeptOrInHand'
<1> USE DEF SettleRestored, env, Return
<1> DEFINE row == [cur.row EXCEPT !.spent = FALSE]
<1>1. /\ cur.row \in Row /\ Faithful(cur.op, cur.row) /\ Savable(cur.op, cur.row)
      /\ batch >= 1
  BY DEF IInv, CurFaithful, AtWork, Faithful, KeepInv, AllSavable, Signed, Built
<1>2. /\ rows' = SaveUTXO(rows, cur.op, row) /\ ~row.spent
      /\ row.amount = cur.row.amount /\ row.height = cur.row.height
  BY <1>1 DEF Row, Write, Reliable
<1> HIDE DEF row
<1> SUFFICES ASSUME NEW o \in Outpoints, Due(o)'
             PROVE  o \in Unspent(rows)'
  BY DEF KeptOrInHand, Reliable
<1>3. CASE o \in Unspent(rows) \/ o \in DOMAIN rows' \ DOMAIN rows
  <2>1. o \in DOMAIN rows'
    BY <1>2, <1>3, SaveWritesOneRow DEF Unspent
  <2>2. QED BY <1>2, <1>3, <2>1, SaveWritesOneRow DEF Unspent
<1>4. CASE Due(o) /\ o = cur.op
  <2>1. ValidateUTXO(rows, o, row)
    BY <1>1, <1>2, <1>4, SavableSaves DEF Due
  <2>2. QED BY <1>2, <1>4, <2>1 DEF SaveUTXO, Put, Unspent
<1>5. Due(o) => o \in Unspent(rows) \/ o = cur.op
  BY <1>1 DEF KeepInv, KeptOrInHand, InHand
<1>6. QED BY <1>3, <1>4, <1>5, StillDue DEF Reliable

\* What is left spent had nothing accepted of it, or only what was known before.
LEMMA SettleUnsavedKept ==
  ASSUME Reliable, IInv, KeepInv, SettleUnsaved
  PROVE  KeptOrInHand'
<1> USE DEF SettleUnsaved, env, Return
<1>1. reply.ok \in Nat /\ reply.ok > 0 /\ batch \in Nat /\ reply.ok # batch
  BY BlastAssumption DEF KeepInv, AnswersKnown, MostlyAccepted, IInv, ControlOK
<1> SUFFICES ASSUME NEW o \in Outpoints, Due(o)'
             PROVE  o \in Unspent(rows)'
  BY DEF KeptOrInHand
<1>2. Due(o)
  BY StillDue
<1>3. QED BY <1>1, <1>2 DEF KeepInv, KeptOrInHand, InHand, Unspent

LEMMA SyncKept ==
  ASSUME KeepInv, SyncCoinbase
  PROVE  KeptOrInHand'
<1> USE DEF SyncCoinbase, locals
<1>1. PICK r \in Owned : rows' = SaveUTXO(rows, <<r, 0>>, OwnedRow(r))
  OBVIOUS
<1>2. ~OwnedRow(r).spent
  BY DEF OwnedRow
<1> SUFFICES ASSUME NEW o \in Outpoints, Due(o)'
             PROVE  o \in Unspent(rows)' \/ InHand(o)'
  BY DEF KeptOrInHand
<1>3. Due(o) \/ o \in DOMAIN rows' \ DOMAIN rows
  BY StillDue
<1>4. CASE Due(o) /\ InHand(o)
  BY <1>4 DEF InHand
<1>5. CASE o \in Unspent(rows) \/ o \in DOMAIN rows' \ DOMAIN rows
  <2>1. o \in DOMAIN rows'
    BY <1>1, <1>5, SaveWritesOneRow DEF Unspent
  <2>2. QED BY <1>1, <1>2, <1>5, <2>1, SaveWritesOneRow DEF Unspent
<1>6. QED BY <1>3, <1>4, <1>5 DEF KeepInv, KeptOrInHand

\* A block makes no output due: those it brings are not recorded yet.
LEMMA NewBlockKept ==
  ASSUME IInv, KeepInv, NewBlock
  PROVE  KeptOrInHand'
<1> USE DEF NewBlock, network, locals
<1> SUFFICES ASSUME NEW o \in Outpoints, Due(o)'
             PROVE  Due(o)
  BY DEF KeptOrInHand, KeepInv, InHand, Unspent
<1>1. PICK r, k : o = <<r, k>> /\ r \in Roots /\ k \in Nat /\ k = tip[r]
  BY DEF Outpoints, Due, Live
<1>2. CASE o \in DOMAIN rows
  BY <1>2 DEF IInv, RowsFaithful, Faithful, Due, Live, Exists, Consumed, LedgerAmount, RootAmount
<1>3. CASE k > 0
  BY <1>1, <1>3 DEF KeepInv, ChainsMined, Due, Live, Exists, Consumed, LedgerAmount, RootAmount
<1>4. CASE r \in Merged
  BY <1>1, <1>4, BlastAssumption DEF Due, Live, Exists, Mined, Consumed, LedgerAmount, RootAmount
<1>5. QED BY <1>1, <1>2, <1>3, <1>4 DEF Due

LEMMA StutterKept ==
  ASSUME KeepInv, UNCHANGED vars
  PROVE  KeptOrInHand'
BY DEF vars, KeepInv, KeptOrInHand, Due, InHand, Live, Exists, Mined, Consumed, LedgerAmount,
   RootAmount, Unspent

LEMMA KeptStep ==
  ASSUME Reliable, IInv, KeepInv, WithinSupply, [Next]_vars
  PROVE  KeptOrInHand'
<1>1. CASE Start \/ Stop \/ Build
  BY <1>1, SameKept DEF Start, Stop, Build, Reliable, env, locals
<1>2. ~StartFromRecorded /\ ~StartFromNetwork /\ ~RebuildBefore /\ ~RebuildFails /\ ~CheckIds
      /\ ~SkipDuplicate /\ ~GiveUp /\ ~RetryBatch
  BY DEF Reliable, StartFromRecorded, StartFromNetwork, KeepInv, AnswersKnown, RebuildBefore,
     RebuildFails, CheckIds, SkipDuplicate, GiveUp, RetryBatch
<1>3. ~Crash
  BY DEF Reliable, Crash, IInv, ControlOK
<1>4. QED
  BY <1>1, <1>2, <1>3, SelectKept, MarkKept, VerifyKept, SkipKept, ConsolidateKept,
     BroadcastMergeKept, MergeFailedKept, MergeSentKept, BroadcastKept, SettleAcceptedKept,
     SettleRestoredKept, SettleUnsavedKept, SyncKept, NewBlockKept, StutterKept
     DEF Next, Main, WaitForUTXO, Stopped

LEMMA AnswersStep ==
  ASSUME Reliable, IInv, KeepInv, [Next]_vars
  PROVE  AnswersKnown'
<1>1. CASE Broadcast
  BY <1>1, BroadcastKept DEF Broadcast, AnswersKnown
<1>2. CASE Consolidate
  BY <1>2 DEF Consolidate, AnswersKnown, IInv, NetworkOK
<1>3. CASE BroadcastMerge
  BY <1>3 DEF BroadcastMerge, KeepInv, AnswersKnown
<1>4. CASE pc' \in {"start", "select", "mark", "verify", "build", "broadcast", "stopped"}
  BY <1>4 DEF AnswersKnown
<1>5. CASE UNCHANGED <<pc, reply, merge, mergeOf, inputs>>
  BY <1>5 DEF KeepInv, AnswersKnown
<1>6. CASE Verify \/ Build \/ SettleRestored
  BY <1>4, <1>6 DEF Verify, AfterVerify, Build, SettleRestored, Reliable, Return
<1>7. ~RebuildBefore /\ ~RebuildFails /\ ~CheckIds /\ ~SkipDuplicate /\ ~GiveUp /\ ~RetryBatch
  BY DEF KeepInv, AnswersKnown, RebuildBefore, RebuildFails, CheckIds, SkipDuplicate, GiveUp,
     RetryBatch
<1>8. CASE Start \/ StartFromRecorded \/ StartFromNetwork \/ Stop \/ SelectUTXO \/ MarkBeforeUse
           \/ MergeSent \/ Crash
  BY <1>4, <1>8 DEF Start, StartFromRecorded, StartFromNetwork, Stop, SelectUTXO,
     MarkBeforeUse, MergeSent, Crash
<1>9. CASE VerifyFails \/ ConsolidateFails \/ MergeFailed \/ SettleAccepted \/ SettleUnsaved
  BY <1>4, <1>9 DEF VerifyFails, ConsolidateFails, MergeFailed, SettleAccepted, SettleUnsaved,
     Skip, Return
<1>10. CASE SyncCoinbase \/ NewBlock \/ WaitForUTXO \/ Stopped \/ UNCHANGED vars
  BY <1>5, <1>10 DEF SyncCoinbase, NewBlock, WaitForUTXO, Stopped, vars, network, locals
<1>11. QED
  BY <1>1, <1>2, <1>3, <1>6, <1>7, <1>8, <1>9, <1>10 DEF Next, Main

LEMMA MinedStep ==
  ASSUME IInv, KeepInv, [Next]_vars
  PROVE  ChainsMined'
<1>1. CASE Broadcast
  <2>1. /\ cur.op[1] \in Roots /\ Mined(cur.op[1])
        /\ \A r \in Roots \ {cur.op[1]} : tip'[r] = tip[r]
    BY <1>1 DEF Broadcast, IInv, CurFaithful, AtWork, Faithful, Exists, Outpoints, NetworkOK
  <2>2. QED BY <1>1, <2>1 DEF Broadcast, env, KeepInv, ChainsMined, Mined
<1>2. CASE BroadcastMerge
  BY <1>2 DEF BroadcastMerge, env, KeepInv, ChainsMined, Mined, IInv, MergeReady, NetworkOK
<1>3. CASE NewBlock
  BY <1>3, BlastAssumption DEF NewBlock, network, KeepInv, ChainsMined, Mined, IInv, NetworkOK
<1>4. CASE UNCHANGED <<tip, height>>
  BY <1>4 DEF KeepInv, ChainsMined, Mined
<1>5. QED
  BY <1>1, <1>2, <1>3, <1>4
     DEF Next, Main, vars, network, env, Start, StartFromRecorded, StartFromNetwork, Stop,
     SelectUTXO, MarkBeforeUse, VerifyFails, Verify, RebuildBefore, RebuildFails, Build,
     CheckIds, SkipDuplicate, ConsolidateFails, Consolidate, MergeFailed, MergeSent,
     SettleAccepted, SettleUnsaved, SettleRestored, GiveUp, RetryBatch, WaitForUTXO,
     SyncCoinbase, Crash, Stopped

\* Any number of outputs, blocks, consolidations and refusals: as long as answers
\* arrive, the database takes every write and the process lives, every output of
\* ours that can pay for a transaction is on offer between attempts (blast.go
\* 255, 901, 930).  A write that fails is only logged (blast.go 940) and loses one.
THEOREM NothingIsLost ==
    Reliable => (Spec /\ RowsAdmitted /\ []WithinSupply => []NothingLost)
<1> SUFFICES ASSUME Reliable PROVE Spec /\ RowsAdmitted /\ []WithinSupply => []NothingLost
  OBVIOUS
<1>1. Init /\ RowsAdmitted => KeepInv
  <2> SUFFICES ASSUME Init, RowsAdmitted PROVE KeepInv
    OBVIOUS
  <2>1. PICK S \in SUBSET {r \in Owned : OwnedHeight[r] <= FirstHeight} :
          rows = [o \in {<<r, 0>> : r \in S} |-> OwnedRow(o[1])]
    BY DEF Init
  <2>2. \A o \in DOMAIN rows : \E r \in S : o = <<r, 0>> /\ rows[o] = OwnedRow(r)
    BY <2>1
  <2>3. \A r \in Roots : ~(tip[r] > 0) /\ (r \in Merged => tip[r] = -1)
    BY BlastAssumption DEF Init, Roots
  <2>4. KeptOrInHand
    <3> SUFFICES ASSUME NEW o \in Outpoints, Due(o) PROVE o \in Unspent(rows)
      BY DEF KeptOrInHand
    <3>1. o \in DOMAIN rows
      BY <2>3 DEF Due, Live, Outpoints
    <3>2. QED BY <2>2, <3>1 DEF Unspent, OwnedRow
  <2>5. AllSavable
    <3>1. ASSUME NEW o \in DOMAIN rows
          PROVE  rows[o].amount = 0 => LedgerAmount(o) < SmallestInput
      <4>1. PICK r \in S : o = <<r, 0>> /\ rows[o] = OwnedRow(r)
        BY <2>2
      <4>2. QED BY <4>1, BlastAssumption DEF OwnedRow, LedgerAmount, RootAmount
    <3>2. QED BY <3>1 DEF Init, AllSavable, Savable, RowsAdmitted, AtWork, NoTable
  <2>6. AnswersKnown /\ ChainsMined
    BY <2>3 DEF Init, AnswersKnown, ChainsMined
  <2>7. QED BY <2>4, <2>5, <2>6 DEF KeepInv
<1>2. IInv /\ RowsTrue /\ KeepInv /\ WithinSupply /\ IInv' /\ RowsTrue' /\ [Next]_vars => KeepInv'
  BY KeptStep, SavableStep, AnswersStep, MinedStep DEF KeepInv
<1>3. KeepInv /\ IInv => NothingLost
  <2> SUFFICES ASSUME KeepInv, IInv, pc = "select", NEW r \in Roots, tip[r] >= 0,
                      Due(<<r, tip[r]>>)
               PROVE  <<r, tip[r]>> \in Unspent(rows)
    BY DEF NothingLost, Due
  <2>1. <<r, tip[r]>> \in Outpoints
    BY DEF IInv, NetworkOK, Outpoints
  <2>2. QED BY <2>1 DEF KeepInv, KeptOrInHand, InHand
<1>4. ~FromTx
  BY DEF Reliable
<1>5. Spec => []RowsTrue
  BY <1>4, RowsTrueHolds
<1>6. QED BY <1>1, <1>2, <1>3, <1>5, InvariantHolds, PTL DEF Spec
=============================================================================
