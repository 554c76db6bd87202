------------------------------- MODULE Blast --------------------------------
(***************************************************************************)
(* The blast command: BlastManager of cmd/tx-blaster/blast.go over the     *)
(* utxos table (module UtxoStore), a network that accepts transactions,    *)
(* and the periodicSync goroutine that rescans recent blocks meanwhile.    *)
(*                                                                         *)
(* Transactions.  BuildSimpleTransaction is deterministic: the same input  *)
(* gives the same transaction, whose output 1 holds the input less         *)
(* ChainCost.  The chain hanging from an output is therefore fixed, and    *)
(* <<r, k>> names output 1 of the k-th transaction of the chain of root r; *)
(* <<r, 0>> is the root itself: an output of ours from a block or a split  *)
(* (Owned), or of a consolidation transaction (Merged).                    *)
(***************************************************************************)
EXTENDS UtxoStore, Functions

CONSTANTS
    Owned,            \* outputs paid to our key that the program did not chain
    OwnedAmount, OwnedHeight, OwnedCoinbase,   \* what the network knows of each
    Merged,           \* names for the consolidation transactions of a run
    TxPerBatch,       \* --tx-per-batch
    MaxIterations,    \* --iterations, 0 for no limit
    UseProp,          \* broadcast in batches over gRPC, or one by one over RPC
    Rebroadcast,      \* --rebroadcast with a transaction store
    FromTx,           \* --from-tx names the first UTXO
    Faults,           \* what may go wrong outside the program
    Word,             \* 2^64, the modulus of uint64 amounts
    FirstHeight, MaxHeight, MaxSync, MaxCrash, \* bounds of the environment
    NoUTXO, NoRoot

FaultKinds == {"refuse",      \* the node takes none of the new transactions
               "partial",     \* ... or only the first ones
               "orphan",      \* ... and reports the later ones as missing their parent
               "lost",        \* it takes them but the answer does not arrive
               "unverified",  \* GetTransaction fails
               "busy",        \* the database refuses a write
               "chain",       \* the parent chain cannot be checked or rebuilt
               "vanish"}      \* an accepted transaction is not found afterwards

Roots == Owned \cup Merged
Outpoints == Roots \X Nat

ASSUME BlastAssumption ==
    /\ OwnedAmount \in [Owned -> Nat]
    /\ OwnedHeight \in [Owned -> Nat]
    /\ OwnedCoinbase \in [Owned -> BOOLEAN]
    /\ Owned \cap Merged = {}
    /\ TxPerBatch \in Nat \ {0}
    /\ MaxIterations \in Nat
    /\ {UseProp, Rebroadcast, FromTx} \subseteq BOOLEAN
    /\ Faults \subseteq FaultKinds
    /\ Word \in Nat \ {0}
    /\ {FirstHeight, MaxHeight, MaxSync, MaxCrash} \subseteq Nat
    /\ NoRoot \notin Roots
    /\ NoUTXO \notin [op : Outpoints, row : Row]

VARIABLES
    rows,        \* the utxos table, which survives a crash
    (* the network *)
    height,      \* its best block
    tip,         \* tip[r]: how many chain transactions of r it accepted, -1 if r is unknown
    mergeOf,     \* mergeOf[m]: the inputs of consolidation m, {} if m was never built
    mergeAmount, \* mergeAmount[m]: the amount of its output
    (* the main goroutine *)
    pc, cur,     \* where it is, and the UTXO it works on
    batch,       \* how many chained transactions it built
    reply,       \* what the broadcast reported
    retry,       \* retryCount
    inputs,      \* the rows a consolidation spends, as they were read
    merge,       \* the consolidation being broadcast
    attempts,    \* totalAttempts
    (* counters that only bound the model *)
    syncs, crashes

network == <<tip, mergeOf, mergeAmount>>
locals  == <<batch, reply, retry, inputs, merge>>
env     == <<height, syncs, crashes>>
vars    == <<rows, height, tip, mergeOf, mergeAmount, pc, cur, batch, reply, retry,
             inputs, merge, attempts, syncs, crashes>>

-----------------------------------------------------------------------------
(* The network *)

ChainCost == 201        \* BuildSimpleTransaction: fee 200, and 1 satoshi of dust
SmallestInput == 203    \* it asks for an amount above fee + 2

RootAmount(r) == IF r \in Owned THEN OwnedAmount[r] ELSE mergeAmount[r]
LedgerAmount(o) == RootAmount(o[1]) - ChainCost * o[2]

Mined(r) == r \in Owned => OwnedHeight[r] <= height

\* The network has accepted the transaction with this output.
Exists(o) == o[2] <= tip[o[1]] /\ Mined(o[1])

Consumed == UNION {mergeOf[m] : m \in {n \in Merged : tip[n] >= 0}}

\* The output exists and no accepted transaction spends it.
Live(o) == Exists(o) /\ o[2] = tip[o[1]] /\ o \notin Consumed

Immature(o) == /\ o[1] \in Owned
               /\ OwnedCoinbase[o[1]]
               /\ o[2] = 0
               /\ height < OwnedHeight[o[1]] + CoinbaseMaturity

CanSpend(o) == Live(o) /\ o \notin DataOutputs /\ ~Immature(o)

\* How far the node may follow a chain of n transactions spending output o.
\* Over RPC nothing is sent after the first error, and a transaction the node
\* already has is one.
Followed(o, n) ==
    LET t == tip[o[1]]
        end == o[2] + n
    IN  IF t >= end \/ ~CanSpend(<<o[1], t>>) \/ (~UseProp /\ t > o[2]) THEN {t}
        ELSE {end} \cup (IF "refuse" \in Faults THEN {t} ELSE {})
                   \cup (IF "partial" \in Faults THEN t + 1 .. end - 1 ELSE {})

-----------------------------------------------------------------------------
(* The builder *)

\* A mistake: the amount left is not looked at.
BuildsBlindly(amount, n) == n = TxPerBatch

\* BuildManyTransactions stops at n or when the change is too small to go on.
BuildsExactly(amount, n) ==
    /\ n \in 0 .. TxPerBatch
    /\ n > 0 => amount - ChainCost * (n - 1) >= SmallestInput
    /\ n < TxPerBatch => amount - ChainCost * n < SmallestInput

\* CalculateConsolidationThreshold and BuildConsolidationTransaction; the
\* subtraction of the fee is in uint64.
ConsolidationThreshold == 10 + 148 + 34 * 2 + 546 * 2
ConsolidationFee(n) == 10 + 148 * n + 34 * 2
ConsolidationOutput(total, n) == (total - ConsolidationFee(n)) % Word
MinConsolidationOutput == 1000

Total(table) == MapThenSumSet(LAMBDA o : table[o].amount, DOMAIN table)

-----------------------------------------------------------------------------
NoTable == [o \in {} |-> NoUTXO]
NoReply == [ok |-> 0, verdict |-> "none"]

OwnedRow(r) == [amount |-> OwnedAmount[r], height |-> OwnedHeight[r],
                spent |-> FALSE, coinbase |-> OwnedCoinbase[r]]

\* The table holds what earlier scans and splits recorded.
Init ==
    /\ height = FirstHeight
    /\ \E S \in SUBSET {r \in Owned : OwnedHeight[r] <= FirstHeight} :
         rows = [o \in {<<r, 0>> : r \in S} |-> OwnedRow(o[1])]
    /\ tip = [r \in Roots |-> IF r \in Owned THEN 0 ELSE -1]
    /\ mergeOf = [m \in Merged |-> {}]
    /\ mergeAmount = [m \in Merged |-> 0]
    /\ pc = "start" /\ cur = NoUTXO
    /\ batch = 0 /\ reply = NoReply /\ retry = 0
    /\ inputs = NoTable /\ merge = NoRoot
    /\ attempts = 0 /\ syncs = 0 /\ crashes = 0

\* blastFromUTXO returns to the loop; its locals are gone.
Return ==
    /\ pc' = "select" /\ cur' = NoUTXO
    /\ batch' = 0 /\ reply' = NoReply /\ retry' = 0
    /\ inputs' = NoTable /\ merge' = NoRoot

\* The table after a write.  One the database refuses is at most logged.
Write(table) == \/ rows' = table
                \/ "busy" \in Faults /\ UNCHANGED rows

\* Of a row for each of S, written one after the other, those that get through.
Written(S) == IF "busy" \in Faults THEN SUBSET S ELSE {S}

Skip == Write(MarkUTXOAsSpent(rows, cur.op)) /\ Return

-----------------------------------------------------------------------------
(* Start, StartFromUTXO, continueBlasting *)

Start ==
    /\ pc = "start" /\ ~FromTx /\ pc' = "select"
    /\ UNCHANGED <<rows, network, cur, locals, attempts, env>>

\* The row is used whether or not it is spent.
StartFromRecorded ==
    /\ pc = "start" /\ FromTx /\ pc' = "mark"
    /\ \E o \in DOMAIN rows : cur' = [op |-> o, row |-> rows[o]]
    /\ UNCHANGED <<rows, network, locals, attempts, env>>

\* Height and coinbase flag are not known: 0 and FALSE are recorded.
StartFromNetwork ==
    /\ pc = "start" /\ FromTx /\ pc' = "mark"
    /\ \E r \in Roots : \E k \in 0 .. tip[r] :
         LET o == <<r, k>>
             row == [amount |-> LedgerAmount(o), height |-> 0, spent |-> FALSE,
                     coinbase |-> FALSE]
         IN  /\ o \notin DOMAIN rows /\ Exists(o)
             /\ cur' = [op |-> o, row |-> row]
             /\ Write(SaveUTXO(rows, o, row))
    /\ UNCHANGED <<network, locals, attempts, env>>

\* A mistake: off by one.
LimitPassed == MaxIterations > 0 /\ attempts > MaxIterations

LimitReached == MaxIterations > 0 /\ attempts >= MaxIterations

Stop ==
    /\ pc = "select" /\ LimitReached
    /\ pc' = "stopped"
    /\ UNCHANGED <<rows, network, cur, locals, attempts, env>>

\* The height comes from the node, or from the table when the node is silent.
SelectUTXO ==
    /\ pc = "select" /\ ~LimitReached
    /\ \E h \in {height, GetCurrentBlockHeight(rows)} :
         \E o \in GetOldestMatureUTXO(rows, h) : cur' = [op |-> o, row |-> rows[o]]
    /\ pc' = "mark"
    /\ UNCHANGED <<rows, network, locals, attempts, env>>

\* Nothing to spend: sleep and look again.
WaitForUTXO ==
    /\ pc = "select" /\ ~LimitReached /\ Unspent(rows) = {}
    /\ UNCHANGED vars

\* A mistake: the row is not marked.
UseUnmarked ==
    /\ pc = "mark" /\ pc' = "verify"
    /\ attempts' = attempts + 1
    /\ UNCHANGED <<rows, network, cur, locals, env>>

\* A mistake: the attempt is not counted.
MarkUncounted ==
    /\ pc = "mark" /\ pc' = "verify"
    /\ Write(MarkUTXOAsSpent(rows, cur.op))
    /\ UNCHANGED <<network, cur, locals, attempts, env>>

\* totalAttempts counts the attempt that follows.
MarkBeforeUse ==
    /\ pc = "mark" /\ pc' = "verify"
    /\ Write(MarkUTXOAsSpent(rows, cur.op))
    /\ attempts' = attempts + 1
    /\ UNCHANGED <<network, cur, locals, env>>

-----------------------------------------------------------------------------
(* blastFromUTXO *)

AfterVerify == IF Rebroadcast THEN "rebuild" ELSE "build"

VerifyFails ==
    /\ pc = "verify"
    /\ ~Exists(cur.op) \/ "unverified" \in Faults
    /\ Skip
    /\ UNCHANGED <<network, attempts, env>>

\* A mistake: the corrected amount is saved, the old one goes on being used.
VerifySavesOnly ==
    /\ pc = "verify" /\ Exists(cur.op) /\ pc' = AfterVerify
    /\ Write(SaveUTXO(rows, cur.op, [cur.row EXCEPT !.amount = LedgerAmount(cur.op)]))
    /\ UNCHANGED <<network, cur, locals, attempts, env>>

\* The amount is corrected from the node's answer; saving it writes the spent
\* flag the row was read with.
Verify ==
    /\ pc = "verify" /\ Exists(cur.op) /\ pc' = AfterVerify
    /\ LET amount == LedgerAmount(cur.op)
           fixed == [cur.row EXCEPT !.amount = amount]
       IN  IF cur.row.amount = amount THEN UNCHANGED <<rows, cur>>
           ELSE /\ cur' = [cur EXCEPT !.row = fixed]
                /\ Write(SaveUTXO(rows, cur.op, fixed))
    /\ UNCHANGED <<network, locals, attempts, env>>

\* checkAndRebuildParentChain before building: the parent exists, or it fails.
RebuildBefore ==
    /\ pc = "rebuild" /\ pc' = "build"
    /\ UNCHANGED <<rows, network, cur, locals, attempts, env>>

RebuildFails ==
    /\ pc = "rebuild" /\ "chain" \in Faults
    /\ Skip
    /\ UNCHANGED <<network, attempts, env>>

Build ==
    /\ pc = "build"
    /\ \E n \in 1 .. TxPerBatch : BuildsExactly(cur.row.amount, n) /\ batch' = n
    /\ pc' = IF Rebroadcast THEN "checkids" ELSE "broadcast"
    /\ UNCHANGED <<rows, network, cur, reply, retry, inputs, merge, attempts, env>>

\* Only the first three are looked up, and only with a rebuilder.
DuplicateFound == \E i \in 1 .. 3 : i <= batch /\ Exists(<<cur.op[1], cur.op[2] + i>>)

CheckIds ==
    /\ pc = "checkids"
    /\ DuplicateFound => "chain" \in Faults     \* an error counts as "does not exist"
    /\ pc' = "broadcast"
    /\ UNCHANGED <<rows, network, cur, locals, attempts, env>>

SkipDuplicate ==
    /\ pc = "checkids" /\ DuplicateFound
    /\ Skip
    /\ UNCHANGED <<network, attempts, env>>

-----------------------------------------------------------------------------
(* Consolidation, when the amount pays for no transaction *)

TooSmall == pc = "build" /\ BuildsExactly(cur.row.amount, 0)

ToConsolidate ==
    {[o \in S \cup {cur.op} |-> IF o \in S THEN rows[o] ELSE cur.row] :
        S \in GetSmallUTXOs(rows, ConsolidationThreshold)}

Worthwhile(table) ==
    /\ Cardinality(DOMAIN table) >= 2
    /\ ConsolidationOutput(Total(table), Cardinality(DOMAIN table))
         \in MinConsolidationOutput .. Word - 1

ConsolidateFails ==
    /\ TooSmall
    /\ \E table \in ToConsolidate : ~Worthwhile(table)
    /\ Skip
    /\ UNCHANGED <<network, attempts, env>>

\* The same inputs give the same transaction again.
Consolidate ==
    /\ TooSmall /\ pc' = "merge"
    /\ \E table \in ToConsolidate, m \in Merged :
         /\ Worthwhile(table)
         /\ \/ mergeOf[m] = DOMAIN table
            \/ mergeOf[m] = {} /\ \A n \in Merged : mergeOf[n] # DOMAIN table
         /\ inputs' = table /\ merge' = m
         /\ \E marked \in Written(DOMAIN table) : rows' = MarkAllAsSpent(rows, marked)
         /\ mergeOf' = [mergeOf EXCEPT ![m] = DOMAIN table]
         /\ mergeAmount' = [mergeAmount EXCEPT ![m] =
               IF tip[m] >= 0 THEN @
               ELSE ConsolidationOutput(Total(table), Cardinality(DOMAIN table))]
    /\ UNCHANGED <<tip, cur, batch, reply, retry, attempts, env>>

\* The node checks the signed input amounts and that nothing is created.
MergeAcceptable ==
    /\ tip[merge] = -1
    /\ \A o \in DOMAIN inputs : CanSpend(o) /\ inputs[o].amount = LedgerAmount(o)
    /\ mergeAmount[merge] <= Total(inputs)

\* A transaction the node already has is an error here, like any other.
BroadcastMerge ==
    /\ pc = "merge" /\ pc' = "mergeSettle"
    /\ \/ /\ MergeAcceptable
          /\ tip' = [tip EXCEPT ![merge] = 0]
          /\ \/ reply' = [ok |-> 1, verdict |-> "sent"]
             \/ "lost" \in Faults /\ reply' = [ok |-> 0, verdict |-> "failed"]
       \/ /\ ~MergeAcceptable \/ "refuse" \in Faults
          /\ reply' = [ok |-> 0, verdict |-> "failed"]
          /\ UNCHANGED tip
    /\ UNCHANGED <<rows, mergeOf, mergeAmount, cur, batch, retry, inputs, merge,
                   attempts, env>>

\* The rows read for the consolidation are written back as unspent.
MergeFailed ==
    /\ pc = "mergeSettle" /\ reply.ok = 0
    /\ \E saved \in Written({o \in DOMAIN inputs : ValidateUTXO(rows, o, inputs[o])}) :
         rows' = [o \in DOMAIN rows \cup saved |->
                    IF o \in saved THEN [inputs[o] EXCEPT !.spent = FALSE] ELSE rows[o]]
    /\ Return
    /\ UNCHANGED <<network, attempts, env>>

\* The recursive call: nobody marks the consolidated row.
MergeSent ==
    /\ pc = "mergeSettle" /\ reply.ok = 1
    /\ LET o == <<merge, 0>>
           row == [amount |-> mergeAmount[merge],
                   height |-> GetCurrentBlockHeight(rows) + 1,
                   spent |-> FALSE, coinbase |-> FALSE]
       IN  /\ Write(SaveUTXO(rows, o, row))
           /\ cur' = [op |-> o, row |-> row]
    /\ pc' = "verify" /\ attempts' = attempts + 1
    /\ reply' = NoReply /\ inputs' = NoTable /\ merge' = NoRoot
    /\ UNCHANGED <<network, batch, retry, env>>

-----------------------------------------------------------------------------
(* broadcastBatchWithRetries *)

\* What a batch of n that spends o, none of it accepted, may be blamed on.
\* "invalid" stands for validationFailed.
Verdicts(o, n) ==
    IF UseProp
    THEN IF Live(o) /\ Immature(o) THEN {"immature"}
         ELSE {"failed"} \cup (IF n > 1 /\ "orphan" \in Faults THEN {"invalid"} ELSE {})
    ELSE {"failed", "invalid"}

\* ok counts the transactions reported as accepted.  A batch reports those the
\* node already had as accepted too; over RPC the first of them is an error.
Replies(o, n, t) ==
    LET reached == (IF t < o[2] + n THEN t ELSE o[2] + n) - o[2]
        again == ~UseProp /\ tip[o[1]] > o[2]
        ok == IF again THEN 0 ELSE reached
        lost == IF UseProp THEN 0 ELSE reached - 1
    IN  (IF ok > 0 THEN {[ok |-> ok, verdict |-> "sent"]}
         ELSE [ok : {0}, verdict : Verdicts(o, n)])
        \cup
        (IF "lost" \in Faults /\ ok > 0
         THEN {[ok |-> lost, verdict |-> IF lost > 0 THEN "sent" ELSE "failed"]} ELSE {})

Broadcast ==
    /\ pc = "broadcast" /\ pc' = "settle"
    /\ \E t \in Followed(cur.op, batch) :
         /\ tip' = [tip EXCEPT ![cur.op[1]] = t]
         /\ reply' \in Replies(cur.op, batch, t)
    /\ UNCHANGED <<rows, mergeOf, mergeAmount, cur, batch, retry, inputs, merge,
                   attempts, env>>

MostlyAccepted == reply.ok > 0 /\ 100 * reply.ok >= 90 * batch

\* A mistake: the id is that of the last transaction built.
SaveLastBuilt ==
    SaveUTXO(rows, <<cur.op[1], cur.op[2] + batch>>,
             [amount |-> cur.row.amount - ChainCost * batch,
              height |-> GetCurrentBlockHeight(rows) + 1,
              spent |-> FALSE, coinbase |-> FALSE])

\* A mistake: the cost of the last transaction is not taken off.
SaveOneCostLess ==
    SaveUTXO(rows, <<cur.op[1], cur.op[2] + reply.ok>>,
             [amount |-> cur.row.amount - ChainCost * (batch - 1),
              height |-> GetCurrentBlockHeight(rows) + 1,
              spent |-> FALSE, coinbase |-> FALSE])

\* The id is that of the last success, the amount that of the last transaction.
SaveChange ==
    SaveUTXO(rows, <<cur.op[1], cur.op[2] + reply.ok>>,
             [amount |-> cur.row.amount - ChainCost * batch,
              height |-> GetCurrentBlockHeight(rows) + 1,
              spent |-> FALSE, coinbase |-> FALSE])

\* A mistake: the change is saved and the row that paid for it comes back.
SettleAcceptedUnmarks ==
    /\ pc = "settle" /\ MostlyAccepted
    /\ Write(Put(SaveChange, cur.op, [cur.row EXCEPT !.spent = FALSE]))
    /\ Return
    /\ UNCHANGED <<network, attempts, env>>

SettleAccepted ==
    /\ pc = "settle" /\ MostlyAccepted
    /\ \/ Write(SaveChange)
       \/ Rebroadcast /\ "vanish" \in Faults /\ UNCHANGED rows
    /\ Return
    /\ UNCHANGED <<network, attempts, env>>

\* Too few accepted, or a missing parent: the row stays spent.
SettleUnsaved ==
    /\ pc = "settle" /\ ~MostlyAccepted
    /\ reply.ok > 0 \/ reply.verdict = "invalid"
    /\ Return
    /\ UNCHANGED <<rows, network, attempts, env>>

\* A mistake: the row stays spent.
SettleForgets ==
    /\ pc = "settle" /\ reply.ok = 0 /\ reply.verdict \in {"immature", "failed"}
    /\ Return
    /\ UNCHANGED <<rows, network, attempts, env>>

\* Nothing accepted: restore the row, and retry when rebuilding is enabled.
SettleRestored ==
    /\ pc = "settle" /\ reply.ok = 0 /\ reply.verdict \in {"immature", "failed"}
    /\ Write(SaveUTXO(rows, cur.op, [cur.row EXCEPT !.spent = FALSE]))
    /\ IF Rebroadcast
       THEN /\ pc' = "retry" /\ reply' = NoReply
            /\ cur' = [cur EXCEPT !.row.spent = FALSE]
            /\ UNCHANGED <<batch, retry, inputs, merge>>
       ELSE Return
    /\ UNCHANGED <<network, attempts, env>>

MaxRetries == 3

GiveUp ==
    /\ pc = "retry"
    /\ retry >= MaxRetries \/ "chain" \in Faults
    /\ Skip
    /\ UNCHANGED <<network, attempts, env>>

\* A mistake: the retries are not counted.
RetryUncounted ==
    /\ pc = "retry" /\ pc' = "broadcast"
    /\ UNCHANGED <<rows, network, cur, locals, attempts, env>>

RetryBatch ==
    /\ pc = "retry" /\ retry < MaxRetries
    /\ retry' = retry + 1 /\ pc' = "broadcast"
    /\ UNCHANGED <<rows, network, cur, batch, reply, inputs, merge, attempts, env>>

-----------------------------------------------------------------------------
(* The rest of the world *)

SyncWindow == 10

\* periodicSync: processCoinbaseTransaction saves one recent coinbase as unspent.
\* On a chain shorter than the window the range is empty (the bound wraps).  A
\* save the database refuses is as if the sync had not come to that block.
SyncCoinbase ==
    /\ pc # "stopped" /\ syncs < MaxSync /\ syncs' = syncs + 1
    /\ height + 1 >= SyncWindow
    /\ \E r \in Owned :
         /\ OwnedCoinbase[r] /\ Mined(r) /\ height - OwnedHeight[r] < SyncWindow
         /\ rows' = SaveUTXO(rows, <<r, 0>>, OwnedRow(r))
    /\ UNCHANGED <<network, height, crashes, pc, cur, locals, attempts>>

NewBlock ==
    /\ height < MaxHeight /\ height' = height + 1
    /\ UNCHANGED <<rows, network, pc, cur, locals, attempts, syncs, crashes>>

\* The process dies and is started again: only the table is left.
Crash ==
    /\ pc \notin {"start", "stopped"} /\ crashes < MaxCrash /\ crashes' = crashes + 1
    /\ pc' = "start" /\ cur' = NoUTXO
    /\ batch' = 0 /\ reply' = NoReply /\ retry' = 0
    /\ inputs' = NoTable /\ merge' = NoRoot /\ attempts' = 0
    /\ UNCHANGED <<rows, network, height, syncs>>

Stopped == pc = "stopped" /\ UNCHANGED vars

-----------------------------------------------------------------------------
Main ==
    \/ Start \/ StartFromRecorded \/ StartFromNetwork
    \/ Stop \/ SelectUTXO \/ MarkBeforeUse
    \/ VerifyFails \/ Verify \/ RebuildBefore \/ RebuildFails
    \/ Build \/ CheckIds \/ SkipDuplicate
    \/ ConsolidateFails \/ Consolidate \/ BroadcastMerge \/ MergeFailed \/ MergeSent
    \/ Broadcast \/ SettleAccepted \/ SettleUnsaved \/ SettleRestored
    \/ GiveUp \/ RetryBatch

Next == Main \/ WaitForUTXO \/ SyncCoinbase \/ NewBlock \/ Crash \/ Stopped

Spec == Init /\ [][Next]_vars

\* The main goroutine is never parked for good.  Over RPC a call times out after
\* 30 s (broadcaster.go); over gRPC nothing bounds it, and that it returns is an
\* assumption about the node.
FairSpec == Spec /\ WF_vars(Main)

-----------------------------------------------------------------------------
(* How the states of Blast read as states of OutputLife *)

HeldOutputs == IF cur = NoUTXO THEN {} ELSE {cur.op} \cup DOMAIN inputs

LifeOfRows ==
    [o \in DOMAIN rows |-> IF o \in HeldOutputs THEN "held"
                           ELSE IF rows[o].spent THEN "gone" ELSE "free"]

TakenByNetwork == {o \in DOMAIN rows : Exists(o) /\ ~Live(o)}

Life == INSTANCE OutputLife
          WITH Outputs <- Outpoints, life <- LifeOfRows, taken <- TakenByNetwork

-----------------------------------------------------------------------------
(* Properties *)

Candidate == [op : Outpoints, row : Row]

TablesOK ==
    /\ DOMAIN rows \subseteq Outpoints /\ \A o \in DOMAIN rows : rows[o] \in Row
    /\ DOMAIN inputs \subseteq Outpoints /\ \A o \in DOMAIN inputs : inputs[o] \in Row

NetworkOK ==
    /\ height \in Nat
    /\ tip \in [Roots -> Nat \cup {-1}]
    /\ mergeOf \in [Merged -> SUBSET Outpoints]
    /\ mergeAmount \in [Merged -> Nat]

ControlOK ==
    /\ pc \in {"start", "select", "mark", "verify", "rebuild", "build", "checkids",
               "merge", "mergeSettle", "broadcast", "settle", "retry", "stopped"}
    /\ cur \in Candidate \cup {NoUTXO}
    /\ batch \in 0 .. TxPerBatch
    /\ reply \in [ok : Nat, verdict : {"none", "sent", "invalid", "immature", "failed"}]
    /\ retry \in 0 .. MaxRetries
    /\ merge \in Merged \cup {NoRoot}
    /\ {attempts, syncs, crashes} \subseteq Nat

\* Type invariant of the table, the network and the main goroutine.
TypeOK == TablesOK /\ NetworkOK /\ ControlOK

\* Whatever fails and whenever the process dies, every row names an output of
\* a transaction the network accepted (blast.go 906: the program saves no
\* output of a transaction that "didn't actually get accepted").
RecordedOutputsExist == \A o \in DOMAIN rows : Exists(o)

\* No row promises more than the output holds, so a chain built from a row
\* that was saved after a partly accepted batch is never overdrawn.
NeverOverstated == \A o \in DOMAIN rows : rows[o].amount <= LedgerAmount(o)

\* A batch is signed over the amount the network has for the output it
\* spends, even when the row was wrong (blast.go 464 "Verify amount matches").
SignedOverLedgerAmount ==
    pc \in {"checkids", "broadcast", "settle", "retry"} =>
        cur.row.amount = LedgerAmount(cur.op)

\* The consolidation path calls blastFromUTXO again, past the limit check,
\* but never twice: the limit is exceeded by one attempt at most.
OvershootByOne == MaxIterations > 0 => attempts <= MaxIterations + 1

\* An output of ours the network has seen spent is marked in the table, in the
\* middle of an attempt too, so that a process that dies there and is started
\* again does not offer it (blast.go 255 "Mark UTXO as spent immediately to
\* prevent reuse").
TakenIsMarked == \A o \in TakenByNetwork : rows[o].spent

\* Between attempts, the table offers only outputs that nothing has spent.
NoSpentOffered == pc = "select" => \A o \in Unspent(rows) : Live(o)

\* Where nothing loses an answer, revives a row, consolidates or retries, the
\* table and the attempt in progress keep the promise of OutputLife: an output
\* is held before it is spent, and what the network took is never free again.
ImplementsOutputLife == Life!Spec

\* Where the database takes every write and no answer is lost or partial:
\* between attempts, every output of ours the program has seen or made and that
\* can pay for a transaction is still in the table, to be used again.
NothingLost ==
    pc = "select" =>
        \A r \in Roots :
            LET o == <<r, tip[r]>>
            IN  /\ tip[r] >= 0 /\ Live(o) /\ LedgerAmount(o) >= SmallestInput
                /\ tip[r] > 0 \/ r \in Merged \/ o \in DOMAIN rows
                => o \in Unspent(rows)

\* A coinbase the node would refuse as immature is selected only when, at the
\* height asked about, the unspent rows are all immature coinbases (sqlite.go
\* 285 "Last resort").
ImmatureOnlyAsLastResort ==
    [][pc = "select" /\ pc' = "mark" /\ cur'.row.coinbase /\ Immature(cur'.op) =>
         \E h \in {height, GetCurrentBlockHeight(rows)} :
            \A o \in Unspent(rows) : rows[o].coinbase /\ ~Mature(rows[o], h)]_vars

\* The main goroutine always comes back to its loop: no chain of retries or
\* consolidations goes on for ever.
AlwaysReturns == []<>(pc \in {"start", "select", "stopped"})

\* With a limit, the command stops, unless it runs out of rows again and again.
StopsOrStarves == <>(pc = "stopped") \/ []<>(Unspent(rows) = {})

-----------------------------------------------------------------------------
(* What the documentation or a comment says and the code does not do: TLC    *)
(* refutes each of these in a small instance (README, "Disagreements").      *)

\* "Will stop after %d batch attempts" (main.go 373).
StopsAtLimit == MaxIterations > 0 => attempts <= MaxIterations

\* "The system automatically enforces the 100-block maturity requirement for
\* coinbase UTXOs" (README 114).
MaturityEnforced == pc = "broadcast" => ~Immature(cur.op)

\* "Save the last transaction's output as a new UTXO for the next batch"
\* (blast.go 901): the row saved is that output, amount included.
RowsAreExact == \A o \in DOMAIN rows : rows[o].amount = LedgerAmount(o)

\* A batch written off as having a missing parent had one (blast.go 955 "The
\* parent transaction doesn't exist, so this UTXO is invalid").
WrittenOffOnlyIfMissing ==
    pc = "settle" /\ reply.verdict = "invalid" => ~Exists(cur.op)

\* "Check if consolidation is worthwhile" (consolidation.go 41): a
\* consolidation that is sent pays out no more than it takes in.
ConsolidationPaysFee == pc = "merge" => mergeAmount[merge] <= Total(inputs)

\* "Mark UTXO as spent immediately to prevent reuse" (blast.go 255): when a
\* batch is sent, the row it spends is marked.
MarkedWhenSent == pc = "broadcast" => cur.op \notin Unspent(rows)

\* "Prioritizes mature coinbase UTXOs over split outputs" (README 101).
MatureCoinbaseFirst ==
    pc = "mark" /\ ~cur.row.coinbase => MatureCoinbaseRows(rows, height) = {}
=============================================================================
