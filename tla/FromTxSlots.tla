----------------------------- MODULE FromTxSlots ------------------------------
(***************************************************************************)
(* The data of blast-from-tx, cmd/tx-blaster/blast_from_tx.go: one output  *)
(* is split, and from each output of the split (a slot of splitUTXOs) a    *)
(* chain of transactions without a fee is sent, in batches that go round   *)
(* the slots.  How batches are paced and stopped is module FromTxControl.  *)
(*                                                                         *)
(* Each slot names an output in memory, and on the network its chain has   *)
(* an end.  Only how far the two are apart matters: lead is 0 when the     *)
(* slot names the unspent end of its chain, negative when it is behind,    *)
(* positive when it names an output that does not exist.  The transaction  *)
(* built from a slot is always the same until the slot moves.              *)
(***************************************************************************)
EXTENDS Builders, FiniteSets, SequencesExt

CONSTANTS
    Funds,        \* amounts of the output to split, in satoshis
    Asked,        \* --outputs
    MaxBatch,     \* transactions in one batch
    MaxLost,      \* bound: lost answers, failures and refusals
    MaxCrash      \* bound: restarts

ASSUME SlotsAssumption ==
    /\ Funds \subseteq 0 .. Word - 1 /\ Asked \subseteq Nat
    /\ MaxBatch \in Nat \ {0}
    /\ {MaxLost, MaxCrash} \subseteq Nat

VARIABLES
    (* what the command is given *)
    funds, asked,
    built,        \* the split that is built of it, the same after a restart
    (* the database, which survives a restart *)
    row,          \* the row of the output to split: "none", "unspent" or "spent"
    saved,        \* the split outputs that have a row
    (* the network *)
    refuses,      \* in this run it may refuse a transaction it could accept
    onNetwork,    \* it has accepted the split
    lead,         \* lead[s]: transactions the slot is ahead of its chain
    (* the process *)
    pc,
    first,        \* first[s]: the slot still names an output of the split
    index,        \* currentUTXOIndex
    batch,        \* the slots of the batch, in order
    updates,      \* the slots that utxoUpdates has an entry for
    refused,      \* positions of the batch that were refused
    (* history *)
    refusals,     \* transactions refused that the node could have accepted
    lost, crashes \* only bound the model

process == <<first, index, batch, updates, refused>>
given == <<funds, asked, built>>
vars == <<given, refuses, row, saved, onNetwork, lead, pc, first, index, batch, updates,
          refused, refusals, lost, crashes>>

NumSlots == built.outputs

Slots == 0 .. NumSlots - 1

Paid == Pays(funds, MassiveFee(NumSlots), built)

TypeOK ==
    /\ funds \in Funds /\ asked \in Asked /\ NumSlots \in Nat
    /\ row \in {"none", "unspent", "spent"} /\ {onNetwork, refuses} \subseteq BOOLEAN
    /\ saved \subseteq Slots /\ updates \subseteq Slots
    /\ lead \in [Slots -> Int] /\ first \in [Slots -> BOOLEAN]
    /\ index \in Slots \cup {0}
    /\ batch \in Seq(Slots) /\ refused \subseteq 1 .. MaxBatch /\ refusals \in Nat

Fresh ==
    /\ first = [s \in Slots |-> TRUE]
    /\ index = 0 /\ batch = <<>> /\ updates = {} /\ refused = {}

Init ==
    /\ funds \in Funds /\ asked \in Asked /\ built = BuildMassiveSplit(funds, asked)
    /\ refuses \in BOOLEAN
    /\ row \in {"none", "unspent"} /\ saved = {} /\ onNetwork = FALSE
    /\ lead = [s \in Slots |-> 0]
    /\ pc = "fetch" /\ Fresh
    /\ refusals = 0 /\ lost = 0 /\ crashes = 0

-----------------------------------------------------------------------------
(* startProcessing *)

\* An answer is lost, or an error comes back for no fault of the command.
Fails == lost + refusals < MaxLost /\ lost' = lost + 1

\* getOrFetchUTXO: the row as it is, spent or not, or the output as the node
\* reports it, for which a row is written.
Fetch ==
    /\ pc = "fetch"
    /\ row' \in IF row = "none" THEN {"none", "unspent"} ELSE {row}
    /\ pc' = "split"
    /\ UNCHANGED <<saved, onNetwork, lead, process, lost, crashes, refusals, refuses, given>>

\* The output is not found.
FetchFails ==
    /\ pc = "fetch" /\ Fails
    /\ pc' = "stopped"
    /\ UNCHANGED <<row, saved, onNetwork, lead, process, crashes, refusals, refuses, given>>

\* The output is too small to split.
CannotSplit ==
    /\ pc = "split" /\ built = NoOutputs
    /\ pc' = "stopped"
    /\ UNCHANGED <<row, saved, onNetwork, lead, process, lost, crashes, refusals, refuses, given>>

\* A mistake: the row is marked before the answer is known.
SplitMarksFirst ==
    /\ pc = "split" /\ built # NoOutputs
    /\ \/ onNetwork' = Paid /\ pc' = (IF Paid /\ ~onNetwork THEN "mark" ELSE "stopped") /\ UNCHANGED lost
       \/ /\ Fails
          /\ onNetwork' \in {onNetwork, Paid}
          /\ pc' = "stopped"
    /\ row' = "spent"
    /\ UNCHANGED <<saved, lead, process, crashes, refusals, refuses, given>>

\* The split is sent.  An answer that is an error, or is lost, ends the
\* program; that the node has the split already is such an error, and so is
\* that it pays out more than there is.
Split ==
    /\ pc = "split" /\ built # NoOutputs
    /\ \/ onNetwork' = Paid /\ pc' = (IF Paid /\ ~onNetwork THEN "mark" ELSE "stopped") /\ UNCHANGED lost
       \/ /\ Fails
          /\ onNetwork' \in {onNetwork, Paid}
          /\ pc' = "stopped"
    /\ UNCHANGED <<row, saved, lead, process, crashes, refusals, refuses, given>>

\* That the row cannot be marked is not noticed.
MarkOriginal ==
    /\ pc = "mark"
    /\ row' \in {row, IF row = "none" THEN "none" ELSE "spent"}
    /\ pc' = "save"
    /\ UNCHANGED <<saved, onNetwork, lead, process, lost, crashes, refusals, refuses, given>>

\* One row after the other is written; that it fails is not noticed.
SaveSplit ==
    /\ pc = "save"
    /\ saved' \in {saved, saved \cup {index}}
    /\ index' = (index + 1) % NumSlots
    /\ pc' = IF index = NumSlots - 1 THEN "build" ELSE "save"
    /\ UNCHANGED <<row, onNetwork, lead, first, batch, updates, refused, lost, crashes, refusals,
                   refuses, given>>

-----------------------------------------------------------------------------
(* submitBatch *)

\* Round robin: a batch larger than the slots has the same transaction twice.
SlotsOf(n) == [i \in 1 .. n |-> (index + i - 1) % NumSlots]

\* A mistake: the index does not wrap.
BuildBatchUnwrapped(n) ==
    /\ pc = "build"
    /\ batch' = SlotsOf(n)
    /\ index' = index + n
    /\ updates' = ToSet(SlotsOf(n))
    /\ refused' = {}
    /\ pc' = "send"
    /\ UNCHANGED <<row, saved, onNetwork, lead, first, lost, crashes, refusals, refuses, given>>

BuildBatch(n) ==
    /\ pc = "build"
    /\ batch' = SlotsOf(n)
    /\ index' = (index + n) % NumSlots
    /\ updates' = ToSet(SlotsOf(n))
    /\ refused' = {}
    /\ pc' = "send"
    /\ UNCHANGED <<row, saved, onNetwork, lead, first, lost, crashes, refusals, refuses, given>>

\* The end of the slot's chain moves when the node accepts a transaction.
Accepted(S) == [s \in Slots |-> IF s \in S THEN lead[s] - 1 ELSE lead[s]]

Acceptable == {s \in updates : lead[s] = 0}

Positions(S) == {i \in DOMAIN batch : batch[i] \in S}

\* A mistake: a transaction the node has is a failure.
ExistsIsFailure(S) == Positions({s \in updates : lead[s] # 0} \cup (Acceptable \ S))

\* The positions whose transaction fails when the node accepts those of S.  It
\* has the transaction of a slot that is behind; it misses the parent of one
\* that is ahead.
Failing(S) == Positions({s \in updates : lead[s] > 0} \cup (Acceptable \ S))

\* A transaction that is in the batch twice may be refused once and accepted once.
OnceRefused(S) ==
    {X \in SUBSET Positions(S) : \A s \in S : Positions({s}) \ X # {}}

\* The node accepts what it can, or refuses some of it.
SendBatch ==
    /\ pc = "send"
    /\ \E S \in SUBSET Acceptable : \E X \in OnceRefused(S) :
         /\ refusals' = refusals + Cardinality(Acceptable \ S) + Cardinality(X)
         /\ refusals' > refusals => refuses /\ lost + refusals' <= MaxLost
         /\ lead' = Accepted(S)
         /\ refused' = Failing(S) \cup X
    /\ pc' = "results"
    /\ UNCHANGED <<row, saved, onNetwork, first, index, batch, updates, lost, crashes, refuses, given>>

\* A mistake: the updates are applied all the same.
LoseBatchApplies ==
    /\ pc = "send" /\ Fails
    /\ \E S \in SUBSET Acceptable : lead' = Accepted(S)
    /\ pc' = "results"
    /\ UNCHANGED <<row, saved, onNetwork, process, crashes, refusals, refuses, given>>

\* The call fails as a whole, after the node took some of the batch: no slot
\* is updated.
LoseBatch ==
    /\ pc = "send" /\ Fails
    /\ \E S \in SUBSET Acceptable : lead' = Accepted(S)
    /\ pc' = "build"
    /\ UNCHANGED <<row, saved, onNetwork, process, crashes, refusals, refuses, given>>

\* A mistake: the transaction id is not looked at.
AnySource(s) == updates

\* The entries that the loop over the map may drop for a slot whose
\* transaction failed: it compares transaction ids, which all outputs of the
\* split share.
SameSource(s) == IF first[s] THEN {t \in updates : first[t]} ELSE {s} \cap updates

DropUpdate ==
    /\ pc = "results" /\ refused # {}
    /\ LET i == CHOOSE j \in refused : \A k \in refused : j <= k
           found == SameSource(batch[i])
       IN  /\ refused' = refused \ {i}
           /\ \/ found = {} /\ UNCHANGED updates
              \/ \E t \in found : updates' = updates \ {t}
    /\ UNCHANGED <<row, saved, onNetwork, lead, pc, first, index, batch, lost, crashes, refusals,
                   refuses, given>>

ApplyUpdates ==
    /\ pc = "results" /\ refused = {}
    /\ lead' = [s \in Slots |-> IF s \in updates THEN lead[s] + 1 ELSE lead[s]]
    /\ first' = [s \in Slots |-> first[s] /\ s \notin updates]
    /\ updates' = {} /\ batch' = <<>>
    /\ pc' = "build"
    /\ UNCHANGED <<row, saved, onNetwork, index, refused, lost, crashes, refusals, refuses, given>>

\* The process ends anywhere and is started again with the same --tx; the slots
\* are those of the split again.  The chains stay where the network has them,
\* but the slots are only reached again if the split is.
Restart ==
    /\ crashes < MaxCrash /\ crashes' = crashes + 1
    /\ pc' = "fetch"
    /\ first' = [s \in Slots |-> TRUE]
    /\ index' = 0 /\ batch' = <<>> /\ updates' = {} /\ refused' = {}
    /\ UNCHANGED <<row, saved, onNetwork, lead, lost, refusals, refuses, given>>

Blasting ==
    \/ Fetch \/ FetchFails \/ CannotSplit \/ Split \/ MarkOriginal \/ SaveSplit
    \/ \E n \in 1 .. MaxBatch : BuildBatch(n)
    \/ SendBatch \/ LoseBatch \/ DropUpdate \/ ApplyUpdates

Next == Blasting \/ Restart

Spec == Init /\ [][Next]_vars

\* The goroutine goes on while it is neither paused nor stopped.
FairSpec == Spec /\ WF_vars(Blasting)

-----------------------------------------------------------------------------
(* Properties *)

Ahead == {s \in Slots : lead[s] > 0}

Behind(s) == s \in Slots /\ lead[s] < 0

\* A slot is ahead only after a refusal, and each refusal costs one slot at
\* most: not a lost answer or a restart, and not more than one although the loop
\* that drops the entries of refused transactions may drop that of another slot.
OneSlotPerRefusal == Cardinality(Ahead) <= refusals

\* Only a slot that still names an output of the split can come to name an
\* output the network does not have: those share their transaction id, later
\* ones do not.
OnlySplitOutputsStrand == [][\A s \in Slots \ Ahead : ~first[s] => s \notin Ahead']_vars

\* Without refusals no slot ever names an output the network does not have.
NeverAhead == ~refuses => \A s \in Slots : lead[s] <= 0

\* Without refusals, a slot that is behind its chain catches up with it.
CatchesUp ==
    \A s \in 0 .. MaxOutputsBySize - 1 :
        (Behind(s) /\ ~refuses /\ pc = "build") ~> (~Behind(s) \/ pc = "stopped")

\* The database learns of the split only once the network has it: neither a
\* lost answer nor a restart leaves a row that says otherwise.
RowsFollowSplit == row = "spent" \/ saved # {} => onNetwork

\* An output that covers the fee of the split as asked for, or of the largest
\* that fits, is split into no more outputs, none of them dust, and pays for
\* them and for the fee of their own number, also when that was reduced; if
\* there is no split, it did not hold enough for one output.
SplitIsPaidFor ==
    asked > 0 /\ funds >= MassiveFee(Fitting(asked)) =>
        IF built = NoOutputs THEN funds < MassiveFee(Fitting(asked)) + DustAmount
        ELSE Paid /\ NumSlots <= Fitting(asked)

-----------------------------------------------------------------------------
(* What the documentation or a comment says and the code does not do: TLC    *)
(* refutes each of these in a small instance (README, "Disagreements").      *)

\* blast_from_tx.go:492, "Remove this UTXO update from the map": a slot whose
\* transaction was refused keeps its output, so that no slot names an output
\* that does not exist.
SlotsExist == pc = "build" => \A s \in Slots : lead[s] <= 0

\* massive_split.go:52: "If we can't create all outputs at dust limit, reduce the
\* number": what is sent is paid for.
ReducesWhenPoor == built # NoOutputs => Paid
=============================================================================
