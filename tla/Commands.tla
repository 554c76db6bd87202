------------------------------ MODULE Commands -------------------------------
(***************************************************************************)
(* The commands that look after the table, one of which runs: resync,      *)
(* verify, broadcast-tx, broadcast, split and cleanup, over any table,     *)
(* node and transaction store; and tx-status, which changes nothing.       *)
(***************************************************************************)
EXTENDS Resync, Verify, BroadcastTx, Split

CONSTANTS
    Which,      \* the commands that are run
    Networks,   \* what the node may have at the beginning,
    Stores,     \* and the transaction store
    MaxRows     \* bound: rows of the table when requests and writes may fail

ASSUME CommandsAssumption ==
    /\ Which \subseteq {"resync", "verify", "broadcast-tx", "broadcast", "split", "cleanup"}
    /\ Networks \subseteq SUBSET Txs /\ Stores \subseteq SUBSET Txs
    /\ MaxRows \in Nat

vars == <<chainVars, flags, rows, place, resyncVars, verifyVars, broadcastVars, splitVars>>

\* The types, how deep the recursion goes, and that the lists of verify are
\* apart.
CommandsTypeOK ==
    /\ TypeOK /\ VerifyTypeOK
    /\ unspent \subseteq Utxos /\ spent \subseteq Utxos /\ unspent \cap spent = {}
    /\ todo \cup cur \cup valid \cup invalid \subseteq Utxos /\ Cardinality(cur) <= 1
    /\ roots \subseteq Txs /\ target \in Txs

\* The outputs a command may find rows of: any, or few where writes may fail.  A
\* table, a target and a transaction store that it does not read are not varied.
Rows == IF unreliable THEN {S \in SUBSET Utxos : Cardinality(S) <= MaxRows} ELSE {Utxos}

CommandsInit ==
    /\ Init /\ network \in Networks /\ stored \in Stores
    /\ command \in Which
    /\ rebroadcast \in (IF command \in {"verify", "broadcast-tx"} THEN BOOLEAN ELSE {FALSE})
    /\ \E S \in Rows :
         /\ unspent \in (IF command \in {"broadcast-tx", "broadcast"} THEN {{}} ELSE SUBSET S)
         /\ spent \in (IF command = "verify" THEN SUBSET (S \ unspent) ELSE {{}})
    /\ step = "list" /\ todo = {} /\ cur = {} /\ roots = {}
    /\ ResyncInit /\ VerifyInit /\ BroadcastInit /\ SplitInit
    /\ command \in {"broadcast-tx", "broadcast"} \/ target = CHOOSE t \in Txs : TRUE
    /\ command \in {"resync", "verify", "broadcast-tx"} \/ stored = CHOOSE S \in Stores : TRUE

-----------------------------------------------------------------------------
\* The cleanup command marks every unspent row, one after the other.
CleanUp ==
    /\ step = "list"
    /\ MarkUTXOAsSpent(unspent)
    /\ step' = "done"
    /\ UNCHANGED <<chainVars, todo, cur, roots>>

Command ==
    /\ \/ command = "resync" /\ ResyncCommand /\ UNCHANGED <<verifyVars, broadcastVars, splitVars>>
       \/ command = "verify" /\ VerifyCommand /\ UNCHANGED <<resyncVars, broadcastVars, splitVars>>
       \/ command = "broadcast-tx" /\ BroadcastTxCommand /\ UNCHANGED <<resyncVars, verifyVars, splitVars>>
       \/ command = "broadcast" /\ SendGiven /\ UNCHANGED <<resyncVars, verifyVars, splitVars>>
       \/ command = "split" /\ SplitCommand /\ UNCHANGED <<resyncVars, verifyVars, broadcastVars>>
       \/ command = "cleanup" /\ CleanUp
          /\ UNCHANGED <<resyncVars, verifyVars, broadcastVars, splitVars>>
    /\ UNCHANGED flags

Other ==
    /\ \E t \in Txs : Elsewhere(t)
    /\ UNCHANGED <<flags, rows, place, resyncVars, verifyVars, broadcastVars, splitVars>>

CommandsNext == Command \/ Other

CommandsSpec == CommandsInit /\ [][CommandsNext]_vars

\* A command is one goroutine, whose HTTP requests have a timeout; that its gRPC
\* calls return, which have none (propagation.go:74), is assumed.
CommandsFairSpec == CommandsSpec /\ WF_vars(Command)

-----------------------------------------------------------------------------
(* What tx-status calls an inconsistency of an output *)

HasRow(u) == u \in unspent \cup spent

NotFound(u) == u[1] \notin network

\* A row of what is not there, or of the other status.
RowDisagrees(u) ==
    IF NotFound(u) THEN HasRow(u)
    ELSE u \in Ours /\ (IF SpentOnNetwork(u) THEN u \in unspent ELSE u \in spent)

RowMissing(u) == ~NotFound(u) /\ u \in Ours /\ ~SpentOnNetwork(u) /\ ~HasRow(u)

Inconsistent(u) == NotFound(u) \/ RowDisagrees(u) \/ RowMissing(u)

-----------------------------------------------------------------------------
(* Properties *)

Quiet == ~unreliable /\ others = 0

\* What a command reports as valid, sent or available is on the network,
\* whichever way it got there: "Valid UTXOs (on network)" (resync.go:167), "now
\* available" (verify.go:766), "broadcast successfully" (broadcast_tx.go:320).
ReportedIsOnNetwork ==
    /\ TxsOf(valid \cup resent \cup available) \subseteq network
    /\ command = "broadcast-tx" /\ result = "ok" => target \in network

\* With writes and requests that work, neither an early return nor a recovery
\* that broke off leaves an unspent row without its transaction: after the rows
\* of resync, and after the fixes of verify.
UnspentIsOnNetwork ==
    /\ ~unreliable
    /\ \/ command = "resync" /\ step \in {"scan", "done"}
       \/ command = "verify" /\ step = "done"
    => TxsOf(unspent) \subseteq network

\* No row becomes unspent without its transaction being on the network, by any
\* command and any answer, lost or wrong.
OffersOnlyExisting == [][TxsOf(unspent' \ unspent) \subseteq network']_vars

\* After verify without --rebroadcast, while nobody else sends and nothing fails,
\* tx-status finds nothing about an output that has a row.  About one without it
\* finds that the transaction is not there, or that a row is missing which was
\* missing before: verify deletes no row that tx-status then misses.
VerifyAgrees ==
    command = "verify" /\ step = "done" /\ Quiet /\ ~rebroadcast =>
        \A u \in Utxos : Inconsistent(u) =>
            ~HasRow(u) /\ (NotFound(u) \/ u \notin toDelete)

\* verify --rebroadcast leaves a stored transaction missing only if a parent is
\* missing, or was sent again after it, if tracing broke off, or if it has an
\* unspent row and two transactions to send are related, which the sort does
\* not take: an error in one list does not stop the other (verify.go:210-224).
LeavesOnlyUnsorted ==
    command = "verify" /\ step = "done" /\ Quiet /\ rebroadcast =>
        \A t \in TxsOf(missing) \cap stored :
            \/ t \in network \/ gap
            \/ \E p \in Parents[t] : p \notin network \/ p \in TxsOf(resent)
            \/ t \in TxsOf(affected) /\ \E c \in chain : Parents[c] \cap chain # {}

\* Every command comes to its end: recovery of one row never goes on for ever.
Finishes == <>(step \in {"done", "failed"})

-----------------------------------------------------------------------------
(* What the documentation or a comment says and the code does not do: TLC    *)
(* refutes each of these in a small instance (README, "Disagreements").      *)

\* main.go:523: "Check all UTXOs in the database against the teranode/aerospike
\* to ensure they are correctly marked as spent/unspent": with --rebroadcast
\* the fixes are those of before the recovery.
VerifyEnsures ==
    command = "verify" /\ step = "done" /\ Quiet => \A u \in unspent \cup spent : ~Inconsistent(u)

\* verify.go:772: "now available (parent recovered)": the row is still there when
\* the command ends.
RecoveredStaysAvailable ==
    command = "verify" /\ step = "done" /\ Quiet => available \subseteq unspent
=============================================================================
