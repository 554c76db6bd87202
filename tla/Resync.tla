------------------------------- MODULE Resync -------------------------------
(***************************************************************************)
(* The resync command, cmd/tx-blaster/resync.go: it sends the transaction  *)
(* of every unspent row again, recovers the transactions of TxChain where  *)
(* a parent is missing, marks the rows it could not place as spent, and    *)
(* scans the recent blocks.                                                *)
(***************************************************************************)
EXTENDS Wallet

VARIABLES
    valid,      \* the rows it counted as valid
    invalid     \* those it counted as invalid

resyncVars == <<valid, invalid>>

ResyncInit == valid = {} /\ invalid = {}

-----------------------------------------------------------------------------
List ==
    /\ step = "list"
    /\ todo' = unspent
    /\ step' = "rows"
    /\ UNCHANGED <<chainVars, rows, cur, roots, resyncVars>>

\* The next row: todo and cur after row u is done.
RowDone(u) == todo' = todo \ {u} /\ cur' = {} /\ UNCHANGED <<step, roots>>

\* A mistake: the row is only counted.
CountInvalid(u) ==
    /\ invalid' = invalid \cup {u}
    /\ RowDone(u)
    /\ UNCHANGED <<valid, rows>>

Invalidate(u) ==
    /\ MarkUTXOAsSpent({u})
    /\ invalid' = invalid \cup {u}
    /\ RowDone(u)
    /\ UNCHANGED valid

Validate(u) ==
    /\ valid' = valid \cup {u}
    /\ RowDone(u)
    /\ UNCHANGED <<invalid, rows>>

Idle == step = "rows" /\ cur = {}

\* The transaction of the row is not in the transaction store.
NotStored(u) ==
    /\ Idle /\ u \in Oldest(todo) /\ u[1] \notin stored
    /\ Invalidate(u)
    /\ UNCHANGED chainVars

notNetwork == <<unreliable, stored, degree, queue, sorted, unsent, successful, failed, orphans, others>>

tracing == <<phase, frames, visited, gap, chain>>

\* It is sent again; for a missing parent its chain is recovered.  Of the ways
\* to say that the transaction is there one is not recognised ("already in
\* mempool", rebuilder.go 287), and taken for a failure.
SendAgain(u) ==
    /\ Idle /\ u \in Oldest(todo) /\ u[1] \in stored
    /\ \E r \in Broadcasts(u[1]) :
         /\ network' = r.net
         /\ \/ Succeeds(r.says) /\ Validate(u) /\ UNCHANGED tracing
            \/ r.says \in {"lost", "exists"} /\ Invalidate(u) /\ UNCHANGED tracing
            \/ /\ r.says = "orphan"
               /\ cur' = {u}
               /\ phase' = "trace" /\ frames' = <<{u[1]}>>
               /\ visited' = {} /\ gap' = FALSE /\ chain' = {}
               /\ UNCHANGED <<rows, step, todo, roots, resyncVars>>
    /\ UNCHANGED notNetwork

Recovering(p) == step = "rows" /\ cur # {} /\ phase = p

\* A mistake: the row is looked at again.
CannotRecoverYet ==
    /\ Recovering("broken") \/ Recovering("circular") \/ (Recovering("sent") /\ failed # {})
    /\ cur' = {}
    /\ UNCHANGED <<chainVars, rows, step, todo, roots, resyncVars>>

\* The chain could not be traced or sorted, or something of it was refused.
CannotRecover ==
    /\ Recovering("broken") \/ Recovering("circular") \/ (Recovering("sent") /\ failed # {})
    /\ \E u \in cur : Invalidate(u)
    /\ UNCHANGED chainVars

Recovered ==
    /\ Recovering("sent") /\ failed = {}
    /\ \E u \in cur : Validate(u)
    /\ UNCHANGED chainVars

StartScan ==
    /\ Idle /\ todo = {}
    /\ step' = "scan"
    /\ UNCHANGED <<chainVars, rows, todo, cur, roots, resyncVars>>

\* ScanRecentBlocks writes the coinbase outputs it finds as unspent; it may
\* stop early, at a request that fails.
ScanRecentBlocks ==
    /\ step = "scan"
    /\ SaveUTXO({u \in Recent : u[1] \in network})
    /\ step' = "done"
    /\ UNCHANGED <<chainVars, todo, cur, roots, resyncVars>>

ResyncCommand ==
    \/ List \/ StartScan \/ ScanRecentBlocks
    \/ \E u \in Utxos : NotStored(u) \/ SendAgain(u)
    \/ CannotRecover \/ Recovered
    \/ Recovering("traced") /\ StartSort /\ UNCHANGED <<rows, place, resyncVars>>
    \/ Recovering("ordered") /\ StartSend /\ UNCHANGED <<rows, place, resyncVars>>
    \/ cur # {} /\ Recover /\ UNCHANGED <<rows, place, resyncVars>>

-----------------------------------------------------------------------------
(* What the documentation or a comment says and the code does not do: TLC    *)
(* refutes each of these in a small instance (README, "Disagreements").      *)

\* resync.go:22: "Verifies all UTXOs in database against teranode and removes
\* invalid ones": what it removes is not a live output.
RemovesOnlyInvalid ==
    \A u \in invalid : u \in unspent \/ u[1] \notin network \/ SpentOnNetwork(u)

\* The same sentence, the other way: an output the network has seen spent does
\* not stay as unspent.
RemovesAllInvalid ==
    step = "scan" => \A u \in unspent : u[1] \in network /\ ~SpentOnNetwork(u)
=============================================================================
