----------------------------- MODULE BroadcastTx -----------------------------
(***************************************************************************)
(* The broadcast-tx command, cmd/tx-blaster/broadcast_tx.go: one stored    *)
(* transaction is sent again, with --rebuild-chain after the ancestors the *)
(* node misses.  And the broadcast command of main.go, which sends one     *)
(* transaction as it is given.                                             *)
(***************************************************************************)
EXTENDS Wallet

VARIABLES
    target,     \* the transaction asked for
    result      \* what the command reports

broadcastVars == <<target, result>>

BroadcastInit == target \in Txs /\ result = "none"

-----------------------------------------------------------------------------
Report(says) == result' = says /\ step' = "done"

\* The target is loaded, and its parents are looked for: those the node does not
\* have are traced.  A parent it cannot be asked for is passed over.
Load ==
    /\ step = "list"
    /\ IF target \notin stored THEN Report("failed") /\ UNCHANGED roots
       ELSE /\ step' = (IF rebroadcast THEN "ancestors" ELSE "target")
            /\ roots' \in (IF ~rebroadcast THEN {{}}
                           ELSE IF unreliable THEN SUBSET Parents[target]
                           ELSE {Parents[target] \ network})
            /\ UNCHANGED result
    /\ UNCHANGED <<chainVars, rows, todo, cur, target>>

TraceAncestors == step = "ancestors" /\ TraceRoot

SortAncestors ==
    /\ step = "ancestors" /\ Traced /\ roots = {}
    /\ IF chain = {}
       THEN step' = "target" /\ UNCHANGED chainVars
       ELSE StartSort /\ step' = "sort"
    /\ UNCHANGED <<rows, todo, cur, roots, broadcastVars>>

\* That the chain cannot be sorted is the end of the command.
CannotSort ==
    /\ step = "sort" /\ phase = "circular"
    /\ Report("failed")
    /\ UNCHANGED <<chainVars, rows, todo, cur, roots, target>>

SendAncestors ==
    /\ step = "sort" /\ phase = "ordered"
    /\ StartSend
    /\ UNCHANGED <<rows, place, broadcastVars>>

\* Whatever became of the ancestors, the target is next.
AncestorsSent ==
    /\ step = "sort" /\ phase = "sent"
    /\ step' = "target"
    /\ UNCHANGED <<chainVars, rows, todo, cur, roots, broadcastVars>>

\* A mistake: that the node has it already is an error.
SendStrictly ==
    /\ step = "target"
    /\ \E r \in Broadcasts(target) :
         network' = r.net /\ Report(IF r.says = "accepted" THEN "ok" ELSE "failed")
    /\ UNCHANGED <<unreliable, stored, phase, frames, visited, gap, chain, degree, queue,
                   sorted, unsent, successful, failed, orphans, others>>
    /\ UNCHANGED <<rows, todo, cur, roots, target>>

\* That the node has it already is no error.
SendTarget ==
    /\ step = "target"
    /\ \E r \in Broadcasts(target) :
         network' = r.net /\ Report(IF Succeeds(r.says) THEN "ok" ELSE "failed")
    /\ UNCHANGED <<unreliable, stored, phase, frames, visited, gap, chain, degree, queue,
                   sorted, unsent, successful, failed, orphans, others>>
    /\ UNCHANGED <<rows, todo, cur, roots, target>>

-----------------------------------------------------------------------------
\* The broadcast command.  Over gRPC the error is assigned to a variable of the
\* inner block and lost; over RPC any error is fatal.
SendGiven ==
    /\ step = "list"
    /\ \E r \in Broadcasts(target), grpc \in BOOLEAN :
         network' = r.net /\ Report(IF grpc \/ r.says = "accepted" THEN "ok" ELSE "failed")
    /\ UNCHANGED <<unreliable, stored, phase, frames, visited, gap, chain, degree, queue,
                   sorted, unsent, successful, failed, orphans, others>>
    /\ UNCHANGED <<rows, todo, cur, roots, target>>

BroadcastTxCommand ==
    \/ Load \/ SortAncestors \/ CannotSort \/ SendAncestors \/ AncestorsSent \/ SendTarget
    \/ TraceAncestors /\ UNCHANGED broadcastVars
    \/ step \in {"ancestors", "sort"} /\ Recover /\ UNCHANGED <<rows, place, broadcastVars>>

-----------------------------------------------------------------------------
(* Properties *)

\* With a node that answers, --rebuild-chain fails only for a transaction that
\* is not stored, an ancestor that is not, a chain that is too deep, or two
\* missing ancestors of which one spends the other, which the sort does not
\* take: sending in order is enough for all others (broadcast_tx.go:230-323).
FailsOnlyIf ==
    /\ command = "broadcast-tx" /\ rebroadcast /\ ~unreliable /\ result = "failed"
    => \/ target \notin stored \/ gap
       \/ \E t \in chain : Parents[t] \cap chain # {}
       \/ \E t \in chain \cup {target} : ~(Parents[t] \subseteq stored)

-----------------------------------------------------------------------------
(* What the documentation or a comment says and the code does not do: TLC    *)
(* refutes each of these in a small instance (README, "Disagreements").      *)

\* main.go:327, "Transaction broadcast successfully!": the network has it.
BroadcastReportsTruth == command = "broadcast" /\ result = "ok" => target \in network
=============================================================================
