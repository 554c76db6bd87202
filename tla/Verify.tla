------------------------------- MODULE Verify -------------------------------
(***************************************************************************)
(* The verify command, cmd/tx-blaster/verify.go: every row is compared     *)
(* with what the node says of its output, the fixes are noted, with        *)
(* --rebroadcast the missing transactions are recovered, and then the      *)
(* fixes noted before are applied.  Tracing, sorting and sending are a     *)
(* copy of internal/txchain and are taken from TxChain.                    *)
(***************************************************************************)
EXTENDS Wallet

VARIABLES
    answer,     \* of the first request for a row, before the second
    toMarkSpent, toMarkUnspent, toDelete,   \* the fixes
    missing,    \* missingTransactions: one row for each of them
    affected,   \* utxosWithMissingParents
    resent,     \* the rows whose missing transaction was sent again
    available   \* the rows that were reported as available again

fixes == <<toMarkSpent, toMarkUnspent, toDelete>>
verifyVars == <<answer, fixes, missing, affected, resent, available>>

NoAnswer == [spent |-> FALSE, ours |-> FALSE]

\* The types of the fixes; a row is in one of the lists at most, and a missing
\* transaction has one row.
VerifyTypeOK ==
    /\ answer \in [spent : BOOLEAN, ours : BOOLEAN]
    /\ {toMarkSpent, toMarkUnspent, toDelete, missing, affected, resent, available} \subseteq SUBSET Utxos
    /\ toMarkSpent \cap toMarkUnspent = {} /\ toDelete \cap (toMarkSpent \cup toMarkUnspent) = {}
    /\ \A u, w \in missing : u[1] = w[1] => u = w

VerifyInit ==
    /\ answer = NoAnswer
    /\ toMarkSpent = {} /\ toMarkUnspent = {} /\ toDelete = {}
    /\ missing = {} /\ affected = {} /\ resent = {} /\ available = {}

-----------------------------------------------------------------------------
(* Checking the rows *)

ListAll ==
    /\ step = "list"
    /\ todo' = unspent \cup spent
    /\ step' = "rows"
    /\ UNCHANGED <<chainVars, rows, cur, roots, verifyVars>>

\* A mistake: only what is found and spent counts as spent.
SpentIfFound(u, says) ==
    [spent |-> says = "found" /\ SpentOnNetwork(u), ours |-> u \in Ours]

\* checkUTXO: an output that cannot be found counts as spent and as not ours.
Response(u, says) ==
    IF says = "found" /\ u \in Ours
    THEN [spent |-> SpentOnNetwork(u), ours |-> TRUE]
    ELSE [spent |-> TRUE, ours |-> FALSE]

\* Its map of missing transactions, in which the last row of each stays.
Noted(u, says) ==
    IF says = "missing" THEN {w \in missing : w[1] # u[1]} \cup {u} ELSE missing

\* A mistake: a row of a missing transaction is taken for a spent one of ours.
NoteAsSpent(u, r) ==
    /\ toDelete' = toDelete
    /\ toMarkUnspent' = IF u \in spent /\ ~r.spent THEN toMarkUnspent \cup {u} ELSE toMarkUnspent
    /\ toMarkSpent' = IF u \in unspent /\ r.spent THEN toMarkSpent \cup {u} ELSE toMarkSpent
    /\ todo' = todo \ {u} /\ cur' = {} /\ answer' = NoAnswer
    /\ UNCHANGED <<chainVars, rows, step, roots, resent, available>>

\* The row is done: its fix, if it needs one, is noted.
Note(u, r) ==
    /\ toDelete' = IF r.ours THEN toDelete ELSE toDelete \cup {u}
    /\ toMarkUnspent' = IF r.ours /\ u \in spent /\ ~r.spent THEN toMarkUnspent \cup {u} ELSE toMarkUnspent
    /\ toMarkSpent' = IF r.ours /\ u \in unspent /\ r.spent THEN toMarkSpent \cup {u} ELSE toMarkSpent
    /\ todo' = todo \ {u} /\ cur' = {} /\ answer' = NoAnswer
    /\ UNCHANGED <<chainVars, rows, step, roots, resent, available>>

\* The first request for a row.  A failing one is counted and the row skipped.
CheckUTXO(u, says) ==
    /\ step = "rows" /\ cur = {} /\ u \in Newest(todo)
    /\ missing' = Noted(u, says)
    /\ UNCHANGED affected
    /\ \/ /\ says = "lost"
          /\ todo' = todo \ {u}
          /\ UNCHANGED <<chainVars, rows, step, cur, roots, answer, fixes, resent, available>>
       \/ /\ says # "lost" /\ u \in spent
          /\ Note(u, Response(u, says))
       \/ /\ says # "lost" /\ u \in unspent
          /\ cur' = {u} /\ answer' = Response(u, says)
          /\ UNCHANGED <<chainVars, rows, step, todo, roots, fixes, resent, available>>

\* The second, for the transaction of an unspent row.  That it fails is
\* ignored.
CheckTransactionExists(u, says) ==
    /\ step = "rows" /\ cur = {u}
    /\ affected' = IF says = "missing" THEN affected \cup {u} ELSE affected
    /\ Note(u, [answer EXCEPT !.spent = @ \/ says = "missing"])
    /\ UNCHANGED missing

\* Recovery begins with the transactions of the unspent rows.
Checked ==
    /\ step = "rows" /\ cur = {} /\ todo = {}
    /\ IF ~rebroadcast \/ missing \cup affected = {}
       THEN step' = "fix" /\ UNCHANGED <<todo, roots>>
       ELSE IF affected # {}
       THEN step' = "parents" /\ roots' = TxsOf(affected) /\ UNCHANGED todo
       ELSE step' = "missing" /\ todo' = missing /\ UNCHANGED roots
    /\ UNCHANGED <<chainVars, rows, cur, verifyVars>>

-----------------------------------------------------------------------------
(* rebroadcastMissingParents *)

\* When those are traced, the other missing ones are.
TraceOthers ==
    /\ step = "parents" /\ Traced /\ roots = {}
    /\ step' = "others"
    /\ roots' = TxsOf(missing) \ visited
    /\ UNCHANGED <<chainVars, rows, todo, cur, verifyVars>>

MissingParents == TxsOf(affected) \ successful

\* A mistake: after an error of the sort nothing is sent.
GiveUpUnsorted ==
    step' = "missing" /\ todo' = {u \in missing : u[1] \notin MissingParents /\ phase # "circular"}

\* On to the missing transactions not handled as parents.
SendOthers == step' = "missing" /\ todo' = {u \in missing : u[1] \notin MissingParents}

SortAll ==
    /\ step = "others" /\ Traced /\ roots = {}
    /\ IF chain = {}
       THEN SendOthers /\ UNCHANGED chainVars
       ELSE StartSort /\ step' = "chain" /\ UNCHANGED todo
    /\ UNCHANGED <<rows, cur, roots, verifyVars>>

SendAll ==
    /\ step = "chain" /\ phase = "ordered"
    /\ StartSend
    /\ UNCHANGED <<rows, place, verifyVars>>

\* After the chain, or an error of the sort: rows are only looked at again if
\* something was sent.
ChainSent ==
    /\ step = "chain" /\ phase \in {"circular", "sent"}
    /\ IF successful = {}
       THEN SendOthers
       ELSE step' = "affected" /\ todo' = {u \in affected : u[1] \in successful}
    /\ UNCHANGED <<chainVars, rows, cur, roots, verifyVars>>

\* Such a row is checked again, and saved as unspent if it is live.
Recheck(u, says) ==
    /\ step \in {"affected", "resent"} /\ u \in todo
    /\ missing' = Noted(u, says)
    /\ IF says = "found" /\ u \in Ours /\ ~SpentOnNetwork(u)
       THEN SaveUTXO({u}) /\ available' = available \cup ({u} \cap unspent')
       ELSE UNCHANGED <<rows, available>>
    /\ todo' = todo \ {u}
    /\ UNCHANGED <<chainVars, step, cur, roots, answer, fixes, affected, resent>>

Rechecked ==
    /\ step = "affected" /\ todo = {}
    /\ SendOthers
    /\ UNCHANGED <<chainVars, rows, cur, roots, verifyVars>>

-----------------------------------------------------------------------------
(* rebroadcastMissingTransactions *)

Resend(u) ==
    /\ step = "missing" /\ u \in todo
    /\ todo' = todo \ {u}
    /\ \/ /\ u[1] \notin stored
          /\ UNCHANGED <<network, resent>>
       \/ /\ u[1] \in stored
          /\ \E r \in Broadcasts(u[1]) :
               /\ network' = r.net
               /\ resent' = IF Succeeds(r.says) THEN resent \cup {u} ELSE resent
    /\ UNCHANGED <<unreliable, stored, phase, frames, visited, gap, chain, degree, queue,
                   sorted, unsent, successful, failed, orphans, others>>
    /\ UNCHANGED <<rows, step, cur, roots, answer, fixes, missing, affected, available>>

Resent ==
    /\ step = "missing" /\ todo = {}
    /\ step' = "resent" /\ todo' = resent
    /\ missing' = missing \ resent
    /\ UNCHANGED <<chainVars, rows, cur, roots, answer, fixes, affected, resent, available>>

RecheckedAll ==
    /\ step = "resent" /\ todo = {}
    /\ step' = "fix"
    /\ UNCHANGED <<chainVars, rows, todo, cur, roots, verifyVars>>

-----------------------------------------------------------------------------
\* The fixes noted at the beginning.
ApplyFixes ==
    /\ step = "fix"
    /\ \E S \in Written(toMarkSpent), F \in Written(toMarkUnspent), D \in Written(toDelete) :
         /\ unspent' = ((unspent \ S) \cup F) \ D
         /\ spent' = ((spent \cup S) \ F) \ D
    /\ step' = "done"
    /\ UNCHANGED <<chainVars, todo, cur, roots, verifyVars>>

VerifyCommand ==
    \/ ListAll \/ Checked \/ TraceOthers \/ SortAll \/ SendAll \/ ChainSent
    \/ Rechecked \/ Resent \/ RecheckedAll \/ ApplyFixes
    \/ \E u \in Utxos : \E says \in Says(u[1]) :
           CheckUTXO(u, says) \/ CheckTransactionExists(u, says) \/ Recheck(u, says)
    \/ \E u \in Utxos : Resend(u)
    \/ step \in {"parents", "others"} /\ TraceRoot /\ UNCHANGED verifyVars
    \/ step \in {"parents", "others", "chain"} /\ Recover /\ UNCHANGED <<rows, place, verifyVars>>

=============================================================================
