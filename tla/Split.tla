------------------------------- MODULE Split --------------------------------
(***************************************************************************)
(* The split command, cmd/tx-blaster/main.go: a transaction that splits    *)
(* one unspent row is built and sent, the row is marked, and all outputs   *)
(* of the split are saved.  Sending, marking and saving are three steps.   *)
(***************************************************************************)
EXTENDS Wallet, Builders

CONSTANTS
    Funds,      \* amounts of the row, in satoshis
    Asked       \* --outputs

ASSUME SplitAssumption == Funds \subseteq 0 .. Word - 1 /\ Asked \subseteq Nat

NoRow == <<>>

VARIABLES
    splitRow,   \* the row that was selected
    amount,     \* what it holds
    built,      \* the outputs of the split
    sent,       \* the network has the split
    born        \* the outputs of the split that have rows, all unspent

splitVars == <<splitRow, amount, built, sent, born>>

SplitInit == splitRow = NoRow /\ amount = 0 /\ built = NoOutputs /\ sent = FALSE /\ born = {}

-----------------------------------------------------------------------------
\* GetOldestUTXO gives one of the unspent rows, if there are any, and the split
\* is built from it.  An error of either is fatal.
BuildFrom(u, funds, asked) ==
    /\ splitRow' = u /\ amount' = funds
    /\ built' = BuildSplit(funds, asked)
    /\ step' = IF built' = NoOutputs THEN "failed" ELSE "send"

SelectRow ==
    /\ step = "list"
    /\ \/ \E u \in unspent, funds \in Funds, asked \in Asked : BuildFrom(u, funds, asked)
       \/ unspent = {} /\ step' = "failed" /\ UNCHANGED <<splitRow, amount, built>>
    /\ UNCHANGED <<chainVars, rows, todo, cur, roots, sent, born>>

Paid == Pays(amount, SplitFee(built.outputs), built)

Spendable == splitRow[1] \in network /\ splitRow \in Ours /\ ~SpentOnNetwork(splitRow) /\ Paid

\* A mistake: the row is marked before the answer is known.
MarkAndSend ==
    /\ step = "send"
    /\ MarkUTXOAsSpent({splitRow})
    /\ \/ /\ sent' = Spendable
          /\ step' = IF Spendable THEN "mark" ELSE "failed"
       \/ unreliable /\ sent' \in {FALSE, Spendable} /\ step' = "failed"
    /\ UNCHANGED <<chainVars, todo, cur, roots, splitRow, amount, built, born>>

\* The node refuses what it cannot find, or does not pay.  Any error is fatal,
\* one of a split it has taken too.
SendSplit ==
    /\ step = "send"
    /\ \/ /\ sent' = Spendable
          /\ step' = IF Spendable THEN "mark" ELSE "failed"
       \/ unreliable /\ sent' \in {FALSE, Spendable} /\ step' = "failed"
    /\ UNCHANGED <<chainVars, rows, todo, cur, roots, splitRow, amount, built, born>>

MarkRow ==
    /\ step = "mark"
    /\ MarkUTXOAsSpent({splitRow})
    /\ step' = "save"
    /\ UNCHANGED <<chainVars, todo, cur, roots, splitVars>>

\* SaveTransactionOutputs writes all rows or none, one for the data output 0
\* among them.
SaveTransactionOutputs ==
    /\ step = "save"
    /\ born' \in IF unreliable THEN {{}, 0 .. built.outputs} ELSE {0 .. built.outputs}
    /\ step' = "done"
    /\ UNCHANGED <<chainVars, rows, todo, cur, roots, splitRow, amount, built, sent>>

SplitCommand == SelectRow \/ SendSplit \/ MarkRow \/ SaveTransactionOutputs

-----------------------------------------------------------------------------
(* Properties *)

\* The table learns of the split only when the network has it; and of a split
\* that the network has and says so it learns everything (main.go:238-277).
SplitIsRecorded ==
    /\ step \in {"mark", "save"} \/ born # {} => sent
    /\ sent \/ splitRow = NoRow \/ splitRow \in unspent
    /\ splitRow # NoRow /\ step = "done" /\ ~unreliable =>
           splitRow \in spent /\ born = 0 .. built.outputs

\* A row that covers the fee is never overdrawn, and no output is dust,
\* whatever number of outputs is asked for (BuildSplitTransaction).
SplitPays == built # NoOutputs /\ amount >= SplitFee(built.outputs) => Paid

-----------------------------------------------------------------------------
(* What the documentation or a comment says and the code does not do: TLC    *)
(* refutes each of these in a small instance (README, "Disagreements").      *)

\* builder.go:80, "insufficient funds": what the row cannot pay for is not
\* sent.
OnlyPaidSplits == step = "send" => Paid
=============================================================================
