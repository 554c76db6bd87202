------------------------------- MODULE Wallet -------------------------------
(***************************************************************************)
(* What the commands that look after the table share: its rows, the node   *)
(* and the transaction store of TxChain, and where the command is.  One    *)
(* command runs at a time; other senders may be at work on the network.    *)
(***************************************************************************)
EXTENDS TxChain

CONSTANTS
    Utxos,      \* the outputs <<t, v>> the table may have rows for
    Spends,     \* Spends[t]: the outputs transaction t spends
    Ours,       \* those of Utxos whose script pays our key
    Recent,     \* the coinbase outputs in the last 100 blocks
    Height      \* Height[t]: the block height in the rows of t

ASSUME WalletAssumption ==
    /\ Utxos \subseteq Txs \X Nat
    /\ Spends \in [Txs -> SUBSET (Txs \X Nat)]
    /\ \A t \in Txs : Parents[t] = {o[1] : o \in Spends[t]}
    /\ Ours \subseteq Utxos
    /\ Recent \subseteq Ours
    /\ Height \in [Txs -> Nat]

VARIABLES
    command,        \* which one runs
    rebroadcast,    \* --rebroadcast, or --rebuild-chain
    unspent, spent, \* the rows of the table
    step,           \* where the command is
    todo, cur,      \* the rows it still looks at, and the one it is busy with
    roots           \* the transactions whose ancestors it still traces

flags == <<command, rebroadcast>>     \* never change
rows == <<unspent, spent>>
place == <<step, todo, cur, roots>>

-----------------------------------------------------------------------------
(* The table.  A write that fails is printed at most. *)

Written(S) == IF unreliable THEN SUBSET S ELSE {S}

\* An UPDATE: without a row it has no effect.
MarkUTXOAsSpent(S) ==
    \E W \in Written(S \cap (unspent \cup spent)) :
        unspent' = unspent \ W /\ spent' = spent \cup W

\* INSERT OR REPLACE of rows with Spent = false.
SaveUTXO(S) ==
    \E W \in Written(S) : unspent' = unspent \cup W /\ spent' = spent \ W

-----------------------------------------------------------------------------
(* The node *)

SpentOnNetwork(u) == \E t \in network : u \in Spends[t]

TxsOf(S) == {u[1] : u \in S}

\* The rows that may come first of S where they are ordered by height and
\* output, with the oldest or the newest first.
Oldest(S) ==
    {u \in S : \A w \in S : \/ Height[u[1]] < Height[w[1]]
                            \/ Height[u[1]] = Height[w[1]] /\ (u[1] # w[1] \/ u[2] <= w[2])}

Newest(S) ==
    {u \in S : \A w \in S : \/ Height[u[1]] > Height[w[1]]
                            \/ Height[u[1]] = Height[w[1]] /\ u[2] <= w[2]}

-----------------------------------------------------------------------------
(* Tracing several roots into the same maps: an error of one is printed, and *)
(* the next is traced.                                                       *)

Traced == phase \in {"idle", "traced", "broken"}

TraceRoot ==
    /\ Traced
    /\ \E t \in roots :
         /\ Trace(t, visited, chain)
         /\ roots' = roots \ {t}
    /\ UNCHANGED <<rows, step, todo, cur>>
=============================================================================
