------------------------------ MODULE TxChain -------------------------------
(***************************************************************************)
(* Recovery of transactions the node has lost, internal/txchain: trace the *)
(* missing ancestors of a transaction in the transaction store, sort them, *)
(* send them again.  A caller sets it going with Trace, StartSort and      *)
(* StartSend, and acts on the phase it stops in (modules Resync, Verify    *)
(* and BroadcastTx).                                                       *)
(*                                                                         *)
(* Transactions are values; Parents gives those whose outputs each spends. *)
(***************************************************************************)
EXTENDS Integers, FiniteSets, SequencesExt

CONSTANTS
    Txs,
    Parents,      \* Parents[t]: the transactions t spends outputs of
    MaxDepth,     \* the depth BuildTransactionChain does not pass: 100
    MaxOthers     \* bound: transactions the node gets from someone else

ASSUME ChainAssumption ==
    /\ IsFiniteSet(Txs)
    /\ Parents \in [Txs -> SUBSET Txs]
    /\ \E rank \in [Txs -> 0 .. Cardinality(Txs)] :
           \A t \in Txs : \A p \in Parents[t] : rank[p] < rank[t]
    /\ MaxDepth \in Nat /\ MaxOthers \in Nat

VARIABLES
    unreliable,  \* requests to the node, or its answers, may be lost in this run
    network,     \* the transactions the node has
    stored,      \* those in the transaction store, which does not change
    phase,       \* where the recovery is
    frames,      \* frames[d]: the transactions still to visit d - 1 levels down
    visited,
    gap,         \* tracing into these maps has ended with an error
    chain,       \* the missing transactions that could be loaded
    degree, queue, sorted,   \* the sort
    unsent,      \* what is left to send
    successful, failed,      \* what the node took or had, and what it refused
    orphans,     \* those it refused for want of a parent
    others       \* only bounds the model

chainVars == <<unreliable, network, stored, phase, frames, visited, gap, chain, degree,
               queue, sorted, unsent, successful, failed, orphans, others>>

Phases == {"idle", "trace", "broken", "traced", "sort", "circular", "ordered", "send", "sent"}

\* The types of the variables, and how deep the recursion goes.
TypeOK ==
    /\ {network, stored, visited, chain, successful, failed, orphans} \subseteq SUBSET Txs
    /\ {unreliable, gap} \subseteq BOOLEAN /\ phase \in Phases
    /\ frames \in Seq(SUBSET Txs) /\ Len(frames) <= MaxDepth + 2
    /\ degree \in [DOMAIN degree -> Int] /\ DOMAIN degree \subseteq Txs
    /\ {queue, sorted, unsent} \subseteq Seq(Txs)
    /\ others \in 0 .. MaxOthers

Init ==
    /\ unreliable \in BOOLEAN
    /\ network \in SUBSET Txs /\ stored \in SUBSET Txs
    /\ phase = "idle"
    /\ frames = <<>> /\ visited = {} /\ gap = FALSE /\ chain = {}
    /\ degree = <<>> /\ queue = <<>> /\ sorted = <<>> /\ unsent = <<>>
    /\ successful = {} /\ failed = {} /\ orphans = {}
    /\ others = 0

-----------------------------------------------------------------------------
(* The node *)

Lost == IF unreliable THEN {"lost"} ELSE {}

\* What the node can say when it is asked for a transaction.  A storage error
\* is taken for an answer that it does not have it.  That it has what it does not
\* is taken to be impossible: every caller believes it.
Says(t) ==
    {IF t \in network THEN "found" ELSE "missing"} \cup Lost
        \cup (IF unreliable THEN {"missing"} ELSE {})

\* What a node can say to a transaction, and the transactions it then has.
Answer(t) ==
    IF t \in network THEN [says |-> "exists", net |-> network]
    ELSE IF Parents[t] \subseteq network THEN [says |-> "accepted", net |-> network \cup {t}]
    ELSE [says |-> "orphan", net |-> network]

\* What the caller of BroadcastTransaction sees of it.
Broadcasts(t) ==
    {Answer(t)} \cup {[says |-> e, net |-> n] : e \in Lost, n \in {network, Answer(t).net}}

\* The same transactions reach the node on another way.
Elsewhere(t) ==
    /\ others < MaxOthers
    /\ t \notin network /\ Parents[t] \subseteq network
    /\ network' = network \cup {t}
    /\ others' = others + 1
    /\ UNCHANGED <<unreliable, stored, phase, frames, visited, gap, chain, degree, queue,
                   sorted, unsent, successful, failed, orphans>>

-----------------------------------------------------------------------------
(* BuildTransactionChain *)

building == <<unreliable, network, stored, degree, queue, sorted, unsent, successful, failed, orphans, others>>

\* The call for a root; the maps of an earlier call are passed on or new.
Trace(t, seen, found) ==
    /\ phase' = "trace"
    /\ frames' = <<{t}>>
    /\ visited' = seen /\ chain' = found
    /\ gap' = (gap /\ seen # {})
    /\ UNCHANGED building

\* A mistake: one parent of a transaction is followed.
VisitOneParent(t) ==
    /\ phase = "trace" /\ frames # <<>> /\ t \in Last(frames)
    /\ Len(frames) <= MaxDepth + 1
    /\ visited' = visited \cup {t}
    /\ LET rest == Front(frames) \o <<Last(frames) \ {t}>>
       IN  \E says \in Says(t) \ {"lost"} :
             IF t \in visited \/ says = "found" \/ t \notin stored \/ Parents[t] = {}
             THEN frames' = rest /\ UNCHANGED chain
             ELSE frames' = Append(rest, {CHOOSE p \in Parents[t] : TRUE}) /\ chain' = chain \cup {t}
    /\ UNCHANGED <<phase, gap, building>>

\* A mistake: the depth is not looked at.
VisitAtAnyDepth(t) ==
    /\ phase = "trace" /\ frames # <<>> /\ t \in Last(frames)
    /\ visited' = visited \cup {t}
    /\ LET rest == Front(frames) \o <<Last(frames) \ {t}>>
       IN  \E says \in Says(t) \ {"lost"} :
             IF t \in visited \/ says = "found" \/ t \notin stored
             THEN frames' = rest /\ UNCHANGED chain
             ELSE frames' = Append(rest, Parents[t]) /\ chain' = chain \cup {t}
    /\ UNCHANGED <<phase, gap, building>>

\* The recursive call for t: nothing to do if it was visited, if the node has
\* it, or if it cannot be loaded; otherwise its parents are next.
Visit(t) ==
    /\ phase = "trace" /\ frames # <<>> /\ t \in Last(frames)
    /\ Len(frames) <= MaxDepth + 1
    /\ visited' = visited \cup {t}
    /\ LET rest == Front(frames) \o <<Last(frames) \ {t}>>
       IN  \E says \in Says(t) \ {"lost"} :
             IF t \in visited \/ says = "found" \/ t \notin stored
             THEN frames' = rest /\ UNCHANGED chain
             ELSE frames' = Append(rest, Parents[t]) /\ chain' = chain \cup {t}
    /\ UNCHANGED <<phase, gap, building>>

\* The chain is too deep, or the node cannot be asked: the error goes all the
\* way up.
VisitFails(t) ==
    /\ phase = "trace" /\ frames # <<>> /\ t \in Last(frames)
    /\ Len(frames) > MaxDepth + 1 \/ (unreliable /\ t \notin visited)
    /\ phase' = "broken"
    /\ frames' = <<>> /\ gap' = TRUE
    /\ visited' = IF Len(frames) > MaxDepth + 1 THEN visited ELSE visited \cup {t}
    /\ UNCHANGED <<chain, building>>

\* The parents of a transaction are done, or the root itself is.
LevelDone ==
    /\ phase = "trace" /\ frames # <<>> /\ Last(frames) = {}
    /\ frames' = Front(frames)
    /\ phase' = IF Len(frames) = 1 THEN "traced" ELSE "trace"
    /\ UNCHANGED <<visited, gap, chain, building>>

-----------------------------------------------------------------------------
(* TopologicalSort, over maps that Go iterates in any order *)

sorting == <<unreliable, network, stored, frames, visited, gap, chain, unsent, successful, failed, orphans, others>>

Children(t) == {c \in chain : t \in Parents[c]}

\* A mistake, and what the name says: count those it depends on.
ParentsInChain(t) == Cardinality(Parents[t] \cap chain)

\* The code counts for each transaction those that depend on it.
InDegree(t) == Cardinality(Children(t))

StartSort ==
    /\ phase' = "sort"
    /\ degree' = [t \in chain |-> InDegree(t)]
    /\ queue' \in SetToSeqs({t \in chain : InDegree(t) = 0})
    /\ sorted' = <<>>
    /\ UNCHANGED sorting

SortNext ==
    /\ phase = "sort" /\ queue # <<>>
    /\ LET t == Head(queue)
           left == [c \in chain |-> IF c \in Children(t) THEN degree[c] - 1 ELSE degree[c]]
       IN  /\ degree' = left
           /\ \E s \in SetToSeqs({c \in Children(t) : left[c] = 0}) : queue' = Tail(queue) \o s
           /\ sorted' = Append(sorted, t)
    /\ UNCHANGED <<phase, sorting>>

SortDone ==
    /\ phase = "sort" /\ queue = <<>>
    /\ IF Len(sorted) # Cardinality(chain)
       THEN phase' = "circular" /\ UNCHANGED sorted
       ELSE phase' = "ordered" /\ sorted' = Reverse(sorted)
    /\ UNCHANGED <<degree, queue, sorting>>

-----------------------------------------------------------------------------
(* RebroadcastChain *)

sending == <<unreliable, stored, frames, visited, gap, chain, degree, queue, sorted, others>>

StartSend ==
    /\ phase' = "send"
    /\ unsent' = sorted
    /\ successful' = {} /\ failed' = {} /\ orphans' = {}
    /\ UNCHANGED <<network, sending>>

\* A mistake: a missing parent is not counted as a failure.
Forgives(says) == says \in {"accepted", "exists", "orphan"}

Succeeds(says) == says \in {"accepted", "exists"}

Rebroadcast ==
    /\ phase = "send" /\ unsent # <<>>
    /\ LET t == Head(unsent)
       IN  \E r \in Broadcasts(t) :
             /\ network' = r.net
             /\ successful' = IF Succeeds(r.says) THEN successful \cup {t} ELSE successful
             /\ failed' = IF Succeeds(r.says) THEN failed ELSE failed \cup {t}
             /\ orphans' = IF r.says = "orphan" THEN orphans \cup {t} ELSE orphans
    /\ unsent' = Tail(unsent)
    /\ UNCHANGED <<phase, sending>>

SendDone ==
    /\ phase = "send" /\ unsent = <<>>
    /\ phase' = "sent"
    /\ UNCHANGED <<network, unsent, successful, failed, orphans, sending>>

-----------------------------------------------------------------------------
\* One step of the recovery itself.
Recover ==
    \/ \E t \in Txs : Visit(t) \/ VisitFails(t)
    \/ LevelDone \/ SortNext \/ SortDone \/ Rebroadcast \/ SendDone

-----------------------------------------------------------------------------
(* Properties *)

\* Tracing that ends without an error has left no gap: what a transaction of
\* the chain needs is in the chain, on the network, or nowhere to be loaded
\* from (BuildTransactionChain, with its visited map shared by the branches,
\* and by the roots where verify and broadcast-tx trace several).
ChainIsComplete ==
    ~gap /\ phase \in {"traced", "sort", "circular", "ordered", "send", "sent"} =>
        \A t \in chain : Parents[t] \subseteq chain \cup network \cup (Txs \ stored)

\* When the chain is sent, the node misses a parent only of a transaction with
\* a parent that could not be loaded, or was itself refused before: unless
\* tracing ended with an error, neither the chain nor the order of sending
\* (TopologicalSort, RebroadcastChain) causes it.
OrphansCannotBeHelped ==
    ~gap => \A t \in orphans : \E p \in Parents[t] : p \notin stored \/ p \in failed

\* RebroadcastChain without a failure has put the whole chain on the network.
SuccessMeansRecovered ==
    phase = "sent" /\ failed = {} => chain \subseteq network

-----------------------------------------------------------------------------
(* What the documentation or a comment says and the code does not do: TLC    *)
(* refutes each of these in a small instance (README, "Disagreements").      *)

\* rebuilder.go:204: "sorts transactions in dependency order (parents before
\* children)"; the sort gives up with "circular dependency detected", which a
\* set of transactions never has.
NeverCircular == phase # "circular"
=============================================================================
