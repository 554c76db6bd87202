--------------------------- MODULE Commands_proofs ---------------------------
(* What holds of the commands that look after the table for every set of     *)
(* transactions, outputs and rows, every network and store they find, and    *)
(* any number of other senders.                                              *)
EXTENDS Commands, TxChain_proofs, Builders_proofs

CommandTypes ==
    /\ command \in {"resync", "verify", "broadcast-tx", "broadcast", "split", "cleanup"}
    /\ unspent \subseteq Utxos /\ spent \subseteq Utxos /\ unspent \cap spent = {}
    /\ todo \subseteq Utxos
    /\ cur = {} \/ (step = "rows" /\ \E u \in todo : cur = {u})
    /\ valid \subseteq Utxos /\ toMarkSpent \subseteq Utxos /\ toMarkUnspent \subseteq Utxos
    /\ toDelete \subseteq Utxos /\ missing \subseteq Utxos /\ affected \subseteq Utxos
    /\ resent \subseteq Utxos /\ available \subseteq Utxos
    /\ roots \subseteq Txs /\ target \in Txs
    /\ answer \in [spent : BOOLEAN, ours : BOOLEAN]

\* resync begins each recovery with new maps, and gives a row up where tracing
\* breaks off.
ResyncInv ==
    command = "resync" =>
        /\ OrphansInv
        /\ phase # "broken" => ~gap
        /\ \A u \in cur : u[1] \in stored /\ (gap \/ Pending(u[1]))
        /\ step \in {"list", "rows", "scan", "done"}

\* What a command reports, or makes a row unspent for, is on the network.
NetworkInv ==
    /\ TxsOf(valid \cup resent \cup available \cup toMarkUnspent) \subseteq network
    /\ command = "broadcast-tx" /\ result = "ok" => target \in network
    /\ command = "verify" /\ step = "rows" /\ ~answer.spent => TxsOf(cur) \subseteq network

CInv == CommandTypes /\ ChainInv /\ ResyncInv /\ NetworkInv

-----------------------------------------------------------------------------
(* What a step of a command does to the recovery *)

\* It only adds to the network.
OnlyAdds ==
    /\ network \subseteq network' /\ network' \subseteq Txs
    /\ others' = others \/ (others < MaxOthers /\ others' = others + 1)
    /\ UNCHANGED <<unreliable, stored, phase, frames, visited, gap, chain, degree, queue,
                   sorted, unsent, successful, failed, orphans>>

ChainStep ==
    \/ Recover
    \/ phase # "trace" /\ \E t \in Txs : Trace(t, visited, chain)
    \/ OrphansInv /\ \E t \in Txs : Trace(t, {}, {})
    \/ phase # "trace" /\ StartSort
    \/ phase = "ordered" /\ StartSend
    \/ OnlyAdds

LEMMA ChainKept == ChainInv /\ ChainStep => ChainInv' /\ network \subseteq network' /\ UNCHANGED <<unreliable, stored>>
  <1> SUFFICES ASSUME ChainInv, ChainStep
               PROVE  ChainInv' /\ network \subseteq network' /\ UNCHANGED <<unreliable, stored>>
    OBVIOUS
  <1>1. CASE Recover
    BY <1>1, RecoverKeepsChain, RecoverOnlyAdds
  <1>2. CASE phase # "trace" /\ \E t \in Txs : Trace(t, visited, chain)
    BY <1>2, TraceStep DEF Trace, building
  <1>3. CASE OrphansInv /\ \E t \in Txs : Trace(t, {}, {})
    BY <1>3, TraceStep DEF Trace, building
  <1>4. CASE phase # "trace" /\ StartSort
    BY <1>4, StartSortStep DEF StartSort, sorting
  <1>5. CASE phase = "ordered" /\ StartSend
    BY <1>5, StartSendStep DEF StartSend, sending
  <1>6. CASE OnlyAdds
    BY <1>6, NetworkStep DEF OnlyAdds, ChainInv, ChainTypes
  <1>7. QED
    BY <1>1, <1>2, <1>3, <1>4, <1>5, <1>6 DEF ChainStep

LEMMA Still == ChainInv /\ UNCHANGED chainVars => OnlyAdds
  BY DEF chainVars, OnlyAdds, ChainInv, ChainTypes

\* The first component of a row is a transaction.
LEMMA RowsOfTxs == \A S : S \subseteq Utxos => TxsOf(S) \subseteq Txs
  BY WalletAssumption DEF TxsOf

LEMMA ResyncChainStep == ASSUME CInv, command = "resync", ResyncCommand PROVE ChainStep
  <1> USE DEF CInv
  <1>1. CASE UNCHANGED chainVars
    BY <1>1, Still DEF ChainStep
  <1>2. ASSUME NEW u \in Utxos, SendAgain(u) PROVE ChainStep
    <2>1. u[1] \in Txs
      BY WalletAssumption
    <2>2. PICK r \in Broadcasts(u[1]) :
            /\ network' = r.net
            /\ \/ UNCHANGED tracing
               \/ /\ r.says = "orphan"
                  /\ phase' = "trace" /\ frames' = <<{u[1]}>>
                  /\ visited' = {} /\ gap' = FALSE /\ chain' = {}
      BY <1>2 DEF SendAgain
    <2>3. CASE UNCHANGED tracing
      BY <1>2, <2>1, <2>2, <2>3, Answers
      DEF SendAgain, tracing, notNetwork, ChainStep, OnlyAdds, ChainInv, ChainTypes
    <2>4. CASE ~ UNCHANGED tracing
      <3>1. network' = network
        BY <2>1, <2>2, <2>4, Answers DEF ChainInv, ChainTypes
      <3>2. Trace(u[1], {}, {})
        BY <1>2, <2>2, <2>4, <3>1 DEF SendAgain, notNetwork, Trace, building
      <3>3. QED
        BY <2>1, <3>2 DEF ResyncInv, ChainStep
    <2>5. QED
      BY <2>3, <2>4
  <1>3. CASE Recover \/ (Recovering("traced") /\ StartSort) \/ (Recovering("ordered") /\ StartSend)
    BY <1>3 DEF ChainStep, Recovering
  <1>4. QED
    BY <1>1, <1>2, <1>3
    DEF ResyncCommand, List, StartScan, ScanRecentBlocks, NotStored, CannotRecover, Recovered

\* Tracing one of the roots.
LEMMA TraceRootStep == CommandTypes /\ TraceRoot => ChainStep
  BY DEF CommandTypes, TraceRoot, Traced, ChainStep

LEMMA VerifyChainStep == ASSUME CInv, VerifyCommand PROVE ChainStep
  <1> USE DEF CInv
  <1>1. CASE UNCHANGED chainVars
    BY <1>1, Still DEF ChainStep
  <1>2. ASSUME NEW u \in Utxos, Resend(u) PROVE ChainStep
    <2>1. u[1] \in Txs
      BY WalletAssumption
    <2>2. network' = network \/ \E r \in Broadcasts(u[1]) : network' = r.net
      BY <1>2 DEF Resend
    <2>3. QED
      BY <1>2, <2>1, <2>2, Answers DEF Resend, ChainStep, OnlyAdds, ChainInv, ChainTypes
  <1>3. CASE SortAll \/ SendAll
    BY <1>1, <1>3 DEF SortAll, SendAll, Traced, ChainStep
  <1>4. CASE Recover \/ TraceRoot
    BY <1>4, TraceRootStep DEF ChainStep
  <1>5. QED
    BY <1>1, <1>2, <1>3, <1>4
    DEF VerifyCommand, ListAll, Checked, TraceOthers, ChainSent, Rechecked, Resent, RecheckedAll,
        ApplyFixes, CheckUTXO, CheckTransactionExists, Note, Recheck

LEMMA BroadcastChainStep == ASSUME CInv, BroadcastTxCommand \/ SendGiven PROVE ChainStep
  <1> USE DEF CInv
  <1>1. CASE UNCHANGED chainVars
    BY <1>1, Still DEF ChainStep
  <1>2. CASE SendTarget \/ SendGiven
    <2>1. \E r \in Broadcasts(target) : network' = r.net
      BY <1>2 DEF SendTarget, SendGiven
    <2>2. QED
      BY <1>2, <2>1, Answers
      DEF SendTarget, SendGiven, ChainStep, OnlyAdds, ChainInv, ChainTypes, CommandTypes
  <1>3. CASE SortAncestors \/ SendAncestors
    BY <1>1, <1>3 DEF SortAncestors, SendAncestors, Traced, ChainStep
  <1>4. CASE Recover \/ TraceRoot
    BY <1>4, TraceRootStep DEF ChainStep
  <1>5. QED
    BY <1>1, <1>2, <1>3, <1>4
    DEF BroadcastTxCommand, TraceAncestors, Load, CannotSort, AncestorsSent

LEMMA OtherChainStep ==
    ASSUME CInv, Other \/ SplitCommand \/ CleanUp \/ UNCHANGED vars PROVE ChainStep
  <1>1. CASE UNCHANGED chainVars
    BY <1>1, Still DEF ChainStep, CInv
  <1>2. CASE Other
    BY <1>2 DEF Other, Elsewhere, ChainStep, OnlyAdds, CInv, ChainInv, ChainTypes
  <1>3. QED
    BY <1>1, <1>2
    DEF SplitCommand, SelectRow, SendSplit, MarkRow, SaveTransactionOutputs, CleanUp, vars

LEMMA EveryChainStep == CInv /\ [CommandsNext]_vars => ChainStep
  BY ResyncChainStep, VerifyChainStep, BroadcastChainStep, OtherChainStep DEF CommandsNext, Command

\* Whatever runs, the recovery keeps its invariant, and the network grows.
LEMMA ChainStays ==
    ASSUME CInv, [CommandsNext]_vars
    PROVE  ChainInv' /\ network \subseteq network' /\ UNCHANGED <<unreliable, stored, command, rebroadcast>>
  <1>1. ChainStep
    BY EveryChainStep
  <1>2. UNCHANGED <<command, rebroadcast>>
    BY DEF CommandsNext, Command, Other, flags, vars
  <1>3. QED
    BY <1>1, <1>2, ChainKept DEF CInv

-----------------------------------------------------------------------------
(* The types *)

\* A write concerns what it is meant for, or less, and all of it if it cannot fail.
LEMMA Writes == \A S : \A W \in Written(S) : W \subseteq S /\ (~unreliable => W = S)
  BY DEF Written

RowTypes == unspent \subseteq Utxos /\ spent \subseteq Utxos /\ unspent \cap spent = {}

LEMMA MarkKeepsTypes ==
    ASSUME RowTypes, NEW S, MarkUTXOAsSpent(S)
    PROVE  RowTypes' /\ unspent' \subseteq unspent
  BY Writes DEF MarkUTXOAsSpent, RowTypes

LEMMA SaveKeepsTypes ==
    ASSUME RowTypes, NEW S \in SUBSET Utxos, SaveUTXO(S)
    PROVE  RowTypes' /\ unspent' \subseteq unspent \cup S
  BY Writes DEF SaveUTXO, RowTypes

LEMMA ResyncTypes ==
    ASSUME CommandTypes, ResyncCommand, UNCHANGED <<flags, verifyVars, broadcastVars, splitVars>>
    PROVE  CommandTypes'
  <1> USE DEF CommandTypes, flags, verifyVars, fixes, broadcastVars
  <1>0. RowTypes
    BY DEF RowTypes
  <1>1. CASE List
    BY <1>1 DEF List, resyncVars, rows
  <1>2. ASSUME NEW u \in Utxos, NotStored(u) PROVE CommandTypes'
    <2>1. RowTypes'
      BY <1>0, <1>2, MarkKeepsTypes DEF NotStored, Invalidate
    <2>2. QED
      BY <1>2, <2>1 DEF NotStored, Idle, Invalidate, RowDone, RowTypes
  <1>3. ASSUME NEW u \in Utxos, SendAgain(u) PROVE CommandTypes'
    <2>1. RowTypes'
      BY <1>0, <1>3, MarkKeepsTypes DEF SendAgain, Validate, Invalidate, RowTypes, rows
    <2>2. u \in todo
      BY <1>3 DEF SendAgain, Oldest
    <2>3. QED
      BY <1>3, <2>1, <2>2 DEF SendAgain, Idle, Validate, Invalidate, RowDone, RowTypes, resyncVars
  <1>4. CASE CannotRecover
    <2>1. PICK u \in cur : Invalidate(u)
      BY <1>4 DEF CannotRecover
    <2>2. RowTypes'
      BY <1>0, <2>1, MarkKeepsTypes DEF Invalidate
    <2>3. QED
      BY <2>1, <2>2 DEF Invalidate, RowDone, RowTypes
  <1>5. CASE Recovered
    BY <1>5 DEF Recovered, Validate, RowDone, rows
  <1>6. CASE StartScan
    BY <1>6 DEF StartScan, Idle, rows, resyncVars
  <1>7. CASE ScanRecentBlocks
    <2>1. {u \in Recent : u[1] \in network} \in SUBSET Utxos
      BY WalletAssumption
    <2>2. RowTypes'
      BY <1>0, <1>7, <2>1, SaveKeepsTypes DEF ScanRecentBlocks
    <2>3. QED
      BY <1>7, <2>2 DEF ScanRecentBlocks, RowTypes, resyncVars
  <1>8. CASE UNCHANGED <<rows, place, resyncVars>>
    BY <1>8 DEF rows, place, resyncVars
  <1>9. QED
    BY <1>1, <1>2, <1>3, <1>4, <1>5, <1>6, <1>7, <1>8 DEF ResyncCommand

LEMMA VerifyTypes ==
    ASSUME CommandTypes, VerifyCommand, UNCHANGED <<flags, resyncVars, broadcastVars, splitVars>>
    PROVE  CommandTypes'
  <1> USE DEF CommandTypes, flags, resyncVars, broadcastVars
  <1>0. RowTypes /\ \A S : S \subseteq Utxos => TxsOf(S) \subseteq Txs
    BY RowsOfTxs DEF RowTypes
  <1>a. /\ NoAnswer \in [spent : BOOLEAN, ours : BOOLEAN]
        /\ \A u, says : Response(u, says) \in [spent : BOOLEAN, ours : BOOLEAN]
    BY DEF NoAnswer, Response, SpentOnNetwork
  <1>1. CASE ListAll
    BY <1>1 DEF ListAll, verifyVars, fixes, rows
  <1>2. ASSUME NEW u \in Utxos, NEW says, CheckUTXO(u, says) PROVE CommandTypes'
    <2>1. u \in todo /\ step = "rows" /\ cur = {} /\ missing' \subseteq Utxos
      BY <1>2 DEF CheckUTXO, Newest, Noted
    <2>2. CASE Note(u, Response(u, says))
      BY <1>a, <1>2, <2>1, <2>2 DEF CheckUTXO, Note, rows
    <2>3. CASE ~Note(u, Response(u, says))
      BY <1>a, <1>2, <2>1, <2>3 DEF CheckUTXO, rows, fixes
    <2>4. QED
      BY <2>2, <2>3
  <1>3. ASSUME NEW u \in Utxos, NEW says, CheckTransactionExists(u, says) PROVE CommandTypes'
    BY <1>a, <1>3 DEF CheckTransactionExists, Note, rows
  <1>4. CASE Checked \/ TraceOthers
    BY <1>0, <1>4 DEF Checked, TraceOthers, verifyVars, fixes, rows
  <1>5. CASE SortAll \/ SendAll \/ ChainSent \/ Rechecked
    BY <1>0, <1>5 DEF SortAll, SendAll, ChainSent, Rechecked, SendOthers, verifyVars, fixes, rows, place
  <1>6. ASSUME NEW u \in Utxos, NEW says, Recheck(u, says) PROVE CommandTypes'
    <2>1. missing' \subseteq Utxos
      BY <1>6 DEF Recheck, Noted
    <2>2. RowTypes' /\ available' \subseteq Utxos
      <3>1. {u} \in SUBSET Utxos
        OBVIOUS
      <3>2. CASE SaveUTXO({u}) /\ available' = available \cup ({u} \cap unspent')
        BY <1>0, <3>1, <3>2, SaveKeepsTypes
      <3>3. CASE UNCHANGED <<rows, available>>
        BY <1>0, <3>3 DEF rows, RowTypes
      <3>4. QED
        BY <1>6, <3>2, <3>3 DEF Recheck
    <2>3. QED
      BY <1>6, <2>1, <2>2 DEF Recheck, RowTypes, fixes
  <1>7. ASSUME NEW u \in Utxos, Resend(u) PROVE CommandTypes'
    BY <1>7 DEF Resend, rows, fixes
  <1>8. CASE Resent \/ RecheckedAll
    BY <1>8 DEF Resent, RecheckedAll, verifyVars, fixes, rows
  <1>9. CASE ApplyFixes
    <2>1. PICK S \in Written(toMarkSpent), F \in Written(toMarkUnspent), D \in Written(toDelete) :
            /\ unspent' = ((unspent \ S) \cup F) \ D
            /\ spent' = ((spent \cup S) \ F) \ D
      BY <1>9 DEF ApplyFixes
    <2>2. S \subseteq toMarkSpent /\ F \subseteq toMarkUnspent
      BY Writes
    <2>3. RowTypes'
      BY <2>1, <2>2 DEF RowTypes
    <2>4. QED
      BY <1>9, <2>3 DEF ApplyFixes, RowTypes, verifyVars, fixes
  <1>10. CASE TraceRoot /\ UNCHANGED verifyVars
    BY <1>10 DEF TraceRoot, rows, verifyVars, fixes
  <1>11. CASE UNCHANGED <<rows, place, verifyVars>>
    BY <1>11 DEF rows, place, verifyVars, fixes
  <1>12. QED
    BY <1>1, <1>2, <1>3, <1>4, <1>5, <1>6, <1>7, <1>8, <1>9, <1>10, <1>11 DEF VerifyCommand

LEMMA OtherTypes ==
    ASSUME CommandTypes, UNCHANGED <<flags, resyncVars, verifyVars>>,
           \/ (BroadcastTxCommand \/ SendGiven) /\ UNCHANGED splitVars
           \/ (SplitCommand \/ CleanUp) /\ UNCHANGED broadcastVars
    PROVE  CommandTypes'
  <1> USE DEF CommandTypes, flags, resyncVars, verifyVars, fixes, broadcastVars
  <1>0. RowTypes
    BY DEF RowTypes
  <1>1. CASE Load
    BY <1>1, ChainAssumption DEF Load, Report, rows
  <1>2. CASE SortAncestors \/ CannotSort \/ SendAncestors \/ AncestorsSent \/ SendTarget \/ SendGiven
    BY <1>2 DEF SortAncestors, CannotSort, SendAncestors, AncestorsSent, SendTarget, SendGiven, Report,
                rows, place
  <1>3. CASE TraceAncestors /\ UNCHANGED broadcastVars
    BY <1>3 DEF TraceAncestors, TraceRoot, rows
  <1>4. CASE UNCHANGED <<rows, place, broadcastVars>>
    BY <1>4 DEF rows, place
  <1>5. CASE (SplitCommand \/ CleanUp) /\ UNCHANGED broadcastVars
    <2>1. RowTypes'
      BY <1>0, <1>5, MarkKeepsTypes
      DEF SplitCommand, SelectRow, SendSplit, MarkRow, SaveTransactionOutputs, CleanUp, rows, RowTypes
    <2>2. step # "rows" => cur = {}
      OBVIOUS
    <2>3. UNCHANGED <<todo, cur, roots>> /\ step # "rows"
      BY <1>5 DEF SplitCommand, SelectRow, SendSplit, MarkRow, SaveTransactionOutputs, CleanUp
    <2>4. QED
      BY <1>5, <2>1, <2>2, <2>3 DEF RowTypes
  <1>6. QED
    BY <1>1, <1>2, <1>3, <1>4, <1>5 DEF BroadcastTxCommand

LEMMA TypesStay == ASSUME CInv, [CommandsNext]_vars PROVE CommandTypes'
  <1>1. CASE Other \/ UNCHANGED vars
    BY <1>1 DEF Other, vars, flags, rows, place, resyncVars, verifyVars, fixes, broadcastVars, CInv, CommandTypes
  <1>2. QED
    BY <1>1, ResyncTypes, VerifyTypes, OtherTypes DEF CommandsNext, Command, CInv

-----------------------------------------------------------------------------
(* Recovery in resync *)

LEMMA ResyncStays ==
    ASSUME CInv, command = "resync", ResyncCommand, UNCHANGED flags
    PROVE  ResyncInv'
  <1> USE DEF CInv, ResyncInv
  <1>0. ChainInv' /\ UNCHANGED <<stored, command>> /\ CommandTypes
    BY ResyncChainStep, ChainKept DEF flags
  <1>1. CASE UNCHANGED chainVars /\ cur' \subseteq cur
    <2>1. \A x : Pending(x) => Pending(x)'
      BY <1>1 DEF Pending, chainVars
    <2>2. step' \in {"list", "rows", "scan", "done"}
      BY <1>0, <1>1
      DEF ResyncCommand, List, StartScan, ScanRecentBlocks, NotStored, SendAgain, CannotRecover, Recovered,
          Invalidate, Validate, RowDone, place
    <2>3. QED
      BY <1>0, <1>1, <2>1, <2>2 DEF chainVars, OrphansInv
  <1>2. ASSUME NEW u \in Utxos, SendAgain(u) PROVE ResyncInv'
    <2>1. /\ orphans' = orphans /\ step' = step
          /\ \/ cur' = {} /\ UNCHANGED tracing
             \/ cur' = {u} /\ u[1] \in stored /\ phase' = "trace" /\ gap' = FALSE /\ frames' = <<{u[1]}>>
      BY <1>2 DEF SendAgain, notNetwork, Validate, Invalidate, RowDone
    <2>2. frames' = <<{u[1]}>> => Pending(u[1])'
      BY DEF Pending
    <2>3. QED
      BY <1>0, <2>1, <2>2 DEF OrphansInv, tracing
  <1>3. CASE Recover /\ UNCHANGED <<rows, place, resyncVars>>
    <2>1. \A x : Pending(x) => gap' \/ Pending(x)'
      BY <1>3, RecoverKeepsPending
    <2>2. /\ phase \notin {"broken", "idle"}
          /\ phase' = "broken" => orphans' = orphans
          /\ phase' # "broken" => gap' = gap
          /\ gap => gap'
      BY <1>3
      DEF Recover, Visit, VisitFails, LevelDone, SortNext, SortDone, Rebroadcast, SendDone,
          building, sorting, sending
    <2>3. OrphansInv'
      BY <1>0, <2>2 DEF OrphansInv, ChainInv
    <2>4. QED
      BY <1>0, <1>3, <2>1, <2>2, <2>3 DEF place
  <1>4. CASE /\ (Recovering("traced") /\ StartSort) \/ (Recovering("ordered") /\ StartSend)
             /\ UNCHANGED <<rows, place, resyncVars>>
    <2>1. UNCHANGED <<visited, frames, gap>> /\ phase # "broken" /\ phase' # "broken"
      BY <1>4 DEF StartSort, StartSend, sorting, sending, Recovering
    <2>2. \A x : Pending(x) => Pending(x)'
      BY <2>1 DEF Pending
    <2>3. QED
      BY <1>0, <1>4, <2>1, <2>2 DEF place, ChainInv
  <1>5. QED
    BY <1>0, <1>1, <1>2, <1>3, <1>4
    DEF ResyncCommand, List, StartScan, ScanRecentBlocks, NotStored, CannotRecover, Recovered,
        Invalidate, Validate, RowDone, CommandTypes

LEMMA OtherKeepsResync ==
    ASSUME CInv, Other \/ UNCHANGED vars PROVE ResyncInv'
  <1>1. UNCHANGED <<command, step, cur, stored, orphans, gap, phase, visited, frames>>
    BY DEF Other, Elsewhere, vars, chainVars, flags, place
  <1>2. \A x : Pending(x) => Pending(x)'
    BY <1>1 DEF Pending
  <1>3. QED
    BY <1>1, <1>2 DEF CInv, ResyncInv, OrphansInv

LEMMA ResyncInvStays == ASSUME CInv, [CommandsNext]_vars PROVE ResyncInv'
  <1>1. CASE command = "resync"
    BY <1>1, ResyncStays, OtherKeepsResync DEF CommandsNext, Command
  <1>2. CASE command # "resync"
    BY <1>2, ChainStays DEF ResyncInv
  <1>3. QED
    BY <1>1, <1>2

-----------------------------------------------------------------------------
(* What is reported and what is offered *)

\* A row whose recovery ended without a failure is on the network.
LEMMA RecoveredRow ==
    ASSUME CInv, command = "resync", Recovering("sent"), failed = {}, NEW u \in cur
    PROVE  u[1] \in network
  <1> USE DEF CInv
  <1>1. phase = "sent" /\ ~gap /\ Pending(u[1]) /\ u[1] \in stored /\ frames = <<>>
    BY DEF Recovering, ResyncInv, ChainInv, TraceInv
  <1>2. u[1] \in visited
    BY <1>1 DEF Pending
  <1>3. u[1] \in chain \cup network
    BY <1>1, <1>2 DEF ChainInv, TraceInv
  <1>4. QED
    BY <1>1, <1>3 DEF ChainInv, SendInv

LEMMA ResyncNetwork ==
    ASSUME CInv, command = "resync", ResyncCommand,
           UNCHANGED <<flags, verifyVars, broadcastVars, splitVars>>
    PROVE  NetworkInv'
  <1>0. network \subseteq network' /\ command' = command
    BY ResyncChainStep, ChainKept DEF CInv, flags
  <1>1. TxsOf(valid') \subseteq network'
    <2>0. TxsOf(valid) \subseteq network'
      BY <1>0 DEF CInv, NetworkInv, TxsOf
    <2>1. CASE valid' = valid
      BY <2>0, <2>1
    <2>2. ASSUME NEW u \in Utxos, SendAgain(u), Validate(u), u[1] \in network' PROVE TxsOf(valid') \subseteq network'
      BY <2>0, <2>2 DEF Validate, TxsOf
    <2>3. ASSUME NEW u \in Utxos, SendAgain(u) PROVE valid' = valid \/ (Validate(u) /\ u[1] \in network')
      <3>1. u[1] \in Txs
        BY WalletAssumption
      <3>2. QED
        BY <2>3, <3>1, Answers DEF SendAgain, Invalidate, resyncVars, CInv, ChainInv, ChainTypes
    <2>4. CASE Recovered
      <3>1. PICK u \in cur : Validate(u)
        BY <2>4 DEF Recovered
      <3>2. u[1] \in network'
        BY <1>0, <2>4, RecoveredRow DEF Recovered
      <3>3. QED
        BY <2>0, <3>1, <3>2 DEF Validate, TxsOf
    <2>5. QED
      BY <2>1, <2>2, <2>3, <2>4
      DEF ResyncCommand, List, StartScan, ScanRecentBlocks, NotStored, CannotRecover, Invalidate, resyncVars
  <1>2. QED
    BY <1>0, <1>1 DEF CInv, NetworkInv, verifyVars, fixes, broadcastVars, TxsOf

\* "found" and what follows from it are said only of what the node has.
LEMMA SaysFound ==
    ASSUME NEW u \in Utxos, NEW says \in Says(u[1])
    PROVE  /\ says = "found" => u[1] \in network
           /\ ~Response(u, says).spent => u[1] \in network
  BY DEF Says, Lost, Response

LEMMA VerifyNetwork ==
    ASSUME CInv, command = "verify", VerifyCommand,
           UNCHANGED <<flags, resyncVars, broadcastVars, splitVars>>
    PROVE  NetworkInv'
  <1> DEFINE Told(S) == TxsOf(S) \subseteq network'
  <1>0. network \subseteq network' /\ command' = command /\ CommandTypes
    BY VerifyChainStep, ChainKept DEF CInv, flags
  <1>1. Told(valid) /\ Told(resent) /\ Told(available) /\ Told(toMarkUnspent)
    BY <1>0 DEF CInv, NetworkInv, TxsOf
  <1>2. /\ \A u : u[1] \in network' => Told({u})
        /\ \A S, R : Told(S) /\ Told(R) => Told(S \cup R)
        /\ \A S, R : S \subseteq R /\ Told(R) => Told(S)
    BY DEF TxsOf
  <1>3. ASSUME NEW u \in Utxos, NEW says \in Says(u[1]), CheckUTXO(u, says)
        PROVE  Told(toMarkUnspent') /\ Told(resent') /\ Told(available')
               /\ (~answer'.spent => Told(cur'))
    <2>1. CASE Note(u, Response(u, says))
      <3>1. toMarkUnspent' = toMarkUnspent
            \/ (u[1] \in network /\ toMarkUnspent' = toMarkUnspent \cup {u})
        BY <2>1, SaysFound DEF Note
      <3>2. cur' = {} /\ resent' = resent /\ available' = available
        BY <2>1 DEF Note
      <3>3. Told(toMarkUnspent')
        BY <1>0, <1>1, <1>2, <3>1
      <3>4. QED
        BY <1>1, <3>2, <3>3 DEF TxsOf
    <2>2. CASE ~Note(u, Response(u, says))
      <3>1. UNCHANGED <<toMarkUnspent, resent, available>>
            /\ (cur' = {} \/ (cur' = {u} /\ (~answer'.spent => u[1] \in network)))
        BY <1>3, <2>2, SaysFound DEF CheckUTXO, fixes
      <3>2. ~answer'.spent => Told(cur')
        BY <1>0, <3>1 DEF TxsOf
      <3>3. QED
        BY <1>1, <3>1, <3>2
    <2>3. QED
      BY <2>1, <2>2
  <1>4. ASSUME NEW u \in Utxos, NEW says, CheckTransactionExists(u, says)
        PROVE  Told(toMarkUnspent') /\ Told(resent') /\ Told(available') /\ cur' = {}
    <2>1. step = "rows" /\ cur = {u} /\ cur' = {} /\ UNCHANGED <<resent, available>>
      BY <1>4 DEF CheckTransactionExists, Note
    <2>2. ~answer.spent => u[1] \in network
      BY <2>1 DEF CInv, NetworkInv, TxsOf
    <2>3. toMarkUnspent' = toMarkUnspent
          \/ (u[1] \in network /\ toMarkUnspent' = toMarkUnspent \cup {u})
      <3>1. CASE answer.spent
        <4>1. [answer EXCEPT !.spent = @ \/ says = "missing"].spent = TRUE
          BY <1>0, <3>1 DEF CommandTypes
        <4>2. QED
          BY <1>4, <4>1 DEF CheckTransactionExists, Note
      <3>2. CASE ~answer.spent
        <4>1. PICK r : Note(u, r)
          BY <1>4 DEF CheckTransactionExists
        <4>2. toMarkUnspent' \in {toMarkUnspent, toMarkUnspent \cup {u}}
          BY <4>1 DEF Note
        <4>3. QED
          BY <2>2, <3>2, <4>2
      <3>3. QED
        BY <3>1, <3>2
    <2>4. Told(toMarkUnspent')
      BY <1>0, <1>1, <1>2, <2>3
    <2>5. QED
      BY <1>1, <2>1, <2>4
  <1>5. ASSUME NEW u \in Utxos, NEW says \in Says(u[1]), Recheck(u, says)
        PROVE  Told(available') /\ Told(resent') /\ Told(toMarkUnspent') /\ step' # "rows"
    <2>1. UNCHANGED <<resent, toMarkUnspent, step>> /\ step # "rows"
      BY <1>5 DEF Recheck, fixes
    <2>2. available' = available \/ (u[1] \in network /\ available' \subseteq available \cup {u})
      BY <1>5, SaysFound DEF Recheck
    <2>3. Told(available')
      BY <1>0, <1>1, <1>2, <2>2
    <2>4. QED
      BY <1>1, <2>1, <2>3
  <1>6. ASSUME NEW u \in Utxos, Resend(u)
        PROVE  Told(available') /\ Told(resent') /\ Told(toMarkUnspent') /\ step' # "rows"
    <2>1. UNCHANGED <<available, toMarkUnspent, step>> /\ step # "rows"
      BY <1>6 DEF Resend, fixes
    <2>2. u[1] \in Txs
      BY WalletAssumption
    <2>3. resent' = resent \/ (u[1] \in network' /\ resent' = resent \cup {u})
      BY <1>6, <2>2, Answers DEF Resend, CInv, ChainInv, ChainTypes
    <2>4. Told(resent')
      BY <1>1, <1>2, <2>3
    <2>5. QED
      BY <1>1, <2>1, <2>4
  <1> HIDE DEF Told
  <1>8. Told(toMarkUnspent') /\ Told(resent') /\ Told(available')
        /\ (step' = "rows" /\ ~answer'.spent => Told(cur'))
    <2>1. CASE ListAll \/ Checked
      <3>1. cur' = {} /\ UNCHANGED <<toMarkUnspent, resent, available>>
        BY <1>0, <2>1 DEF ListAll, Checked, verifyVars, fixes, CommandTypes
      <3>2. Told({})
        BY DEF Told, TxsOf
      <3>3. QED
        BY <1>1, <3>1, <3>2
    <2>2. CASE \/ TraceOthers \/ SortAll \/ SendAll \/ ChainSent \/ Rechecked \/ Resent \/ RecheckedAll
               \/ ApplyFixes
               \/ step \in {"parents", "others"} /\ TraceRoot /\ UNCHANGED verifyVars
               \/ step \in {"parents", "others", "chain"} /\ Recover /\ UNCHANGED <<rows, place, verifyVars>>
      <3>1. UNCHANGED <<toMarkUnspent, resent, available>> /\ step' # "rows"
        BY <2>2
        DEF TraceOthers, SortAll, SendAll, ChainSent, Rechecked, Resent, RecheckedAll, ApplyFixes,
            SendOthers, TraceRoot, verifyVars, fixes, place
      <3>2. QED
        BY <1>1, <3>1
    <2>3. Told({})
      BY DEF Told, TxsOf
    <2>4. QED
      BY <1>3, <1>4, <1>5, <1>6, <2>1, <2>2, <2>3 DEF VerifyCommand
  <1>9. Told(valid') /\ UNCHANGED <<command, target, result>>
    BY <1>0, <1>1 DEF resyncVars, broadcastVars
  <1>10. Told(valid' \cup resent' \cup available' \cup toMarkUnspent')
    BY <1>2, <1>8, <1>9
  <1>11. QED
    BY <1>0, <1>8, <1>9, <1>10 DEF NetworkInv, Told, TxsOf

\* broadcast-tx says that it has sent its target when the node took it or had it.
LEMMA BroadcastNetwork ==
    ASSUME CInv, command = "broadcast-tx", BroadcastTxCommand,
           UNCHANGED <<flags, resyncVars, verifyVars, splitVars>>
    PROVE  NetworkInv'
  <1>0. network \subseteq network' /\ command' = command
    BY BroadcastChainStep, ChainKept DEF CInv, flags
  <1>1. result' = "ok" => target' \in network'
    <2>1. CASE SendTarget
      BY <2>1, Answers DEF SendTarget, Report, CInv, CommandTypes, ChainInv, ChainTypes
    <2>2. CASE UNCHANGED result \/ result' = "failed"
      BY <1>0, <2>2 DEF CInv, NetworkInv, BroadcastTxCommand, Load, SortAncestors, CannotSort, SendAncestors,
                        AncestorsSent, SendTarget, TraceAncestors, TraceRoot, broadcastVars, CommandTypes
    <2>3. QED
      BY <2>1, <2>2
      DEF BroadcastTxCommand, Load, SortAncestors, CannotSort, SendAncestors, AncestorsSent,
          Report, broadcastVars
  <1>2. QED
    BY <1>0, <1>1 DEF CInv, NetworkInv, resyncVars, verifyVars, fixes, TxsOf

LEMMA NetworkStays == ASSUME CInv, [CommandsNext]_vars PROVE NetworkInv'
  <1>0. network \subseteq network' /\ command' = command
    BY ChainStays
  <1>1. CASE \/ Other \/ UNCHANGED vars
             \/ /\ command \in {"broadcast", "split", "cleanup"}
                /\ UNCHANGED <<resyncVars, verifyVars>>
    BY <1>0, <1>1
    DEF Other, vars, place, resyncVars, verifyVars, fixes, broadcastVars, CInv, NetworkInv, TxsOf
  <1>2. QED
    BY <1>1, ResyncNetwork, VerifyNetwork, BroadcastNetwork DEF CommandsNext, Command

-----------------------------------------------------------------------------
(* The invariant *)

LEMMA CInvInit == CommandsInit => CInv
  <1> SUFFICES ASSUME CommandsInit PROVE CInv
    OBVIOUS
  <1> USE DEF CommandsInit, Init
  <1>1. /\ command \in {"resync", "verify", "broadcast-tx", "broadcast", "split", "cleanup"}
        /\ network \subseteq Txs /\ stored \subseteq Txs
    BY CommandsAssumption
  <1>2. unspent \subseteq Utxos /\ spent \subseteq Utxos /\ unspent \cap spent = {}
    BY DEF Rows
  <1>3. CommandTypes
    BY <1>1, <1>2 DEF CommandTypes, ResyncInit, VerifyInit, BroadcastInit, NoAnswer
  <1>4. ChainInv
    <2>1. ChainTypes
      <3>1. <<>> \in Seq(SUBSET Txs)
        BY EmptySeq
      <3>2. QED
        BY <1>1, <3>1 DEF ChainTypes
    <2>2. TraceInv
      BY DEF TraceInv
    <2>3. SortInv /\ OrderInv /\ SendInv /\ OrphansInv /\ phase \in Phases
      BY DEF SortInv, OrderInv, SendInv, OrphansInv, Phases
    <2>4. QED
      BY <2>1, <2>2, <2>3 DEF ChainInv
  <1>5. ResyncInv
    BY DEF ResyncInv, OrphansInv
  <1>6. NetworkInv
    BY DEF NetworkInv, ResyncInit, VerifyInit, BroadcastInit, NoAnswer, TxsOf
  <1>7. QED
    BY <1>3, <1>4, <1>5, <1>6 DEF CInv

LEMMA CInvStays == CInv /\ [CommandsNext]_vars => CInv'
  BY ChainStays, TypesStay, ResyncInvStays, NetworkStays DEF CInv

\* The invariant holds whichever command runs, over whatever it finds, and while
\* others send.
THEOREM CommandsKeepInvariant == CommandsSpec => []CInv
  BY CInvInit, CInvStays, PTL DEF CommandsSpec

\* What resync counts as valid, verify reports as sent again or available, and
\* broadcast-tx as sent, is on the network (resync.go:100-150, verify.go:753-881,
\* broadcast_tx.go:301-323).
THEOREM ReportedExists == CommandsSpec => []ReportedIsOnNetwork
  <1>1. CInv => ReportedIsOnNetwork
    BY DEF CInv, NetworkInv, ReportedIsOnNetwork, TxsOf
  <1>2. QED
    BY <1>1, CommandsKeepInvariant, PTL

\* The three callers of internal/txchain, one of which passes its maps on from
\* root to root after an error, keep what it promises (rebuilder.go,
\* verify.go:646-743, broadcast_tx.go:234-293).
THEOREM RecoveryKeepsItsWord ==
    CommandsSpec => [](ChainIsComplete /\ OrphansCannotBeHelped /\ SuccessMeansRecovered)
  <1>1. CInv => ChainIsComplete /\ OrphansCannotBeHelped /\ SuccessMeansRecovered
    BY ChainPromises DEF CInv
  <1>2. QED
    BY <1>1, CommandsKeepInvariant, PTL

\* Only three actions make a row unspent, each for an output it was told of.
THEOREM OnlyExistingBecomeUnspent == CommandsSpec => OffersOnlyExisting
  <1>1. ASSUME CInv, CInv', [CommandsNext]_vars PROVE TxsOf(unspent' \ unspent) \subseteq network'
    <2>0. network \subseteq network' /\ RowTypes
      BY <1>1, ChainStays DEF CInv, CommandTypes, RowTypes
    <2>1. CASE unspent' \subseteq unspent
      BY <2>1 DEF TxsOf
    <2>2. CASE ScanRecentBlocks
      BY <2>0, <2>2, Writes DEF ScanRecentBlocks, SaveUTXO, TxsOf
    <2>3. ASSUME NEW u \in Utxos, NEW says \in Says(u[1]), Recheck(u, says)
          PROVE  TxsOf(unspent' \ unspent) \subseteq network'
      <3>1. unspent' = unspent \/ (u[1] \in network /\ unspent' \subseteq unspent \cup {u})
        BY <2>3, SaysFound, Writes DEF Recheck, SaveUTXO, rows
      <3>2. QED
        BY <2>0, <3>1 DEF TxsOf
    <2>4. CASE ApplyFixes
      <3>1. unspent' \ unspent \subseteq toMarkUnspent
        BY <2>4, Writes DEF ApplyFixes
      <3>2. TxsOf(toMarkUnspent) \subseteq network
        BY <1>1 DEF CInv, NetworkInv, TxsOf
      <3>3. QED
        BY <2>0, <3>1, <3>2 DEF TxsOf
    <2>5. ResyncCommand => unspent' \subseteq unspent \/ ScanRecentBlocks
      BY <2>0, MarkKeepsTypes
      DEF ResyncCommand, List, StartScan, NotStored, SendAgain, CannotRecover, Recovered, Invalidate, Validate, rows
    <2>6. VerifyCommand => \/ unspent' = unspent \/ ApplyFixes
                           \/ \E u \in Utxos : \E says \in Says(u[1]) : Recheck(u, says)
      BY DEF VerifyCommand, ListAll, Checked, TraceOthers, SortAll, SendAll, ChainSent, Rechecked, Resent,
             RecheckedAll, CheckUTXO, CheckTransactionExists, Note, Resend, TraceRoot, rows
    <2>7. BroadcastTxCommand \/ SendGiven => unspent' = unspent
      BY DEF BroadcastTxCommand, SendGiven, Load, TraceAncestors, TraceRoot, SortAncestors, CannotSort,
             SendAncestors, AncestorsSent, SendTarget, rows
    <2>8. SplitCommand \/ CleanUp => unspent' \subseteq unspent
      BY <2>0, MarkKeepsTypes
      DEF SplitCommand, SelectRow, SendSplit, MarkRow, SaveTransactionOutputs, CleanUp, rows
    <2>9. Other \/ UNCHANGED vars => unspent' = unspent
      BY DEF Other, vars, rows
    <2>10. QED
      BY <1>1, <2>1, <2>2, <2>3, <2>4, <2>5, <2>6, <2>7, <2>8, <2>9 DEF CommandsNext, Command
  <1>2. CInv /\ CInv' /\ [CommandsNext]_vars => [TxsOf(unspent' \ unspent) \subseteq network']_vars
    BY <1>1
  <1>3. QED
    BY <1>2, CommandsKeepInvariant, PTL DEF CommandsSpec, OffersOnlyExisting

-----------------------------------------------------------------------------
(* Where writes and requests work *)

Placed(u) == u[1] \in network

\* Each unspent row that was looked at is on the network, or verify has noted to
\* mark or delete it.
PlacedInv ==
    ~unreliable =>
        /\ command = "resync" /\ step # "list" =>
               /\ \A u \in unspent : u \in todo \/ Placed(u)
               /\ step \in {"rows", "scan", "done"} /\ (step # "rows" => todo = {})
        /\ command = "verify" /\ step = "rows" =>
               /\ answer.ours => \A u \in cur : Placed(u)
               /\ \A u \in unspent : u \in todo \/ Placed(u) \/ u \in toMarkSpent \cup toDelete
        /\ command = "verify" /\ step \notin {"list", "rows", "done"} =>
               \A u \in unspent : Placed(u) \/ u \in toMarkSpent \cup toDelete
        /\ command = "verify" /\ step = "done" => \A u \in unspent : Placed(u)

LEMMA ResyncPlaces ==
    ASSUME CInv, PlacedInv, command = "resync", ResyncCommand, UNCHANGED flags, ~unreliable
    PROVE  PlacedInv'
  <1>0. /\ network \subseteq network' /\ command' = "resync"
        /\ \A u : Placed(u) => Placed(u)'
        /\ step \in {"list", "rows", "scan", "done"} /\ (cur # {} => step = "rows")
    BY ResyncChainStep, ChainKept DEF CInv, CommandTypes, ResyncInv, flags, Placed
  <1> DEFINE Next1 == /\ \A u \in unspent' : u \in todo' \/ Placed(u)'
                      /\ step' \in {"rows", "scan", "done"} /\ (step' # "rows" => todo' = {})
  <1> SUFFICES Next1
    BY <1>0 DEF PlacedInv
  <1>1. CASE List
    BY <1>1 DEF List, rows
  <1>2. ASSUME NEW u, step = "rows", Invalidate(u) PROVE Next1
    <2>1. unspent' = unspent \ {u} \/ (unspent' = unspent /\ u \notin unspent)
      BY <1>0, <1>2, Writes DEF Invalidate, MarkUTXOAsSpent, Written
    <2>2. todo' = todo \ {u} /\ step' = "rows"
      BY <1>2 DEF Invalidate, RowDone
    <2>3. QED
      BY <1>0, <1>2, <2>1, <2>2 DEF PlacedInv
  <1>3. ASSUME NEW u, step = "rows", Validate(u), Placed(u)' PROVE Next1
    BY <1>0, <1>3 DEF Validate, RowDone, rows, PlacedInv
  <1>4. ASSUME NEW u \in Utxos, SendAgain(u) PROVE Next1
    <2>1. u[1] \in Txs /\ step = "rows"
      BY <1>4, WalletAssumption DEF SendAgain, Idle
    <2>2. PICK r \in Broadcasts(u[1]) :
            /\ network' = r.net
            /\ \/ Succeeds(r.says) /\ Validate(u)
               \/ Invalidate(u)
               \/ UNCHANGED <<rows, step, todo>>
      BY <1>4 DEF SendAgain
    <2>3. Succeeds(r.says) => Placed(u)'
      BY <2>1, <2>2, Answers DEF CInv, ChainInv, ChainTypes, Placed
    <2>4. QED
      BY <1>0, <1>2, <1>3, <2>1, <2>2, <2>3 DEF PlacedInv, rows
  <1>5. CASE Recovered
    <2>1. PICK u \in cur : Validate(u)
      BY <1>5 DEF Recovered
    <2>2. Placed(u)'
      BY <1>0, <1>5, RecoveredRow DEF Recovered, Placed
    <2>3. QED
      BY <1>0, <1>3, <2>1, <2>2
  <1>6. CASE ScanRecentBlocks
    BY <1>0, <1>6, Writes DEF ScanRecentBlocks, SaveUTXO, PlacedInv, Placed
  <1>7. CASE StartScan \/ (cur # {} /\ UNCHANGED <<rows, place, resyncVars>>)
    BY <1>0, <1>7 DEF StartScan, Idle, PlacedInv, rows, place
  <1>8. CASE CannotRecover \/ \E u \in Utxos : NotStored(u)
    BY <1>0, <1>2, <1>8 DEF CannotRecover, NotStored, Idle
  <1> HIDE DEF Next1
  <1>9. QED
    BY <1>1, <1>4, <1>5, <1>6, <1>7, <1>8 DEF ResyncCommand, Recovering

LEMMA VerifyPlaces ==
    ASSUME CInv, PlacedInv, command = "verify", VerifyCommand, UNCHANGED flags, ~unreliable
    PROVE  PlacedInv'
  <1>0. /\ network \subseteq network' /\ command' = "verify" /\ CommandTypes
        /\ \A u : Placed(u) => Placed(u)'
    BY VerifyChainStep, ChainKept DEF CInv, flags, Placed
  <1> DEFINE Mine == toMarkSpent \cup toDelete
             Next1 == /\ step' = "rows" =>
                          /\ answer'.ours => \A u \in cur' : Placed(u)'
                          /\ \A u \in unspent' : u \in todo' \/ Placed(u)' \/ u \in Mine'
                      /\ step' \notin {"list", "rows", "done"} =>
                          \A u \in unspent' : Placed(u)' \/ u \in Mine'
                      /\ step' = "done" => \A u \in unspent' : Placed(u)'
  <1> SUFFICES Next1
    BY <1>0 DEF PlacedInv
  <1>1. CASE ListAll
    BY <1>0, <1>1 DEF ListAll, rows, CommandTypes
  <1>2. ASSUME NEW u \in Utxos, NEW r, Note(u, r), step = "rows", r.ours \in BOOLEAN,
               u \in unspent /\ r.ours => Placed(u)
        PROVE  Next1
    <2>1. /\ UNCHANGED <<rows, step>> /\ cur' = {} /\ todo' = todo \ {u}
          /\ Mine \subseteq Mine' /\ (~r.ours => u \in Mine')
      BY <1>2 DEF Note
    <2>2. QED
      BY <1>0, <1>2, <2>1 DEF PlacedInv, rows
  <1>3. ASSUME NEW u \in Utxos, NEW says \in Says(u[1]), CheckUTXO(u, says) PROVE Next1
    <2>1. /\ says # "lost" /\ step = "rows"
          /\ Response(u, says).ours \in BOOLEAN /\ (Response(u, says).ours => Placed(u))
      BY <1>3 DEF CheckUTXO, Says, Lost, Response, Placed
    <2>2. CASE Note(u, Response(u, says))
      BY <1>2, <2>1, <2>2
    <2>3. CASE ~Note(u, Response(u, says))
      <3>1. /\ UNCHANGED <<rows, step, todo, fixes>> /\ cur' = {u} /\ answer' = Response(u, says)
        BY <1>3, <2>1, <2>3 DEF CheckUTXO
      <3>2. QED
        BY <1>0, <2>1, <3>1 DEF PlacedInv, rows, fixes
    <2>4. QED
      BY <2>2, <2>3
  <1>4. ASSUME NEW u \in Utxos, NEW says, CheckTransactionExists(u, says) PROVE Next1
    <2> DEFINE r == [answer EXCEPT !.spent = @ \/ says = "missing"]
    <2>1. step = "rows" /\ cur = {u} /\ r.ours = answer.ours /\ r.ours \in BOOLEAN /\ Note(u, r)
      BY <1>0, <1>4 DEF CheckTransactionExists, CommandTypes
    <2>2. r.ours => Placed(u)
      BY <2>1, <1>0 DEF PlacedInv
    <2> HIDE DEF r
    <2>3. QED
      BY <1>2, <2>1, <2>2
  <1>5. CASE Checked
    BY <1>0, <1>5 DEF Checked, rows, verifyVars, fixes, PlacedInv
  <1>6. ASSUME NEW u \in Utxos, NEW says \in Says(u[1]), Recheck(u, says) PROVE Next1
    <2>1. /\ unspent' = unspent \/ (Placed(u) /\ unspent' \subseteq unspent \cup {u})
          /\ step' = step /\ step \in {"affected", "resent"} /\ Mine' = Mine
      BY <1>6, SaysFound, Writes DEF Recheck, SaveUTXO, rows, fixes, Placed
    <2>2. QED
      BY <1>0, <2>1 DEF PlacedInv
  <1>7. CASE ApplyFixes
    <2>1. /\ unspent' = ((unspent \ toMarkSpent) \cup toMarkUnspent) \ toDelete
          /\ step = "fix" /\ step' = "done"
      BY <1>7 DEF ApplyFixes, Written
    <2>2. \A u \in toMarkUnspent : Placed(u)
      BY DEF CInv, NetworkInv, TxsOf, Placed
    <2>3. QED
      BY <1>0, <2>1, <2>2 DEF PlacedInv
  <1>8. CASE \/ TraceOthers \/ SortAll \/ SendAll \/ ChainSent \/ Rechecked \/ Resent \/ RecheckedAll
             \/ \E u \in Utxos : Resend(u)
             \/ step \in {"parents", "others"} /\ TraceRoot /\ UNCHANGED verifyVars
             \/ step \in {"parents", "others", "chain"} /\ Recover /\ UNCHANGED <<rows, place, verifyVars>>
    <2>1. UNCHANGED <<rows, Mine>> /\ {step, step'} \cap {"list", "rows", "done"} = {}
      BY <1>8
      DEF TraceOthers, SortAll, SendAll, ChainSent, Rechecked, Resent, RecheckedAll, Resend,
          SendOthers, TraceRoot, verifyVars, fixes, place
    <2>2. QED
      BY <1>0, <2>1 DEF PlacedInv, rows
  <1> HIDE DEF Next1
  <1>9. QED
    BY <1>1, <1>3, <1>4, <1>5, <1>6, <1>7, <1>8 DEF VerifyCommand

LEMMA PlacedStays == ASSUME CInv, PlacedInv, [CommandsNext]_vars PROVE PlacedInv'
  <1>1. network \subseteq network' /\ UNCHANGED <<unreliable, command>>
    BY ChainStays
  <1>2. CASE command \notin {"resync", "verify"}
    BY <1>1, <1>2 DEF PlacedInv
  <1>3. CASE Other \/ UNCHANGED vars
    <2>1. UNCHANGED <<unspent, todo, cur, step, answer, toMarkSpent, toDelete>>
      BY <1>3 DEF Other, vars, rows, place, verifyVars, fixes
    <2>2. QED
      BY <1>1, <2>1 DEF PlacedInv, Placed
  <1>4. QED
    BY <1>1, <1>2, <1>3, ResyncPlaces, VerifyPlaces DEF CommandsNext, Command, PlacedInv

\* Where requests and writes work, resync and verify leave no unspent row without
\* its transaction, whatever a recovery made of it (resync.go:92-168,
\* verify.go:140-279).
THEOREM UnspentExists == CommandsSpec => []UnspentIsOnNetwork
  <1>1. CommandsInit => PlacedInv
    BY DEF CommandsInit, PlacedInv
  <1>2. PlacedInv => UnspentIsOnNetwork
    BY DEF PlacedInv, UnspentIsOnNetwork, TxsOf, Placed
  <1>3. CInv /\ PlacedInv /\ [CommandsNext]_vars => PlacedInv'
    BY PlacedStays
  <1>4. QED
    BY <1>1, <1>2, <1>3, CommandsKeepInvariant, PTL DEF CommandsSpec

-----------------------------------------------------------------------------
(* The split command *)

\* How far it is, and what is recorded by then.
SplitStep ==
    /\ step \in {"list", "failed", "send", "mark", "save", "done"}
    /\ step = "list" => splitRow = NoRow
    /\ step \in {"list", "failed", "send", "mark", "save"} => born = {}
    /\ step \in {"send", "mark"} => splitRow \in unspent
    /\ step = "failed" => splitRow = NoRow \/ splitRow \in unspent
    /\ step \in {"mark", "save", "done"} => sent
    /\ ~unreliable /\ step \in {"save", "done"} => splitRow \in spent
    /\ ~unreliable /\ step = "done" => born = 0 .. built.outputs

SplitInv ==
    /\ IF command = "split" THEN SplitStep
       ELSE splitRow = NoRow /\ born = {} /\ step \notin {"mark", "save"}
    /\ built = NoOutputs
       \/ \E funds \in Funds, asked \in Asked : amount = funds /\ built = BuildSplit(funds, asked)

LEMMA SplitSteps ==
    ASSUME CInv, SplitInv, command = "split", SplitCommand, UNCHANGED <<flags, unreliable>>
    PROVE  SplitInv'
  <1>0. SplitStep /\ command' = "split" /\ RowTypes
    BY DEF SplitInv, flags, CInv, CommandTypes, RowTypes
  <1>1. CASE SelectRow
    <2>1. CASE unspent = {} /\ step' = "failed" /\ UNCHANGED <<splitRow, amount, built>>
      BY <1>0, <1>1, <2>1 DEF SelectRow, SplitInv, SplitStep, rows
    <2>2. ASSUME NEW u \in unspent, NEW funds \in Funds, NEW asked \in Asked, BuildFrom(u, funds, asked)
          PROVE  SplitInv'
      BY <1>0, <1>1, <2>2 DEF SelectRow, BuildFrom, SplitInv, SplitStep, rows
    <2>3. QED
      BY <1>1, <2>1, <2>2 DEF SelectRow
  <1>2. CASE SendSplit
    <2>1. /\ step = "send" /\ UNCHANGED <<rows, splitRow, amount, built, born>>
          /\ step' = "failed" \/ (step' = "mark" /\ sent')
      <3>1. CASE Spendable
        BY <1>2, <3>1 DEF SendSplit
      <3>2. CASE ~Spendable
        BY <1>2, <3>2 DEF SendSplit
      <3>3. QED
        BY <3>1, <3>2
    <2>2. QED
      BY <1>0, <2>1 DEF SplitInv, SplitStep, rows
  <1>3. CASE MarkRow
    <2>1. step = "mark" /\ step' = "save" /\ UNCHANGED splitVars
      BY <1>3 DEF MarkRow
    <2>2. ~unreliable => splitRow \in spent'
      BY <1>0, <1>3, Writes DEF MarkRow, MarkUTXOAsSpent, SplitStep
    <2>3. QED
      BY <1>0, <2>1, <2>2 DEF SplitInv, SplitStep, splitVars
  <1>4. CASE SaveTransactionOutputs
    BY <1>0, <1>4 DEF SaveTransactionOutputs, SplitInv, SplitStep, rows
  <1>5. QED
    BY <1>1, <1>2, <1>3, <1>4 DEF SplitCommand

LEMMA SplitStays == ASSUME CInv, SplitInv, [CommandsNext]_vars PROVE SplitInv'
  <1>1. UNCHANGED <<unreliable, command>>
    BY ChainStays
  <1>2. CASE Other \/ UNCHANGED vars
    BY <1>1, <1>2 DEF Other, vars, rows, place, splitVars, SplitInv, SplitStep
  <1>3. CASE command # "split" /\ UNCHANGED splitVars /\ step' \notin {"mark", "save"}
    BY <1>1, <1>3 DEF SplitInv, splitVars
  <1>4. ResyncCommand /\ command # "split" => step' \notin {"mark", "save"}
    BY DEF SplitInv, ResyncCommand, List, StartScan, ScanRecentBlocks, NotStored, SendAgain, CannotRecover,
           Recovered, Invalidate, Validate, RowDone, place
  <1>5. VerifyCommand /\ command # "split" => step' \notin {"mark", "save"}
    BY DEF SplitInv, VerifyCommand, ListAll, Checked, TraceOthers, SortAll, SendAll, ChainSent, Rechecked, Resent,
           RecheckedAll, CheckUTXO, CheckTransactionExists, Note, Recheck, Resend, TraceRoot, SendOthers,
           ApplyFixes, place
  <1>6. (BroadcastTxCommand \/ SendGiven) /\ command # "split" => step' \notin {"mark", "save"}
    BY DEF SplitInv, BroadcastTxCommand, SendGiven, Load, TraceAncestors, TraceRoot, SortAncestors, CannotSort,
           SendAncestors, AncestorsSent, SendTarget, Report, place
  <1>7. CleanUp => step' \notin {"mark", "save"}
    BY DEF CleanUp
  <1>8. QED
    BY <1>1, <1>2, <1>3, <1>4, <1>5, <1>6, <1>7, SplitSteps DEF CommandsNext, Command

LEMMA SplitInvHolds == CommandsSpec => []SplitInv
  <1>1. CommandsInit => SplitInv
    BY DEF CommandsInit, SplitInit, SplitInv, SplitStep
  <1>2. CInv /\ SplitInv /\ [CommandsNext]_vars => SplitInv'
    BY SplitStays
  <1>3. QED
    BY <1>1, <1>2, CommandsKeepInvariant, PTL DEF CommandsSpec

\* The table learns of a split only when the network has it, and of one that
\* succeeded everything (main.go:238-277).
THEOREM SplitsAreRecorded == CommandsSpec => []SplitIsRecorded
  <1>1. SplitInv => SplitIsRecorded
    BY DEF SplitInv, SplitStep, SplitIsRecorded
  <1>2. QED
    BY <1>1, SplitInvHolds, PTL

\* A split of a row that covers its fee is within the row and has no dust
\* (BuildSplitTransaction, builder.go:61-127).
THEOREM SplitsArePaid == CommandsSpec => []SplitPays
  <1>1. SplitInv => SplitPays
    <2> SUFFICES ASSUME SplitInv, built # NoOutputs, amount >= SplitFee(built.outputs) PROVE Paid
      BY DEF SplitPays
    <2>1. PICK asked \in Asked : built = BuildSplit(amount, asked) /\ amount \in Funds
      BY DEF SplitInv
    <2>2. amount \in 0 .. Word - 1 /\ asked \in Nat
      BY <2>1, SplitAssumption
    <2>3. built.outputs = asked
      BY <2>1 DEF BuildSplit, Outputs
    <2>4. QED
      BY <2>1, <2>2, <2>3, SplitIsPaid DEF Paid
  <1>2. QED
    BY <1>1, SplitInvHolds, PTL

-----------------------------------------------------------------------------
(* The types of everything, and the lists of verify *)

\* A row is in one list of fixes at most, one still to be checked in none, and a
\* missing transaction has one row.
ListsInv ==
    /\ invalid \subseteq Utxos
    /\ toMarkSpent \cap toMarkUnspent = {} /\ toDelete \cap (toMarkSpent \cup toMarkUnspent) = {}
    /\ command = "verify" /\ step = "list" => fixes = <<{}, {}, {}>>
    /\ command = "verify" /\ step = "rows" =>
           todo \cap (toMarkSpent \cup toMarkUnspent \cup toDelete) = {}
    /\ \A u, w \in missing : u[1] = w[1] => u = w

\* The recovery has its types, and what it says of the sort and of what was sent.
MoreInv == TypeOK /\ SortsAll /\ FailuresInv /\ ListsInv

LEMMA MoreChain ==
    ASSUME ChainInv, TypeOK, SortsAll, FailuresInv, ChainStep
    PROVE  TypeOK' /\ SortsAll' /\ FailuresInv'
  <1>0. ChainInv'
    BY ChainKept
  <1>1. CASE Recover
    BY <1>0, <1>1, RecoverTypes, RecoverSortsAll, RecoverFailures
  <1>2. CASE \E t \in Txs : \E seen, found : Trace(t, seen, found)
    <2>1. phase' = "trace" /\ UNCHANGED <<network, unreliable, successful, failed, orphans>>
      BY <1>2 DEF Trace, building
    <2>2. QED
      BY <1>0, <1>2, <2>1, BeginTypes DEF SortsAll, FailuresInv
  <1>3. CASE StartSort
    <2>1. phase' = "sort" /\ UNCHANGED <<network, unreliable, successful, failed, orphans>>
      BY <1>3 DEF StartSort, sorting
    <2>2. QED
      BY <1>0, <1>3, <2>1, BeginTypes, StartSortAll DEF FailuresInv
  <1>4. CASE StartSend
    <2>1. phase' = "send" /\ successful' = {} /\ failed' = {} /\ orphans' = {}
      BY <1>4 DEF StartSend
    <2>2. QED
      BY <1>0, <1>4, <2>1, BeginTypes DEF SortsAll, FailuresInv
  <1>5. CASE OnlyAdds
    <2>1. TypeOK'
      BY <1>5, ChainAssumption DEF OnlyAdds, TypeOK
    <2>2. SortsAll' /\ FailuresInv'
      BY <1>5 DEF OnlyAdds, SortsAll, FailuresInv, Unrelated
    <2>3. QED
      BY <2>1, <2>2
  <1>6. QED
    BY <1>1, <1>2, <1>3, <1>4, <1>5 DEF ChainStep

\* Noting a row that is in none of the lists keeps them apart.
LEMMA NoteKeepsLists ==
    ASSUME CommandTypes, ListsInv, command = "verify", command' = "verify", invalid' = invalid,
           step = "rows", NEW u \in todo, NEW r, Note(u, r),
           \A v, w \in missing' : v[1] = w[1] => v = w
    PROVE  ListsInv'
  <1>1. /\ toMarkSpent' \in {toMarkSpent, toMarkSpent \cup {u}}
        /\ toMarkUnspent' \in {toMarkUnspent, toMarkUnspent \cup {u}}
        /\ toDelete' \in {toDelete, toDelete \cup {u}}
        /\ r.ours => toDelete' = toDelete
        /\ ~r.ours => toMarkSpent' = toMarkSpent /\ toMarkUnspent' = toMarkUnspent
        /\ u \in spent => toMarkSpent' = toMarkSpent
        /\ u \notin spent => toMarkUnspent' = toMarkUnspent
    BY DEF Note, CommandTypes
  <1>2. todo' = todo \ {u} /\ step' = "rows"
    BY DEF Note
  <1>3. QED
    BY <1>1, <1>2 DEF ListsInv

LEMMA NotedOnce ==
    ASSUME ListsInv, NEW u, NEW says, missing' = Noted(u, says)
    PROVE  \A v, w \in missing' : v[1] = w[1] => v = w
  BY DEF ListsInv, Noted

LEMMA VerifyLists ==
    ASSUME CInv, ListsInv, command = "verify", VerifyCommand, UNCHANGED <<flags, resyncVars>>
    PROVE  ListsInv'
  <1>0. command' = "verify" /\ invalid' = invalid /\ CommandTypes
    BY DEF flags, resyncVars, CInv
  <1>1. CASE ListAll
    BY <1>0, <1>1 DEF ListAll, verifyVars, fixes, ListsInv
  <1>2. ASSUME NEW u \in Utxos, NEW says, CheckUTXO(u, says) PROVE ListsInv'
    <2>1. u \in todo /\ step = "rows" /\ \A v, w \in missing' : v[1] = w[1] => v = w
      BY <1>2, NotedOnce DEF CheckUTXO, Newest
    <2>2. CASE Note(u, Response(u, says))
      BY <1>0, <2>1, <2>2, NoteKeepsLists
    <2>3. CASE ~Note(u, Response(u, says))
      <3>1. UNCHANGED <<step, toMarkSpent, toMarkUnspent, toDelete>> /\ todo' \subseteq todo
        BY <1>2, <2>3 DEF CheckUTXO, fixes
      <3>2. QED
        BY <1>0, <2>1, <3>1 DEF ListsInv
    <2>4. QED
      BY <2>2, <2>3
  <1>3. ASSUME NEW u \in Utxos, NEW says, CheckTransactionExists(u, says) PROVE ListsInv'
    <2>1. u \in todo /\ step = "rows" /\ missing' = missing
      BY <1>0, <1>3 DEF CheckTransactionExists, CommandTypes
    <2>2. \E r : Note(u, r)
      BY <1>3 DEF CheckTransactionExists
    <2>3. QED
      BY <1>0, <2>1, <2>2, NoteKeepsLists DEF ListsInv
  <1>4. ASSUME NEW u \in Utxos, NEW says, Recheck(u, says) PROVE ListsInv'
    <2>1. \A v, w \in missing' : v[1] = w[1] => v = w
      BY <1>4, NotedOnce DEF Recheck
    <2>2. UNCHANGED <<step, toMarkSpent, toMarkUnspent, toDelete>> /\ step \in {"affected", "resent"}
      BY <1>4 DEF Recheck, fixes
    <2>3. QED
      BY <1>0, <2>1, <2>2 DEF ListsInv
  <1>5. CASE \/ Checked \/ TraceOthers \/ SortAll \/ SendAll \/ ChainSent \/ Rechecked \/ Resent \/ RecheckedAll
             \/ ApplyFixes \/ \E u \in Utxos : Resend(u)
             \/ step \in {"parents", "others"} /\ TraceRoot /\ UNCHANGED verifyVars
             \/ step \in {"parents", "others", "chain"} /\ Recover /\ UNCHANGED <<rows, place, verifyVars>>
    <2>1. /\ UNCHANGED <<toMarkSpent, toMarkUnspent, toDelete>> /\ missing' \subseteq missing
          /\ step' \notin {"list", "rows"}
      BY <1>5
      DEF Checked, TraceOthers, SortAll, SendAll, ChainSent, Rechecked, Resent, RecheckedAll, ApplyFixes,
          Resend, SendOthers, TraceRoot, verifyVars, fixes, place
    <2>2. QED
      BY <1>0, <2>1 DEF ListsInv
  <1>6. QED
    BY <1>1, <1>2, <1>3, <1>4, <1>5 DEF VerifyCommand

LEMMA ListsStay == ASSUME CInv, ListsInv, [CommandsNext]_vars PROVE ListsInv'
  <1>0. command' = command
    BY ChainStays
  <1>1. CASE Other \/ UNCHANGED vars
    BY <1>0, <1>1 DEF Other, vars, place, resyncVars, verifyVars, fixes, ListsInv
  <1>2. CASE command # "verify" /\ UNCHANGED verifyVars /\ invalid' \subseteq Utxos
    BY <1>0, <1>2 DEF verifyVars, fixes, ListsInv
  <1>3. ResyncCommand => invalid' \subseteq Utxos
    BY DEF ListsInv, CInv, CommandTypes, ResyncCommand, List, StartScan, ScanRecentBlocks, NotStored, SendAgain,
           CannotRecover, Recovered, Invalidate, Validate, resyncVars
  <1>4. QED
    BY <1>1, <1>2, <1>3, VerifyLists DEF CommandsNext, Command, resyncVars, ListsInv

LEMMA MoreStays == CInv /\ MoreInv /\ [CommandsNext]_vars => MoreInv'
  BY EveryChainStep, MoreChain, ListsStay DEF CInv, MoreInv

LEMMA MoreInit == CommandsInit => MoreInv
  <1> SUFFICES ASSUME CommandsInit PROVE MoreInv
    OBVIOUS
  <1>1. network \subseteq Txs /\ stored \subseteq Txs
    BY CommandsAssumption DEF CommandsInit
  <1>2. TypeOK
    <2>1. /\ <<>> \in Seq(SUBSET Txs) /\ <<>> \in Seq(Txs) /\ Len(<<>>) <= MaxDepth + 2
          /\ <<>> \in [DOMAIN <<>> -> Int] /\ DOMAIN <<>> \subseteq Txs
      BY ChainAssumption, EmptySeq
    <2>2. phase \in Phases /\ others \in 0 .. MaxOthers
      BY ChainAssumption DEF CommandsInit, Init, Phases
    <2>3. QED
      BY <1>1, <2>1, <2>2 DEF CommandsInit, Init, TypeOK
  <1>3. SortsAll /\ FailuresInv
    BY DEF CommandsInit, Init, SortsAll, FailuresInv
  <1>4. ListsInv
    BY DEF CommandsInit, ResyncInit, VerifyInit, ListsInv, fixes
  <1>5. QED
    BY <1>2, <1>3, <1>4 DEF MoreInv

LEMMA MoreHolds == CommandsSpec => [](CInv /\ MoreInv)
  BY MoreInit, MoreStays, CommandsKeepInvariant, PTL DEF CommandsSpec

\* Whichever command runs, its variables keep their types, the recovery does not
\* go deeper than the code allows, a row is unspent or spent and not both, and the
\* lists of fixes are apart (verify.go:67-139, rebuilder.go:90-200).
THEOREM TypesAreKept == CommandsSpec => []CommandsTypeOK
  <1>1. CInv /\ MoreInv => CommandsTypeOK
    <2> SUFFICES ASSUME CInv, MoreInv PROVE CommandsTypeOK
      OBVIOUS
    <2>1. Cardinality(cur) <= 1
      <3>1. Cardinality({}) = 0 /\ \A u : Cardinality({u}) = 1
        BY FS_EmptySet, FS_Singleton
      <3>2. QED
        BY <3>1 DEF CInv, CommandTypes
    <2>2. TypeOK /\ VerifyTypeOK
      BY DEF CInv, MoreInv, ListsInv, CommandTypes, VerifyTypeOK
    <2>3. QED
      BY <2>1, <2>2 DEF CInv, MoreInv, ListsInv, CommandTypes, CommandsTypeOK
  <1>2. QED
    BY <1>1, MoreHolds, PTL

-----------------------------------------------------------------------------
(* What broadcast-tx --rebuild-chain may fail of *)

\* What excuses an ancestor that is missing in the end.
Excused == gap \/ \E t \in chain \cup {target} : ~(Parents[t] \subseteq stored)

\* A parent of the target is there, or tracing will come to it; and once the chain
\* was sent it is there, unless it is excused.
FailInv ==
    command = "broadcast-tx" /\ rebroadcast /\ ~unreliable =>
        /\ step \in {"ancestors", "sort"} =>
               /\ target \in stored
               /\ \A p \in Parents[target] : p \in network \/ p \in roots \/ gap \/ Pending(p)
        /\ step = "sort" => roots = {} /\ phase \in {"sort", "circular", "ordered", "send", "sent"}
        /\ step = "target" => target \in stored /\ \A p \in Parents[target] : p \in network \/ Excused
        /\ result = "failed" => step = "done" /\ (target \notin stored \/ ~Unrelated \/ Excused)

\* Tracing goes over into sorting, and sorting into sending, by the caller only.
LEMMA RecoverPhases ==
    ASSUME Recover
    PROVE  /\ gap => gap'
           /\ phase # "trace" => phase' # "trace" /\ UNCHANGED <<visited, gap>>
           /\ phase \in {"sort", "circular", "ordered", "send", "sent"} =>
                  phase' \in {"sort", "circular", "ordered", "send", "sent"}
  <1>1. CASE \E t \in Txs : Visit(t) \/ VisitFails(t)
    BY <1>1 DEF Visit, VisitFails
  <1>2. CASE LevelDone \/ SortNext \/ SortDone
    BY <1>2 DEF LevelDone, SortNext, SortDone, sorting
  <1>3. CASE Rebroadcast \/ SendDone
    BY <1>3 DEF Rebroadcast, SendDone, sending
  <1>4. QED
    BY <1>1, <1>2, <1>3 DEF Recover

\* What an ended recovery that was not broken off has visited is on the network
\* or excused.
LEMMA SentOrExcused ==
    ASSUME CInv, MoreInv, ~unreliable, phase = "sent" \/ (phase # "trace" /\ chain = {}),
           NEW p \in Parents[target], Pending(p), ~gap
    PROVE  p \in network \/ Excused
  <1> USE DEF CInv, ChainInv
  <1>1. p \in visited
    BY DEF TraceInv, Pending
  <1>2. p \in chain \/ p \in network \/ p \notin stored
    BY <1>1 DEF TraceInv
  <1>3. CASE p \in chain
    <2>1. p \in network \/ p \in orphans
      BY <1>3 DEF SendInv, MoreInv, FailuresInv
    <2>2. p \in orphans => \E q \in Parents[p] : q \notin stored
      BY DEF OrphansInv
    <2>3. QED
      BY <1>3, <2>1, <2>2 DEF Excused
  <1>4. QED
    BY <1>2, <1>3 DEF Excused

\* A node that answers refuses a transaction only for a parent that it misses.
LEMMA RefusedForParent ==
    ASSUME ~unreliable, NEW t \in Txs, network \subseteq Txs, NEW r \in Broadcasts(t), ~Succeeds(r.says)
    PROVE  \E p \in Parents[t] : p \notin network
  BY DEF Broadcasts, Answer, Lost, Succeeds

LEMMA BroadcastFails ==
    ASSUME CInv, MoreInv, FailInv, command = "broadcast-tx", BroadcastTxCommand, UNCHANGED flags,
           rebroadcast, ~unreliable
    PROVE  FailInv'
  <1>0. /\ network \subseteq network' /\ UNCHANGED <<unreliable, stored, command, rebroadcast>>
        /\ CInv /\ CommandTypes /\ ChainInv
    BY BroadcastChainStep, ChainKept DEF CInv, flags
  <1>1. CASE Load
    <2>1. /\ UNCHANGED <<network, gap, visited, frames, chain, target>> /\ step = "list" /\ result # "failed"
          /\ \/ target \notin stored /\ step' = "done"
             \/ /\ target \in stored /\ step' = "ancestors" /\ result' = result
                /\ roots' = Parents[target] \ network
      BY <1>0, <1>1 DEF Load, Report, chainVars, FailInv
    <2>2. QED
      BY <1>0, <2>1 DEF FailInv
  <1>2. CASE SortAncestors
    <2>1. /\ step = "ancestors" /\ Traced /\ roots = {} /\ UNCHANGED <<roots, target, result, network, gap, chain>>
          /\ \/ chain = {} /\ step' = "target"
             \/ phase' = "sort" /\ step' = "sort" /\ UNCHANGED <<visited, frames>>
      BY <1>2 DEF SortAncestors, StartSort, sorting, chainVars, broadcastVars
    <2>2. chain = {} => \A p \in Parents[target] : p \in network \/ Excused
      BY <1>0, <2>1, SentOrExcused DEF FailInv, Traced, Excused
    <2>3. UNCHANGED Excused
      BY <1>0, <2>1 DEF Excused
    <2>4. QED
      BY <1>0, <2>1, <2>2, <2>3 DEF FailInv, Pending
  <1>3. CASE CannotSort
    <2>1. /\ step = "sort" /\ phase = "circular" /\ step' = "done"
          /\ UNCHANGED <<target, chain, gap>>
      BY <1>3 DEF CannotSort, Report, chainVars
    <2>2. ~Unrelated
      BY <2>1 DEF MoreInv, SortsAll
    <2>3. QED
      BY <1>0, <2>1, <2>2 DEF FailInv, Unrelated
  <1>4. CASE SendAncestors
    <2>1. /\ step = "sort" /\ phase' = "send" /\ UNCHANGED <<visited, frames, gap, chain>>
          /\ UNCHANGED <<step, roots, target, result>>
      BY <1>4 DEF SendAncestors, StartSend, sending, place, broadcastVars
    <2>2. QED
      BY <1>0, <2>1 DEF FailInv, Pending
  <1>5. CASE AncestorsSent
    <2>1. /\ step = "sort" /\ phase = "sent" /\ step' = "target"
          /\ UNCHANGED <<network, gap, chain, target, result>>
      BY <1>5 DEF AncestorsSent, chainVars, broadcastVars
    <2>2. \A p \in Parents[target] : p \in network \/ Excused
      BY <1>0, <2>1, SentOrExcused DEF FailInv, Excused
    <2>3. UNCHANGED Excused
      BY <1>0, <2>1 DEF Excused
    <2>4. QED
      BY <1>0, <2>1, <2>2, <2>3 DEF FailInv
  <1>6. CASE SendTarget
    <2>1. /\ step = "target" /\ step' = "done" /\ UNCHANGED <<gap, chain, target>>
          /\ \E r \in Broadcasts(target) : result' = IF Succeeds(r.says) THEN "ok" ELSE "failed"
      BY <1>6 DEF SendTarget, Report
    <2>2. result' = "failed" => \E p \in Parents[target] : p \notin network
      BY <1>0, <2>1, RefusedForParent DEF CommandTypes, ChainInv, ChainTypes
    <2>3. UNCHANGED Excused
      BY <1>0, <2>1 DEF Excused
    <2>4. QED
      BY <1>0, <2>1, <2>2, <2>3 DEF FailInv
  <1>7. CASE TraceAncestors /\ UNCHANGED broadcastVars
    <2>1. PICK t \in roots : Trace(t, visited, chain) /\ roots' = roots \ {t}
      BY <1>7 DEF TraceAncestors, TraceRoot
    <2>2. step = "ancestors" /\ phase # "trace" /\ UNCHANGED <<step, target, result>>
      BY <1>7 DEF TraceAncestors, TraceRoot, Traced, broadcastVars
    <2>3. frames = <<>> /\ gap' = gap /\ visited' = visited /\ frames' = <<{t}>>
      BY <1>0, <2>1, <2>2 DEF Trace, ChainInv, ChainTypes, TraceInv
    <2>4. Pending(t)' /\ \A x : Pending(x) => Pending(x)'
      BY <2>3 DEF Pending
    <2>5. QED
      BY <1>0, <2>1, <2>2, <2>3, <2>4 DEF FailInv
  <1>8. CASE step \in {"ancestors", "sort"} /\ Recover /\ UNCHANGED <<rows, place, broadcastVars>>
    <2>1. \A x : Pending(x) => gap' \/ Pending(x)'
      BY <1>0, <1>8, RecoverKeepsPending
    <2>2. /\ gap => gap'
          /\ phase \in {"sort", "circular", "ordered", "send", "sent"} =>
                 phase' \in {"sort", "circular", "ordered", "send", "sent"}
      BY <1>8, RecoverPhases
    <2>3. UNCHANGED <<step, roots, target, result>>
      BY <1>8 DEF place, broadcastVars
    <2>4. QED
      BY <1>0, <1>8, <2>1, <2>2, <2>3 DEF FailInv
  <1>9. QED
    BY <1>1, <1>2, <1>3, <1>4, <1>5, <1>6, <1>7, <1>8 DEF BroadcastTxCommand

LEMMA FailStays == ASSUME CInv, MoreInv, FailInv, [CommandsNext]_vars PROVE FailInv'
  <1>1. network \subseteq network' /\ UNCHANGED <<unreliable, stored, command, rebroadcast>>
    BY ChainStays
  <1>2. CASE ~(command = "broadcast-tx" /\ rebroadcast /\ ~unreliable)
    BY <1>1, <1>2 DEF FailInv
  <1>3. CASE Other \/ UNCHANGED vars
    <2>1. UNCHANGED <<step, roots, target, result, phase, frames, visited, gap, chain>>
      BY <1>3 DEF Other, Elsewhere, vars, chainVars, place, broadcastVars
    <2>2. UNCHANGED <<Excused, Unrelated>> /\ \A x : Pending(x) => Pending(x)'
      BY <1>1, <2>1 DEF Excused, Unrelated, Pending
    <2>3. QED
      BY <1>1, <2>1, <2>2 DEF FailInv
  <1>4. QED
    BY <1>2, <1>3, BroadcastFails DEF CommandsNext, Command

\* broadcast-tx --rebuild-chain, with a node that answers, fails only where an
\* ancestor is nowhere to be had, the chain is too deep, or two missing ancestors
\* are related: whatever others send meanwhile (broadcast_tx.go:230-323).
THEOREM FailsForAReason == CommandsSpec => []FailsOnlyIf
  <1>1. CommandsInit => FailInv
    BY DEF CommandsInit, BroadcastInit, FailInv
  <1>2. FailInv => FailsOnlyIf
    BY DEF FailInv, FailsOnlyIf, Excused, Unrelated
  <1>3. CInv /\ MoreInv /\ FailInv /\ [CommandsNext]_vars => FailInv'
    BY FailStays
  <1>4. QED
    BY <1>1, <1>2, <1>3, MoreHolds, PTL DEF CommandsSpec

-----------------------------------------------------------------------------
(* What verify --rebroadcast leaves missing *)

\* Tracing comes to every transaction of an unspent row that the node misses.
TracedInv ==
    command = "verify" =>
        /\ step = "parents" => \A t \in TxsOf(affected) : t \in roots \/ Pending(t) \/ gap
        /\ step = "others" => \A t \in TxsOf(affected) : Pending(t) \/ gap
        /\ step \in {"chain", "affected"} =>
               phase # "trace" /\ \A t \in TxsOf(affected) : t \in visited \/ gap
        /\ step = "affected" => phase \in {"circular", "sent"}

\* A parent is missing, or was sent after the transaction was refused.
Hopeless(t) == \E p \in Parents[t] : p \notin network \/ p \in TxsOf(resent)

\* Why a transaction may be missing in the end.
Explained(t) ==
    \/ t \in network \/ t \notin stored \/ gap
    \/ Hopeless(t)
    \/ t \in TxsOf(affected) /\ ~Unrelated

\* What was refused stays without help, what is rechecked is on the network, and
\* what is no longer to be sent was sent or is explained.
LeftInv ==
    command = "verify" /\ Quiet =>
        /\ phase \in {"send", "sent"} => \A t \in orphans : Hopeless(t)
        /\ step = "list" => missing = {}
        /\ step \in {"affected", "resent"} => TxsOf(todo) \subseteq network
        /\ step = "missing" => \A w \in missing : w \in todo \/ w \in resent \/ Explained(w[1])
        /\ rebroadcast /\ step \in {"resent", "fix", "done"} => \A w \in missing : Explained(w[1])

\* Without tracing, what is pending was visited.
LEMMA PendingVisited == ASSUME ChainInv, phase # "trace", NEW x, Pending(x) PROVE x \in visited
  BY DEF ChainInv, TraceInv, Pending

LEMMA VerifyTraces ==
    ASSUME CInv, TracedInv, command = "verify", VerifyCommand, UNCHANGED flags
    PROVE  TracedInv'
  <1>0. command' = "verify" /\ ChainInv
    BY DEF flags, CInv
  <1>1. CASE ListAll \/ \E u \in Utxos : \E says \in Says(u[1]) : CheckUTXO(u, says) \/ CheckTransactionExists(u, says)
    <2>1. step' = "rows"
      BY <1>1 DEF ListAll, CheckUTXO, CheckTransactionExists, Note
    <2>2. QED
      BY <2>1 DEF TracedInv
  <1>2. CASE Checked
    <2>1. affected' = affected /\ (step' \in {"fix", "missing"} \/ (step' = "parents" /\ roots' = TxsOf(affected)))
      BY <1>2 DEF Checked, verifyVars
    <2>2. QED
      BY <2>1 DEF TracedInv
  <1>3. CASE TraceOthers
    <2>1. /\ step = "parents" /\ roots = {} /\ step' = "others" /\ affected' = affected
          /\ UNCHANGED <<visited, frames, gap>>
      BY <1>3 DEF TraceOthers, verifyVars, chainVars
    <2>2. QED
      BY <1>0, <2>1 DEF TracedInv, Pending
  <1>4. CASE SortAll
    <2>1. /\ step = "others" /\ phase # "trace" /\ affected' = affected /\ UNCHANGED <<visited, gap>>
          /\ step' = "missing" \/ (step' = "chain" /\ phase' = "sort")
      BY <1>4 DEF SortAll, Traced, SendOthers, StartSort, sorting, verifyVars, chainVars
    <2>2. QED
      BY <1>0, <2>1, PendingVisited DEF TracedInv
  <1>5. CASE SendAll
    <2>1. step = "chain" /\ step' = "chain" /\ phase' = "send" /\ UNCHANGED <<affected, visited, gap>>
      BY <1>5 DEF SendAll, StartSend, sending, place, verifyVars
    <2>2. QED
      BY <1>0, <2>1 DEF TracedInv
  <1>6. CASE ChainSent
    <2>1. /\ step = "chain" /\ phase \in {"circular", "sent"} /\ step' \in {"missing", "affected"}
          /\ UNCHANGED <<affected, visited, gap, phase>>
      BY <1>6 DEF ChainSent, SendOthers, chainVars, verifyVars
    <2>2. QED
      BY <1>0, <2>1 DEF TracedInv
  <1>7. CASE \E u \in Utxos : \E says \in Says(u[1]) : Recheck(u, says)
    <2>1. step \in {"affected", "resent"} /\ UNCHANGED <<step, affected, visited, gap, phase>>
      BY <1>7 DEF Recheck, chainVars
    <2>2. QED
      BY <1>0, <2>1 DEF TracedInv
  <1>8. CASE Rechecked \/ Resent \/ RecheckedAll \/ ApplyFixes \/ \E u \in Utxos : Resend(u)
    <2>1. step' \in {"missing", "resent", "fix", "done"}
      BY <1>8 DEF Rechecked, SendOthers, Resent, RecheckedAll, ApplyFixes, Resend
    <2>2. QED
      BY <2>1 DEF TracedInv
  <1>9. CASE step \in {"parents", "others"} /\ TraceRoot /\ UNCHANGED verifyVars
    <2>1. PICK t \in roots : Trace(t, visited, chain) /\ roots' = roots \ {t}
      BY <1>9 DEF TraceRoot
    <2>2. phase # "trace" /\ UNCHANGED <<step, affected>>
      BY <1>9 DEF TraceRoot, Traced, verifyVars
    <2>3. frames = <<>> /\ gap' = gap /\ visited' = visited /\ frames' = <<{t}>>
      BY <1>0, <2>1, <2>2 DEF Trace, ChainInv, ChainTypes, TraceInv
    <2>4. Pending(t)' /\ \A x : Pending(x) => Pending(x)'
      BY <2>3 DEF Pending
    <2>5. QED
      BY <1>0, <1>9, <2>1, <2>2, <2>3, <2>4 DEF TracedInv
  <1>10. CASE step \in {"parents", "others", "chain"} /\ Recover /\ UNCHANGED <<rows, place, verifyVars>>
    <2>1. \A x : Pending(x) => gap' \/ Pending(x)'
      BY <1>0, <1>10, RecoverKeepsPending
    <2>2. UNCHANGED <<step, roots, affected>>
      BY <1>10 DEF place, verifyVars
    <2>3. gap => gap'
      BY <1>10, RecoverPhases
    <2>4. phase # "trace" => phase' # "trace" /\ UNCHANGED <<visited, gap>>
      BY <1>10, RecoverPhases
    <2>5. QED
      BY <1>0, <1>10, <2>1, <2>2, <2>3, <2>4 DEF TracedInv
  <1>11. QED
    BY <1>1, <1>2, <1>3, <1>4, <1>5, <1>6, <1>7, <1>8, <1>9, <1>10 DEF VerifyCommand

LEMMA TracedStays == ASSUME CInv, TracedInv, [CommandsNext]_vars PROVE TracedInv'
  <1>1. UNCHANGED command
    BY ChainStays
  <1>2. CASE command # "verify"
    BY <1>1, <1>2 DEF TracedInv
  <1>3. CASE Other \/ UNCHANGED vars
    <2>1. UNCHANGED <<step, roots, affected, phase, frames, visited, gap>>
      BY <1>3 DEF Other, Elsewhere, vars, chainVars, place, verifyVars
    <2>2. \A x : Pending(x) => Pending(x)'
      BY <2>1 DEF Pending
    <2>3. QED
      BY <1>1, <2>1, <2>2 DEF TracedInv
  <1>4. QED
    BY <1>2, <1>3, VerifyTraces DEF CommandsNext, Command

\* Without requests that get lost, and nobody else that sends, what is explained
\* stays explained, as long as what comes to the network was in a chain without
\* relations or is noted as sent again.
LEMMA StaysExplained ==
    ASSUME UNCHANGED <<stored, gap, affected, chain>>, resent \subseteq resent', network \subseteq network',
           \A p \in network' \ network : p \in TxsOf(resent')
    PROVE  \A t : (Hopeless(t) => Hopeless(t)') /\ (Explained(t) => Explained(t)')
  <1>1. TxsOf(resent) \subseteq TxsOf(resent')
    BY DEF TxsOf
  <1>2. \A t : Hopeless(t) => Hopeless(t)'
    BY <1>1 DEF Hopeless
  <1>3. UNCHANGED <<Unrelated, TxsOf(affected)>>
    BY DEF Unrelated, TxsOf
  <1>4. QED
    BY <1>2, <1>3 DEF Explained

\* What SendOthers leaves out: it was traced, and neither a broken sort nor the
\* chain put it on the network.
LEMMA LeftOutExplained ==
    ASSUME CInv, MoreInv, Quiet, phase # "trace",
           phase \in {"circular", "sent"} \/ chain = {},
           phase = "sent" => \A t \in orphans : Hopeless(t),
           NEW t \in TxsOf(affected), t \in visited \/ gap
    PROVE  Explained(t)
  <1>1. CASE gap
    BY <1>1 DEF Explained
  <1>2. CASE t \in chain /\ phase = "circular"
    BY <1>2 DEF MoreInv, SortsAll, Explained
  <1>3. CASE t \in chain /\ phase = "sent"
    BY <1>3 DEF CInv, ChainInv, SendInv, MoreInv, FailuresInv, Quiet, Explained
  <1>4. CASE ~gap /\ t \notin chain
    BY <1>4 DEF CInv, ChainInv, TraceInv, Explained
  <1>5. QED
    BY <1>1, <1>2, <1>3, <1>4

LEMMA SendOthersLeaves ==
    ASSUME CInv, MoreInv, LeftInv, command = "verify", Quiet, SendOthers, command' = "verify",
           UNCHANGED <<chainVars, missing, affected, resent>>, phase # "trace",
           phase \in {"circular", "sent"} \/ chain = {},
           \A t \in TxsOf(affected) : t \in visited \/ gap
    PROVE  LeftInv'
  <1>0. \A t : UNCHANGED <<Hopeless(t), Explained(t)>>
    BY DEF Hopeless, Explained, Unrelated, TxsOf, chainVars
  <1>1. step' = "missing" /\ \A w \in missing : w \in todo' \/ w[1] \in TxsOf(affected)
    BY DEF SendOthers, MissingParents
  <1>2. \A t \in TxsOf(affected) : Explained(t)
    BY LeftOutExplained DEF LeftInv
  <1>3. UNCHANGED <<phase, orphans, missing, TxsOf(affected)>>
    BY DEF chainVars, TxsOf
  <1>4. QED
    BY <1>0, <1>1, <1>2, <1>3 DEF LeftInv, chainVars, Quiet

\* A transaction of the chain that was refused has no parent in it, and so the
\* rest of the chain does not help it.
LEMMA RecoverLeaves ==
    ASSUME CInv, MoreInv, ~unreliable, Recover, UNCHANGED resent,
           phase \in {"send", "sent"} => \A t \in orphans : Hopeless(t)
    PROVE  phase' \in {"send", "sent"} => \A t \in orphans' : Hopeless(t)'
  <1>1. CASE Rebroadcast
    <2>0. PICK q : q = Head(unsent)
      OBVIOUS
    <2>1. phase = "send" /\ q \in chain /\ q \in Txs /\ network \subseteq Txs /\ Unrelated
      BY <2>0, <1>1, HeadTailProperties DEF Rebroadcast, CInv, ChainInv, SendInv, ChainTypes, OrderInv
    <2>2. PICK r \in Broadcasts(q) :
            /\ network' = r.net
            /\ orphans' = IF r.says = "orphan" THEN orphans \cup {q} ELSE orphans
      BY <1>1, <2>0 DEF Rebroadcast
    <2>3. network' \subseteq network \cup {q}
      BY <2>2 DEF Broadcasts, Answer, Lost
    <2>4. r.says = "orphan" => network' = network /\ \E p \in Parents[q] : p \notin network
      BY <2>1, <2>2, Answers
    <2>5. \A t \in orphans : t \in chain /\ q \notin Parents[t]
      BY <2>1 DEF MoreInv, FailuresInv, Unrelated
    <2>6. \A t \in orphans : Hopeless(t)'
      BY <2>1, <2>3, <2>5 DEF Hopeless, TxsOf
    <2>7. r.says = "orphan" => Hopeless(q)'
      BY <2>4 DEF Hopeless
    <2>8. QED
      BY <2>2, <2>6, <2>7
  <1>2. CASE SendDone
    BY <1>2 DEF SendDone, sending, Hopeless, TxsOf
  <1>3. CASE ~Rebroadcast /\ ~SendDone
    BY <1>3 DEF Recover, Visit, VisitFails, LevelDone, SortNext, SortDone
  <1>4. QED
    BY <1>1, <1>2, <1>3

LEMMA ResendLeaves ==
    ASSUME CInv, LeftInv, command = "verify", command' = "verify", Quiet, NEW u \in Utxos, Resend(u)
    PROVE  LeftInv'
  <1>1. /\ step = "missing" /\ step' = "missing" /\ todo' = todo \ {u} /\ u[1] \in Txs /\ network \subseteq Txs
        /\ UNCHANGED <<stored, gap, affected, chain, phase, orphans, missing, unreliable, others>>
    BY WalletAssumption DEF Resend, CInv, ChainInv, ChainTypes
  <1>2. CASE u[1] \notin stored
    <2>1. UNCHANGED <<network, resent>>
      BY <1>1, <1>2 DEF Resend
    <2>2. \A t : (Hopeless(t) => Hopeless(t)') /\ (Explained(t) => Explained(t)')
      BY <1>1, <2>1, StaysExplained
    <2>3. Explained(u[1])'
      BY <1>1, <1>2 DEF Explained
    <2>4. QED
      BY <1>1, <2>1, <2>2, <2>3 DEF LeftInv, Quiet
  <1>3. CASE u[1] \in stored
    <2>1. PICK r \in Broadcasts(u[1]) :
            network' = r.net /\ resent' = IF Succeeds(r.says) THEN resent \cup {u} ELSE resent
      BY <1>3 DEF Resend
    <2>2. /\ network \subseteq network' /\ network' \subseteq network \cup {u[1]}
          /\ ~Succeeds(r.says) => network' = network /\ \E p \in Parents[u[1]] : p \notin network
      BY <1>1, <2>1, Answers DEF Broadcasts, Answer, Lost, Succeeds, Quiet
    <2>3. Succeeds(r.says) => u \in resent' /\ u[1] \in TxsOf(resent')
      BY <2>1 DEF TxsOf
    <2>4. \A t : (Hopeless(t) => Hopeless(t)') /\ (Explained(t) => Explained(t)')
      BY <1>1, <2>1, <2>2, <2>3, StaysExplained
    <2>5. u \in resent' \/ Explained(u[1])'
      BY <2>2, <2>3 DEF Explained, Hopeless
    <2>6. QED
      BY <1>1, <2>1, <2>4, <2>5 DEF LeftInv, Quiet
  <1>4. QED
    BY <1>2, <1>3

LEMMA VerifyLeaves ==
    ASSUME CInv, MoreInv, TracedInv, LeftInv, command = "verify", VerifyCommand, UNCHANGED flags, Quiet
    PROVE  LeftInv'
  <1>0. /\ command' = "verify" /\ ChainInv /\ UNCHANGED <<unreliable, stored, rebroadcast>>
        /\ TxsOf(resent) \subseteq network /\ ~unreliable
    BY VerifyChainStep, ChainKept DEF flags, CInv, NetworkInv, TxsOf, Quiet
  <1>a. ASSUME UNCHANGED <<chainVars, affected, resent>>
        PROVE  \A t : UNCHANGED <<Hopeless(t), Explained(t)>>
    BY <1>a DEF Hopeless, Explained, Unrelated, TxsOf, chainVars
  <1>1. CASE ListAll \/ \E u \in Utxos : \E says \in Says(u[1]) : CheckUTXO(u, says) \/ CheckTransactionExists(u, says)
    <2>1. step' = "rows" /\ UNCHANGED <<chainVars, resent>>
      BY <1>1 DEF ListAll, CheckUTXO, CheckTransactionExists, Note, verifyVars
    <2>2. \A t : UNCHANGED Hopeless(t)
      BY <2>1 DEF Hopeless, chainVars, TxsOf
    <2>3. QED
      BY <1>0, <2>1, <2>2 DEF LeftInv, chainVars, Quiet
  <1>2. CASE Checked
    <2>1. /\ UNCHANGED <<chainVars, affected, resent, missing>>
          /\ \/ step' = "fix" /\ (rebroadcast => missing = {})
             \/ step' = "parents"
             \/ step' = "missing" /\ todo' = missing
      BY <1>2 DEF Checked, verifyVars
    <2>2. QED
      BY <1>0, <1>a, <2>1 DEF LeftInv, chainVars, Quiet
  <1>3. CASE TraceOthers
    <2>1. UNCHANGED <<chainVars, affected, resent, missing>> /\ step' = "others"
      BY <1>3 DEF TraceOthers, verifyVars
    <2>2. QED
      BY <1>0, <1>a, <2>1 DEF LeftInv, chainVars, Quiet
  <1>4. CASE SortAll
    <2>1. /\ step = "others" /\ phase # "trace" /\ UNCHANGED <<missing, affected, resent>>
          /\ \/ chain = {} /\ SendOthers /\ UNCHANGED chainVars
             \/ StartSort /\ step' = "chain"
      BY <1>4 DEF SortAll, Traced, verifyVars
    <2>2. \A t \in TxsOf(affected) : t \in visited \/ gap
      BY <1>0, <2>1, PendingVisited DEF TracedInv
    <2>3. CASE chain = {} /\ SendOthers /\ UNCHANGED chainVars
      BY <1>0, <2>1, <2>2, <2>3, SendOthersLeaves
    <2>4. CASE StartSort /\ step' = "chain"
      BY <1>0, <2>4 DEF StartSort, LeftInv
    <2>5. QED
      BY <2>1, <2>3, <2>4
  <1>5. CASE SendAll
    <2>1. step' = "chain" /\ orphans' = {}
      BY <1>5 DEF SendAll, StartSend, place
    <2>2. QED
      BY <1>0, <2>1 DEF LeftInv
  <1>6. CASE ChainSent
    <2>1. /\ step = "chain" /\ phase \in {"circular", "sent"} /\ UNCHANGED <<chainVars, missing, affected, resent>>
          /\ SendOthers \/ (step' = "affected" /\ todo' = {u \in affected : u[1] \in successful})
      BY <1>6 DEF ChainSent, verifyVars
    <2>2. CASE SendOthers
      BY <1>0, <2>1, <2>2, SendOthersLeaves DEF TracedInv
    <2>3. CASE step' = "affected" /\ todo' = {u \in affected : u[1] \in successful}
      <3>1. TxsOf(todo') \subseteq network
        BY <2>3 DEF TxsOf, MoreInv, FailuresInv
      <3>2. QED
        BY <1>0, <1>a, <2>1, <2>3, <3>1 DEF LeftInv, chainVars, Quiet
    <2>4. QED
      BY <2>1, <2>2, <2>3
  <1>7. ASSUME NEW u \in Utxos, NEW says \in Says(u[1]), Recheck(u, says) PROVE LeftInv'
    <2>1. /\ step \in {"affected", "resent"} /\ u \in todo /\ todo' \subseteq todo
          /\ UNCHANGED <<chainVars, step, affected, resent>> /\ missing' = Noted(u, says)
      BY <1>7 DEF Recheck
    <2>2. u[1] \in network /\ TxsOf(todo') \subseteq network
      BY <2>1 DEF LeftInv, TxsOf
    <2>3. missing' = missing
      BY <1>0, <1>7, <2>1, <2>2 DEF Says, Lost, Noted
    <2>4. QED
      BY <1>0, <1>a, <2>1, <2>2, <2>3 DEF LeftInv, chainVars, Quiet
  <1>8. CASE Rechecked
    <2>1. /\ step = "affected" /\ SendOthers /\ UNCHANGED <<chainVars, missing, affected, resent>>
      BY <1>8 DEF Rechecked, verifyVars
    <2>2. QED
      BY <1>0, <2>1, SendOthersLeaves DEF TracedInv
  <1>9. CASE Resent
    <2>1. /\ step = "missing" /\ todo = {} /\ step' = "resent" /\ todo' = resent
          /\ missing' = missing \ resent /\ UNCHANGED <<chainVars, affected, resent>>
      BY <1>9 DEF Resent
    <2>2. QED
      BY <1>0, <1>a, <2>1 DEF LeftInv, chainVars, Quiet
  <1>10. CASE RecheckedAll \/ ApplyFixes
    <2>1. /\ step \in {"resent", "fix"} /\ step' \in {"fix", "done"}
          /\ UNCHANGED <<chainVars, missing, affected, resent>>
      BY <1>10 DEF RecheckedAll, ApplyFixes, verifyVars
    <2>2. QED
      BY <1>0, <1>a, <2>1 DEF LeftInv, chainVars, Quiet
  <1>11. CASE step \in {"parents", "others"} /\ TraceRoot /\ UNCHANGED verifyVars
    <2>1. phase' = "trace" /\ step' \in {"parents", "others"}
      BY <1>11 DEF TraceRoot, Trace
    <2>2. QED
      BY <1>0, <2>1 DEF LeftInv
  <1>12. CASE step \in {"parents", "others", "chain"} /\ Recover /\ UNCHANGED <<rows, place, verifyVars>>
    <2>1. step' \in {"parents", "others", "chain"} /\ UNCHANGED resent
      BY <1>12 DEF place, verifyVars
    <2>2. QED
      BY <1>0, <1>12, <2>1, RecoverLeaves DEF LeftInv
  <1>13. CASE \E u \in Utxos : Resend(u)
    BY <1>0, <1>13, ResendLeaves
  <1>14. QED
    BY <1>1, <1>2, <1>3, <1>4, <1>5, <1>6, <1>7, <1>8, <1>9, <1>10, <1>11, <1>12, <1>13 DEF VerifyCommand

\* Nobody takes back that somebody else has sent.
LEMMA OthersGrow == ASSUME CInv, [CommandsNext]_vars PROVE others \in Nat /\ (Quiet' => Quiet)
  <1>1. ChainStep /\ others \in Nat
    BY EveryChainStep DEF CInv, ChainInv, ChainTypes
  <1>2. others' = others \/ others' = others + 1
    BY <1>1, RecoverOnlyAdds
    DEF ChainStep, Trace, StartSort, StartSend, OnlyAdds, building, sorting, sending, CInv
  <1>3. UNCHANGED unreliable
    BY ChainStays
  <1>4. QED
    BY <1>1, <1>2, <1>3 DEF Quiet

LEMMA LeftStays == ASSUME CInv, MoreInv, TracedInv, LeftInv, [CommandsNext]_vars PROVE LeftInv'
  <1>1. UNCHANGED command /\ others \in Nat /\ (Quiet' => Quiet)
    BY ChainStays, OthersGrow
  <1>2. CASE ~(command = "verify" /\ Quiet)
    BY <1>1, <1>2 DEF LeftInv
  <1>3. CASE Other
    <2>1. others' # 0
      BY <1>1, <1>3 DEF Other, Elsewhere
    <2>2. QED
      BY <2>1 DEF LeftInv, Quiet
  <1>4. CASE UNCHANGED vars
    <2>1. UNCHANGED <<step, todo, missing, affected, resent, network, stored, phase, orphans, chain, gap, rebroadcast>>
      BY <1>4 DEF vars, chainVars, flags, place, verifyVars
    <2>2. \A t : UNCHANGED <<Hopeless(t), Explained(t)>> /\ UNCHANGED TxsOf(todo)
      BY <2>1 DEF Hopeless, Explained, Unrelated, TxsOf
    <2>3. QED
      BY <1>1, <2>1, <2>2 DEF LeftInv
  <1>5. QED
    BY <1>2, <1>3, <1>4, VerifyLeaves DEF CommandsNext, Command

\* verify --rebroadcast, while nobody else sends and nothing gets lost, leaves a
\* stored transaction missing only for a parent, for a chain too deep, or for a
\* sort that gave up on it (verify.go:200-279, 625-743).
THEOREM LeavesForAReason == CommandsSpec => []LeavesOnlyUnsorted
  <1>1. CommandsInit => TracedInv /\ LeftInv
    BY DEF CommandsInit, Init, VerifyInit, TracedInv, LeftInv
  <1>2. LeftInv => LeavesOnlyUnsorted
    <2> SUFFICES ASSUME LeftInv, command = "verify", step = "done", Quiet, rebroadcast,
                        NEW w \in missing, w[1] \in stored
                 PROVE  \/ w[1] \in network \/ gap \/ Hopeless(w[1])
                        \/ w[1] \in TxsOf(affected) /\ ~Unrelated
      BY DEF LeavesOnlyUnsorted, TxsOf, Hopeless, Unrelated
    <2>1. QED
      BY DEF LeftInv, Explained
  <1>3. CInv /\ MoreInv /\ TracedInv /\ LeftInv /\ [CommandsNext]_vars => TracedInv' /\ LeftInv'
    BY TracedStays, LeftStays
  <1>4. QED
    BY <1>1, <1>2, <1>3, MoreHolds, PTL DEF CommandsSpec

-----------------------------------------------------------------------------
(* What verify makes of the table *)

\* What the node knows of an output, and what it says of it when it answers.
Real(u) == u[1] \in network /\ u \in Ours

Truth(u) == [spent |-> ~Real(u) \/ SpentOnNetwork(u), ours |-> Real(u)]

\* The fix that is noted for a row is the one that it needs; an output without
\* a row has none.
RightFix(u) ==
    /\ u \in toDelete <=> HasRow(u) /\ ~Real(u)
    /\ u \in toMarkSpent <=> Real(u) /\ u \in unspent /\ SpentOnNetwork(u)
    /\ u \in toMarkUnspent <=> Real(u) /\ u \in spent /\ ~SpentOnNetwork(u)

\* What is left of an output for tx-status to find when verify ends.
Settled(u) == Inconsistent(u) => ~HasRow(u) /\ (NotFound(u) \/ u \notin toDelete)

AgreesInv ==
    command = "verify" /\ Quiet /\ ~rebroadcast =>
        /\ step \in {"list", "rows", "fix", "done"}
        /\ step = "rows" => todo \subseteq unspent \cup spent
        /\ step \in {"rows", "fix"} => \A u \in Utxos \ todo : RightFix(u)
        /\ step = "rows" => \A u \in cur : u \in unspent /\ answer = Truth(u)
        /\ step = "fix" => todo = {}
        /\ step = "done" => \A u \in Utxos : Settled(u)

\* What the node says without loss is the truth.
LEMMA SaysTruth ==
    ASSUME ~unreliable, NEW u \in Utxos, NEW says \in Says(u[1])
    PROVE  /\ says # "lost" /\ Response(u, says) = Truth(u)
           /\ says = "missing" => u[1] \notin network
  <1>1. says = IF u[1] \in network THEN "found" ELSE "missing"
    BY DEF Says, Lost
  <1>2. (says = "found" /\ u \in Ours) <=> Real(u)
    BY <1>1 DEF Real
  <1>3. Response(u, says) = Truth(u)
    <2>1. CASE Real(u)
      <3>1. SpentOnNetwork(u) \in BOOLEAN
        BY DEF SpentOnNetwork
      <3>2. (~Real(u) \/ SpentOnNetwork(u)) = SpentOnNetwork(u) /\ Real(u) = TRUE
        BY <2>1, <3>1 DEF Real
      <3>3. QED
        BY <1>2, <2>1, <3>2 DEF Response, Truth
    <2>2. CASE ~Real(u)
      <3>1. (~Real(u) \/ SpentOnNetwork(u)) = TRUE /\ Real(u) = FALSE
        BY <2>2 DEF Real
      <3>2. QED
        BY <1>2, <2>2, <3>1 DEF Response, Truth
    <2>3. QED
      BY <2>1, <2>2
  <1>4. QED
    BY <1>1, <1>3

LEMMA NoteIsRight ==
    ASSUME CommandTypes, ListsInv, command = "verify", step = "rows", NEW u \in todo, Note(u, Truth(u)),
           HasRow(u), \A w \in Utxos \ todo : RightFix(w)
    PROVE  \A w \in Utxos \ todo' : RightFix(w)'
  <1>1. UNCHANGED <<network, unspent, spent>> /\ todo' = todo \ {u}
    BY DEF Note, chainVars, rows
  <1>2. \A w : UNCHANGED <<Real(w), SpentOnNetwork(w), HasRow(w)>>
    BY <1>1 DEF Real, SpentOnNetwork, HasRow
  <1>3. Truth(u).ours = Real(u) /\ Truth(u).spent = (~Real(u) \/ SpentOnNetwork(u))
    BY DEF Truth
  <1>4. /\ toDelete' = IF Real(u) THEN toDelete ELSE toDelete \cup {u}
        /\ toMarkUnspent' = IF Real(u) /\ u \in spent /\ ~SpentOnNetwork(u)
                            THEN toMarkUnspent \cup {u} ELSE toMarkUnspent
        /\ toMarkSpent' = IF Real(u) /\ u \in unspent /\ SpentOnNetwork(u)
                          THEN toMarkSpent \cup {u} ELSE toMarkSpent
    BY <1>3 DEF Note
  <1>5. u \notin toDelete /\ u \notin toMarkUnspent /\ u \notin toMarkSpent
    BY DEF ListsInv
  <1>6. RightFix(u)'
    BY <1>1, <1>2, <1>4, <1>5 DEF RightFix
  <1>7. ASSUME NEW w \in Utxos \ todo PROVE RightFix(w)'
    BY <1>1, <1>2, <1>4, <1>7 DEF RightFix
  <1>8. QED
    BY <1>1, <1>6, <1>7

LEMMA VerifyAgreesStep ==
    ASSUME CInv, MoreInv, AgreesInv, command = "verify", VerifyCommand, UNCHANGED flags,
           Quiet, ~rebroadcast
    PROVE  AgreesInv'
  <1>0. /\ command' = "verify" /\ rebroadcast' = rebroadcast /\ CommandTypes /\ ListsInv /\ ~unreliable
        /\ step \in {"list", "rows", "fix", "done"}
    BY DEF flags, CInv, MoreInv, Quiet, AgreesInv
  <1>1. CASE ListAll
    <2>1. /\ step = "list" /\ step' = "rows" /\ todo' = unspent \cup spent /\ cur' = {}
          /\ UNCHANGED <<unspent, spent, toDelete, toMarkSpent, toMarkUnspent>>
      BY <1>0, <1>1 DEF ListAll, rows, AgreesInv, CommandTypes, verifyVars, fixes
    <2>2. toDelete = {} /\ toMarkSpent = {} /\ toMarkUnspent = {}
      BY <1>0, <2>1 DEF ListsInv, fixes
    <2>3. ASSUME NEW w \in Utxos \ todo' PROVE RightFix(w)'
      BY <2>1, <2>2, <2>3 DEF RightFix, HasRow
    <2>4. QED
      BY <1>0, <2>1, <2>3 DEF AgreesInv
  <1>2. ASSUME NEW u \in todo, Note(u, Truth(u)), step = "rows" PROVE AgreesInv'
    <2>1. HasRow(u) /\ todo \subseteq unspent \cup spent
      BY <1>0, <1>2 DEF AgreesInv, HasRow
    <2>2. /\ step' = "rows" /\ cur' = {} /\ UNCHANGED <<unspent, spent>> /\ todo' \subseteq todo
          /\ \A w \in Utxos \ todo' : RightFix(w)'
      BY <1>0, <1>2, <2>1, NoteIsRight DEF Note, rows, AgreesInv
    <2>3. QED
      BY <1>0, <2>1, <2>2 DEF AgreesInv
  <1>3. ASSUME NEW u \in Utxos, NEW says \in Says(u[1]), CheckUTXO(u, says) PROVE AgreesInv'
    <2>1. u \in todo /\ step = "rows" /\ says # "lost" /\ Response(u, says) = Truth(u)
      BY <1>0, <1>3, SaysTruth DEF CheckUTXO, Newest
    <2>2. CASE Note(u, Response(u, says))
      BY <1>2, <2>1, <2>2
    <2>3. CASE ~Note(u, Response(u, says))
      <3>1. /\ u \in unspent /\ cur' = {u} /\ answer' = Truth(u)
            /\ UNCHANGED <<chainVars, unspent, spent, step, todo, toDelete, toMarkSpent, toMarkUnspent>>
        BY <1>3, <2>1, <2>3 DEF CheckUTXO, rows, fixes
      <3>2. \A w : UNCHANGED <<RightFix(w), Truth(w)>>
        BY <3>1 DEF RightFix, Truth, Real, SpentOnNetwork, HasRow, chainVars
      <3>3. QED
        BY <1>0, <2>1, <3>1, <3>2 DEF AgreesInv
    <2>4. QED
      BY <2>2, <2>3
  <1>4. ASSUME NEW u \in Utxos, NEW says \in Says(u[1]), CheckTransactionExists(u, says) PROVE AgreesInv'
    <2>1. step = "rows" /\ cur = {u} /\ u \in todo /\ answer = Truth(u)
      BY <1>0, <1>4 DEF CheckTransactionExists, CommandTypes, AgreesInv
    <2>2. says = "missing" => Truth(u).spent = TRUE
      BY <1>0, SaysTruth DEF Truth, Real
    <2>3. [answer EXCEPT !.spent = @ \/ says = "missing"] = Truth(u)
      <3>1. Truth(u).spent \in BOOLEAN /\ DOMAIN Truth(u) = {"spent", "ours"}
        BY DEF Truth
      <3>2. (Truth(u).spent \/ says = "missing") = Truth(u).spent
        BY <2>2, <3>1
      <3>3. [answer EXCEPT !.spent = @ \/ says = "missing"]
               = [answer EXCEPT !.spent = Truth(u).spent]
        BY <2>1, <3>2
      <3>4. QED
        BY <2>1, <3>3 DEF Truth
    <2>4. Note(u, Truth(u))
      BY <1>4, <2>3 DEF CheckTransactionExists
    <2>5. QED
      BY <1>2, <2>1, <2>4
  <1>5. CASE Checked
    <2>1. /\ step = "rows" /\ step' = "fix" /\ cur = {} /\ todo = {} /\ todo' = {}
          /\ UNCHANGED <<chainVars, unspent, spent, toDelete, toMarkSpent, toMarkUnspent>>
      BY <1>0, <1>5 DEF Checked, rows, verifyVars, fixes
    <2>2. \A w : UNCHANGED RightFix(w)
      BY <2>1 DEF RightFix, Real, SpentOnNetwork, HasRow, chainVars
    <2>3. QED
      BY <1>0, <2>1, <2>2 DEF AgreesInv
  <1>6. CASE ApplyFixes
    <2>1. /\ step = "fix" /\ step' = "done" /\ network' = network /\ toDelete' = toDelete
          /\ unspent' = ((unspent \ toMarkSpent) \cup toMarkUnspent) \ toDelete
          /\ spent' = ((spent \cup toMarkSpent) \ toMarkUnspent) \ toDelete
      BY <1>0, <1>6 DEF ApplyFixes, Written, chainVars, verifyVars, fixes
    <2>2. \A u : UNCHANGED <<SpentOnNetwork(u), NotFound(u)>>
      BY <2>1 DEF SpentOnNetwork, NotFound
    <2>3. ASSUME NEW u \in Utxos PROVE Settled(u)'
      <3>1. RightFix(u)
        BY <1>0, <2>1 DEF AgreesInv
      <3>2. CASE ~HasRow(u)
        <4>1. u \notin toDelete' /\ ~HasRow(u)'
          BY <2>1, <3>1, <3>2 DEF RightFix, HasRow
        <4>2. QED
          BY <4>1 DEF Settled
      <3>3. CASE HasRow(u) /\ ~Real(u)
        <4>1. ~HasRow(u)'
          BY <2>1, <3>1, <3>3 DEF RightFix, HasRow
        <4>2. NotFound(u)' \/ ~Inconsistent(u)'
          BY <2>1, <2>2, <3>3, <4>1 DEF Inconsistent, RowDisagrees, RowMissing, NotFound, Real
        <4>3. QED
          BY <4>1, <4>2 DEF Settled
      <3>4. CASE HasRow(u) /\ Real(u) /\ SpentOnNetwork(u)
        <4>1. u \notin unspent' /\ HasRow(u)'
          BY <2>1, <3>1, <3>4 DEF RightFix, HasRow
        <4>2. QED
          BY <2>2, <3>4, <4>1 DEF Settled, Inconsistent, RowDisagrees, RowMissing, NotFound, Real
      <3>5. CASE HasRow(u) /\ Real(u) /\ ~SpentOnNetwork(u)
        <4>1. u \in unspent' /\ u \notin spent'
          BY <1>0, <2>1, <3>1, <3>5 DEF RightFix, HasRow, CommandTypes
        <4>2. HasRow(u)'
          BY <4>1 DEF HasRow
        <4>3. QED
          BY <2>2, <3>5, <4>1, <4>2 DEF Settled, Inconsistent, RowDisagrees, RowMissing, NotFound, Real
      <3>6. QED
        BY <3>2, <3>3, <3>4, <3>5
    <2>4. QED
      BY <1>0, <2>1, <2>3 DEF AgreesInv
  <1>7. QED
    BY <1>0, <1>1, <1>3, <1>4, <1>5, <1>6
    DEF VerifyCommand, TraceOthers, SortAll, SendAll, ChainSent, Rechecked, Resent, RecheckedAll, Recheck, Resend

LEMMA AgreesStays == ASSUME CInv, MoreInv, AgreesInv, [CommandsNext]_vars PROVE AgreesInv'
  <1>1. UNCHANGED <<command, rebroadcast>> /\ others \in Nat /\ (Quiet' => Quiet)
    BY ChainStays, OthersGrow
  <1>2. CASE ~(command = "verify" /\ Quiet /\ ~rebroadcast)
    BY <1>1, <1>2 DEF AgreesInv
  <1>3. CASE Other
    <2>1. others' # 0
      BY <1>1, <1>3 DEF Other, Elsewhere
    <2>2. QED
      BY <2>1 DEF AgreesInv, Quiet
  <1>4. CASE UNCHANGED vars
    <2>1. UNCHANGED <<step, todo, cur, unspent, spent, answer, toDelete, toMarkSpent, toMarkUnspent, network>>
      BY <1>4 DEF vars, chainVars, rows, place, verifyVars, fixes
    <2>2. \A u : UNCHANGED <<RightFix(u), Truth(u), Settled(u)>>
      BY <2>1 DEF RightFix, Truth, Real, SpentOnNetwork, Settled, Inconsistent, RowDisagrees,
                  RowMissing, HasRow, NotFound
    <2>3. QED
      BY <1>1, <2>1, <2>2 DEF AgreesInv
  <1>5. QED
    BY <1>2, <1>3, <1>4, VerifyAgreesStep DEF CommandsNext, Command

\* After verify without --rebroadcast, over any table, while nobody else sends and
\* nothing fails: every row that is left says of its output what the node does,
\* and a row verify deleted is not one that tx-status misses (verify.go:139-193,
\* 247-274, tx-status.go:80-95, 158-188).
THEOREM TableAgrees == CommandsSpec => []VerifyAgrees
  <1>1. CommandsInit => AgreesInv
    BY DEF CommandsInit, VerifyInit, AgreesInv, Quiet
  <1>2. AgreesInv => VerifyAgrees
    BY DEF AgreesInv, Settled, VerifyAgrees
  <1>3. CInv /\ MoreInv /\ AgreesInv /\ [CommandsNext]_vars => AgreesInv'
    BY AgreesStays
  <1>4. QED
    BY <1>1, <1>2, <1>3, MoreHolds, PTL DEF CommandsSpec
=============================================================================
