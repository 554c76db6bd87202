------------------------------ MODULE Scanner -------------------------------
(***************************************************************************)
(* The scan of the chain for coinbase outputs of ours, internal/scanner,   *)
(* over the blocks endpoint of a node that goes on working meanwhile, into *)
(* the table of module UtxoStore.  Heights are uint32: Word is 2^32.       *)
(***************************************************************************)
EXTENDS UtxoStore

CONSTANTS
    Owned,         \* heights of the blocks whose coinbase pays our key
    PageSize,      \* blocks per request: 100
    Word,
    RecentBlocks, Ranges, ScanAll,   \* the scans asked for: --blocks, --start --end, --all
    FirstBests, MaxBest,             \* the heights the node may begin at, and a bound
    Stale,         \* heights that may have an orphaned block beside the main one
    Unreliable     \* requests may fail

ASSUME ScannerAssumption ==
    /\ Word \in Nat \ {0, 1} /\ PageSize \in Nat \ {0}
    /\ MaxBest \in 0 .. Word - 1 /\ FirstBests \subseteq 0 .. MaxBest
    /\ Owned \subseteq 1 .. MaxBest /\ Stale \subseteq 0 .. MaxBest
    /\ RecentBlocks \subseteq Nat \ {0}
    /\ Ranges \subseteq Nat \X Nat /\ \A r \in Ranges : r[1] <= r[2] /\ r[2] < Word
    /\ {ScanAll, Unreliable} \subseteq BOOLEAN
    /\ MaxMoney >= 1

VARIABLES
    rows,
    best,          \* the node's best height
    orphaned,      \* the heights with an orphaned block
    phase, asked,  \* where the scan is, and the heights it was asked for
    start, end,    \* startHeight and endHeight
    current,       \* currentHeight, or the height ScanAllBlocks is at
    numBlocks, offset,
    listed,        \* the heights of a page that are still to be gone through
    failed,        \* a request or a write has failed
    moved          \* the tip has moved since the scan began

vars == <<rows, best, orphaned, phase, asked, start, end, current, numBlocks, offset, listed,
          failed, moved>>

Heights == 0 .. Word - 1

TypeOK ==
    /\ DOMAIN rows \subseteq Owned /\ rows \in [DOMAIN rows -> Row]
    /\ best \in 0 .. MaxBest /\ orphaned \subseteq Stale
    /\ phase \in {"idle", "range", "page", "blocks", "all", "done"}
    /\ {start, end, current} \subseteq Heights
    /\ numBlocks \in Nat /\ offset \in Nat
    /\ asked \subseteq Int /\ listed \subseteq 0 .. MaxBest
    /\ {failed, moved} \subseteq BOOLEAN

Init ==
    /\ rows = <<>>
    /\ best \in FirstBests /\ orphaned \in SUBSET Stale
    /\ phase = "idle" /\ asked = {}
    /\ start = 0 /\ end = 0 /\ current = 0 /\ numBlocks = 0 /\ offset = 0
    /\ listed = {} /\ failed = FALSE /\ moved = FALSE

-----------------------------------------------------------------------------
(* The node *)

\* GET /api/v1/blocks lists the blocks from the tip downwards, the orphaned ones
\* among the others: so many come before the block of the chain at a height.
ListedBefore(h) == (best - h) + Cardinality({o \in orphaned : h < o /\ o <= best})

\* The heights of the blocks of the chain on a page.
GetBlocks(limit, from) == {h \in 0 .. best : ListedBefore(h) \in from .. from + limit - 1}

NewBlock ==
    /\ best < MaxBest /\ phase \notin {"idle", "done"}
    /\ best' = best + 1 /\ moved' = TRUE
    /\ UNCHANGED <<rows, orphaned, phase, asked, start, end, current, numBlocks, offset, listed,
                   failed>>

-----------------------------------------------------------------------------
(* Blocks *)

\* processCoinbaseTransaction of the block at a height.
Coinbase(h) == [amount |-> 1, height |-> h, spent |-> FALSE, coinbase |-> TRUE]
Found(table, h) == IF h \in Owned THEN SaveUTXO(table, h, Coinbase(h)) ELSE table

\* A mistake: below 0 nothing wraps.
MinusSigned(a, b) == a - b

Minus(a, b) == (a + Word - b) % Word

-----------------------------------------------------------------------------
(* ScanRecentBlocks, ScanBlockRange *)

\* The uint32 subtraction wraps; "endHeight < 0" is never true.
ScanRecentBlocks(n) ==
    /\ phase = "idle"
    /\ start' = (Minus(best, n % Word) + 1) % Word
    /\ end' = best
    /\ asked' = best - n + 1 .. best
    /\ phase' = "range"
    /\ UNCHANGED <<rows, best, orphaned, current, numBlocks, offset, listed, failed, moved>>

ScanRange(s, e) ==
    /\ phase = "idle"
    /\ start' = s /\ end' = e
    /\ asked' = s .. e
    /\ phase' = "range"
    /\ UNCHANGED <<rows, best, orphaned, current, numBlocks, offset, listed, failed, moved>>

\* ScanBlockRange asks for the best header, for a second time when it is called
\* by ScanRecentBlocks, and clips the end.
BeginRange ==
    /\ phase = "range"
    /\ numBlocks' = (Minus(end, start) + 1) % Word
    /\ end' = IF end > best THEN best ELSE end
    /\ offset' = best - end'
    /\ current' = end'
    /\ phase' = "page"
    /\ UNCHANGED <<rows, best, orphaned, asked, start, listed, failed, moved>>

Limit == IF numBlocks < PageSize THEN numBlocks ELSE PageSize

\* A mistake: what is above the range is scanned as well.
WantedFromTip == {h \in GetBlocks(Limit, offset) : h >= start}

\* The blocks of the page that are asked for by height.
Wanted == GetBlocks(Limit, offset) \cap start .. end

\* A mistake: the last block of a page is taken for the first of the next.
NextOffsetWithin == offset + Limit - 1

\* The page after this one.
NextOffset == offset + Limit

ListPage ==
    /\ phase = "page" /\ current >= start
    /\ listed' = Wanted
    /\ phase' = "blocks"
    /\ UNCHANGED <<rows, best, orphaned, asked, start, end, current, numBlocks, offset, failed, moved>>

\* GetBlockByHeight for the next block of the page, from the highest down.  A
\* block that cannot be fetched is skipped; that a row cannot be saved is logged.
ScanBlock ==
    /\ phase = "blocks" /\ listed # {}
    /\ LET h == Max(listed)
       IN  /\ listed' = listed \ {h}
           /\ \/ /\ rows' = Found(rows, h) /\ current' = Minus(h, 1)
                 /\ UNCHANGED failed
              \/ /\ Unreliable /\ failed' = TRUE
                 /\ current' \in {current, Minus(h, 1)} /\ UNCHANGED rows
    /\ UNCHANGED <<best, orphaned, phase, asked, start, end, numBlocks, offset, moved>>

\* A mistake: only the height ends the loop.
NextPageOnly ==
    /\ phase = "blocks" /\ listed = {}
    /\ offset' = NextOffset
    /\ numBlocks' = numBlocks - Limit
    /\ phase' = "page"
    /\ UNCHANGED <<rows, best, orphaned, asked, start, end, current, listed, failed, moved>>

\* The loop ends with the blocks to fetch, or below the range.
NextPage ==
    /\ phase = "blocks" /\ listed = {}
    /\ offset' = NextOffset
    /\ numBlocks' = numBlocks - Limit
    /\ phase' = IF numBlocks' <= 0 THEN "done" ELSE "page"
    /\ UNCHANGED <<rows, best, orphaned, asked, start, end, current, listed, failed, moved>>

BelowRange ==
    /\ phase = "page" /\ current < start
    /\ phase' = "done"
    /\ UNCHANGED <<rows, best, orphaned, asked, start, end, current, numBlocks, offset, listed,
                   failed, moved>>

PageFails ==
    /\ Unreliable /\ phase \in {"range", "page"}
    /\ phase' = "done" /\ failed' = TRUE
    /\ UNCHANGED <<rows, best, orphaned, asked, start, end, current, numBlocks, offset, listed, moved>>

-----------------------------------------------------------------------------
(* ScanAllBlocks *)

BeginAll ==
    /\ phase = "idle" /\ ScanAll
    /\ start' = 1 /\ end' = best /\ current' = 1
    /\ asked' = 1 .. best
    /\ phase' = "all"
    /\ UNCHANGED <<rows, best, orphaned, numBlocks, offset, listed, failed, moved>>

\* A block that cannot be fetched, or whose row cannot be saved, is passed over.
ScanOne ==
    /\ phase = "all"
    /\ IF current > end
       THEN phase' = "done" /\ UNCHANGED <<rows, current, failed>>
       ELSE /\ \/ rows' = Found(rows, current) /\ UNCHANGED failed
               \/ Unreliable /\ failed' = TRUE /\ UNCHANGED rows
            /\ current' = (current + 1) % Word
            /\ UNCHANGED phase
    /\ UNCHANGED <<best, orphaned, asked, start, end, numBlocks, offset, listed, moved>>

-----------------------------------------------------------------------------
Scan ==
    \/ \E n \in RecentBlocks : ScanRecentBlocks(n)
    \/ \E r \in Ranges : ScanRange(r[1], r[2])
    \/ BeginRange \/ ListPage \/ ScanBlock \/ NextPage \/ BelowRange
    \/ BeginAll \/ ScanOne

Next == Scan \/ PageFails \/ NewBlock

Spec == Init /\ [][Next]_vars

\* Requests over HTTP have a deadline of 30 seconds: the scan goes on, with or
\* without an answer.
FairSpec == Spec /\ WF_vars(Scan)

-----------------------------------------------------------------------------
(* Properties *)

\* A scan of which no request and no write failed has a row for every coinbase
\* of ours in the blocks that were asked for and were there (README.md:24-31,
\* "Scan last 100 blocks", "Scan all blocks from genesis", "Scan specific block
\* range").
ScanCovers ==
    phase = "done" /\ ~failed => \A h \in Owned \cap asked : h <= end => h \in DOMAIN rows

\* It keeps that promise, page by page, on a chain that stands still and has no
\* orphaned blocks, when it asks for no more blocks than there are and for fewer
\* than 2^32, for every height ValidateUTXO takes in an empty table: what is
\* refused for a height above it (sqlite.go:94) keeps nothing else out.
QuietScanCovers ==
    /\ ~moved /\ orphaned = {} /\ phase = "done" /\ ~failed
    /\ asked \subseteq Heights /\ asked # Heights
    => \A h \in Owned \cap asked : h <= end /\ h <= FutureLimit => h \in DOMAIN rows

\* Nothing outside the blocks asked for is recorded, when the tip moves between
\* two pages either: the offsets count from the tip.
StaysInRange == DOMAIN rows \subseteq asked

\* Every scan comes to its end: heights wrap below 0, and the pages must run out.
ScanEnds == <>(phase = "done")
=============================================================================
