# TX Blaster: specifications, checks and proofs

TX Blaster fills a teranode with transactions: it finds coinbase outputs of a key,
keeps them in a SQLite table, and spends them in chains and splits as fast as it
can. This directory holds TLA+ modules of the parts of it that decide something:
what is spent next, what the table says after a failure, what is sent again, and how
the goroutines stop. TLC checks them on small instances; TLAPS proves the most
important results for all values of the constants.

Source paths below are relative to `src/`; line numbers are those of this commit.

## 1. The system

| part | state | operations | talks to |
|---|---|---|---|
| UTXO store, `internal/db/sqlite.go` | table `utxos`: amount, height, spent, coinbase per outpoint; survives a crash | `SaveUTXO` (INSERT OR REPLACE, after `ValidateUTXO`), `MarkUTXOAsSpent`, `GetOldestMatureUTXO`, `GetSmallUTXOs`, `GetCurrentBlockHeight`, `DeleteUTXO` | every command |
| Blast manager, `cmd/tx-blaster/blast.go` | the UTXO in use, the batch, `totalAttempts` | the main loop; verify, build, consolidate, broadcast, settle, retry; `periodicSync` and `reportStats` goroutines | store, builder, broadcaster, node, rebuilder, scanner |
| Builders, `internal/blaster` | none | chained transactions, splits, consolidations | – |
| Broadcasters, `internal/broadcaster` | a connection | one transaction over RPC, a batch over gRPC | node |
| Transaction recovery, `internal/txchain/rebuilder.go` | maps of one call | trace missing ancestors, sort, send again | node, transaction store |
| `resync`, `cmd/tx-blaster/resync.go` | the list of rows it works through | send each again, recover, mark as spent, scan | store, recovery, scanner |
| `verify`, `cmd/tx-blaster/verify.go` | three lists of fixes, the missing transactions, the rows they affect | compare rows with the node, note fixes, recover what is missing, apply the fixes | store, node, transaction store |
| `broadcast-tx`, `cmd/tx-blaster/broadcast_tx.go` | – | send a stored transaction, after its missing ancestors | recovery, node |
| `split`, `broadcast`, `cleanup`, `main.go`, `cleanup.go` | – | split the first row, mark it and save the outputs; send a given transaction; mark every row | store, builder, node |
| Scanner, `internal/scanner/scanner.go` | heights, offset into the block list | scan all, recent or a range of blocks | node, store |
| `blast-from-tx`, `cmd/tx-blaster/blast_from_tx.go` | the slots `splitUTXOs`, the index, the update map; pause, rate, stop channel | split once, then send batches that go round the slots; four goroutines | node, store, terminal |
| Terminals, `internal/ui` | channels, a paused flag, a stop channel | keyboard, display | `blast-from-tx` |
| Others | – | `tx-status`, `list`, `balance`, keys, log filter | |

Three processes of the outside world matter. The *node* accepts, refuses,
half-accepts or accepts without its answer arriving, and goes on making blocks. The
*table* is shared by the main goroutine and by `periodicSync`, and is all that is
left after a crash. The *user* presses keys while batches are sent.

### What is hard here

* The row of an UTXO is marked before it is used (`blast.go:255`), and has to be put
  back, kept, or replaced by the change, on each of a dozen ways out.
* The node and the table disagree after any lost answer; the program finds out from
  "already exists", from missing parents, or never.
* The same attempt may recurse into a consolidation (`blast.go:640`) and into
  retries (`blast.go:1018`), both past the limit check.
* `periodicSync` rewrites rows that the main goroutine has changed.
* `verify` notes its fixes, then recovers transactions and rows, then applies the
  fixes noted before.
* Recovery traces several roots into the same maps, with a depth limit and errors
  that end one root but not the next.
* Heights and amounts are unsigned and wrap.
* Three goroutines of `blast-from-tx` may all begin the shutdown.

`PROJECT.json` lists these hazards line by line under "hazards", with the properties
that cover each.

### What makes each part correct

* **Blast**: rows name outputs that exist and never overstate them; batches are
  signed over true amounts; what can still be spent is not forgotten; what was spent
  is not offered again; an attempt ends; a limited run stops.
* **Recovery**: a traced chain has no gaps, and nothing is sent before what it
  spends.
* **Resync, verify, broadcast-tx, broadcast, split, cleanup**: what is reported as
  valid, sent or available is on the network; no row becomes unspent without its
  transaction; `tx-status` agrees with what `verify` leaves behind; what can be
  recovered is; a split is recorded when, and only when, the network has it, and
  never overdraws its row; every command ends.
* **Blast-from-tx**: a slot never names an output that does not exist, except by
  refusals; it catches up after a lost answer; a restart does not make the table
  lie; a pause takes effect within a batch; Q and every failure end the process; the
  split is paid for, also when its number of outputs was reduced.
* **Scanner**: what was asked for is covered, nothing else is recorded, the scan
  ends.

## 2. The modules

| module | models | how state and actions correspond |
|---|---|---|
| `UtxoStore` | `sqlite.go` | no variables: a table is a function from outpoints to rows, queries and writes are operators. A query that ORDERs BY returns the *set* of rows it may return first |
| `Blast` | `blast.go`, `simple_builder.go`, `consolidation.go`, `batch_propagation.go` | `rows` is the table; `tip`, `mergeOf`, `mergeAmount`, `height` are the node; `pc`, `cur`, `batch`, `reply`, `retry`, `inputs`, `merge`, `attempts` are the locals of `Start`, `blastFromUTXO` and `broadcastBatchWithRetries`. One action for each way on from a program point that touches the table or the node |
| `OutputLife` | nothing of its own: the promise about an output | free, held, gone; what the network took is never free again. `Blast` reads as it by `LifeOfRows` and `TakenByNetwork` |
| `TxChain` | `rebuilder.go` | `frames` is the recursion stack of `BuildTransactionChain`, `visited` and `chain` its maps, `degree`, `queue`, `sorted` the sort, `unsent` the rest of `RebroadcastChain` |
| `Wallet` | what the commands below share | `unspent` and `spent` are the rows, `step`, `todo`, `cur` the place of the command in its loops, `roots` the transactions it still has to trace |
| `Resync` | `resync.go` | EXTENDS `Wallet`; sets the phases of `TxChain` going for one row at a time |
| `Verify` | `verify.go` | EXTENDS `Wallet`; one action for each request for a row, the lists of fixes and `missingTransactions`, `utxosWithMissingParents` as sets of rows; its copies of trace, sort and send are those of `TxChain` |
| `BroadcastTx` | `broadcast_tx.go`, `broadcastCmd` | EXTENDS `Wallet`; `roots` are the missing parents |
| `Builders` | `builder.go`, `massive_split.go` | operators on `uint64` amounts, without state |
| `Split` | `splitCmd`, `SaveTransactionOutputs` | EXTENDS `Wallet` and `Builders`; build, send, mark and save are one action each |
| `Commands` | `cleanupCmd`, and `CheckTransactionStatus` of `tx-status.go` as the operator `Inconsistent` | EXTENDS the four commands: one of them runs, over any table, node and store, while another sender may be at work |
| `Scanner` | `scanner.go` | EXTENDS `UtxoStore`; the height loops with `uint32` arithmetic modulo `Word`; a page, and each block of it, is a request and a step of its own |
| `FromTxSlots` | data of `blast_from_tx.go` | EXTENDS `Builders`, which gives the split; slots, `currentUTXOIndex`, `utxoUpdates`, the rows it writes |
| `FromTxControl` | goroutines of `blast_from_tx.go`, `internal/ui` | a variable for the place of each goroutine, one for each channel and flag |
| `MCBlast`, `MCCommands`, `MCScanner` | – | instances for TLC |
| `UtxoStore_proofs`, `Blast_proofs`, `Builders_proofs`, `FromTxSlots_proofs`, `FromTxControl_proofs`, `TxChain_proofs`, `Commands_proofs`, `Scanner_proofs` | – | theorems |

An operator introduced by the words "A mistake" is not part of any specification. It
is a slip the code could have made in the definition after it, and the check that
the properties notice it.

### What is abstracted, and why that loses nothing here

* *Transactions of a chain.* `BuildSimpleTransaction` is deterministic, so the chain
  hanging from an output is fixed: `<<r, k>>` names the change of its k-th
  transaction, and the node keeps one number per chain. A consolidation is
  identified by the set of its inputs, for the same reason.
* *One address.* The program works for one key; "ours" is membership in `Owned`.
* *Loops over the rows of one consolidation* (`blast.go:543-548`, `585-595`) are one
  step. Nothing is read between the writes but by a crash in their midst; the rows
  so left are marked and merely stay so, or are put back as they were.
* *Ties in ORDER BY* (by `vout`) are a choice.
* *Statistics* are left out; only `totalAttempts` decides something.
* *Writes.* Every write of the blast command, of `resync`, `verify` and of the scanner
  may fail where the run has that fault; SQLite applies a statement as a whole.
* *Answers about transactions.* The node may not answer, or may deny what it has; that
  it has what it does not is taken to be impossible (`Says` in `TxChain`). Of "already
  exists" only `resync.go:102` does not know every wording, which `SendAgain` says.
* *Keys.* `SimpleTerminal` turns its flag and sends in two steps, since the flag is
  read in between; Q of tview is pressed once at a time.
* In `FromTxSlots` a slot and its chain are compared by `lead`, how many
  transactions the slot is ahead. Only that difference decides what the node
  answers.
* `resync` and `verify` take rows in the order of their queries, by height and
  output (`Oldest`, `Newest`); only rows of different transactions of one height
  come in any order.
* The loops of `verify` over its fixes (`verify.go:252-274`) and of `cleanup`
  (`cleanup.go:56-69`) are one step, in which each write may fail. Nothing is read
  between the writes, and nothing but a crash could show a part of them.
* `affected`, the rows that wait for a missing transaction, is never shrunk: the
  deletion at `verify.go:777` only changes a count that is printed. `MissingParents`
  says which transactions are left in the map.
* The input of a coinbase, which names no transaction, is left out: it is never in
  the transaction store, and the traces pass over it.
* A `split` without `--broadcast` prints and changes nothing, so `Split` is about
  `--broadcast`. Only one row is split; the new outputs are a set of their own
  (`born`), which nothing else in that run reads.
* A row, a target or a transaction store that a command does not read is not varied
  (`CommandsInit`).
* In `Scanner` the request for the best header and the set-up of the range are one
  step. The main block of a height is listed before an orphaned one. The heights
  asked for, `asked`, are those meant by the user: for the last n blocks of a chain
  that has fewer, some lie below 0.

## 3. The runs

Passing runs:

| run | question | instance |
|---|---|---|
| `BlastFaults` | Does the table stay true, and the limit hold up to one, whatever fails? Batches over gRPC with all eight faults (any write of the table may fail), retries, consolidations, `--from-tx` and one crash at any point | a split output that fills a batch of 10 and is then worth consolidating with a coinbase (`BatchThenMerge`), limit 2 |
| `BlastRpc` | Does an attempt always end, and a limited run stop or starve? One by one over RPC, all faults, a sync, fairness | batches of 3, limit 3, heights 9–10 |
| `BlastKeeps` | Is anything forgotten that could still be spent, and when is an immature coinbase chosen? The node may refuse, consolidations too; every write succeeds, no answer is lost or partial | limit 5, one coinbase at the edge of maturity and of `HeightCap` |
| `BlastRefines` | Does the table implement `OutputLife`, and is what the network took marked, where nothing loses an answer, rescans, retries or consolidates? Batches accepted in part, refusals, misattributed errors, failed verification, one crash, an OP_RETURN row | batches of 3, limit 6 |
| `Commands` | For each command: is a chain recovered without gaps and in order, is what is reported and written true, does `tx-status` agree with `verify`, is a split recorded and paid for, does it end? With or without lost and wrong answers and failed writes, another sender at work | the four transactions `Ladder`, six nodes and four stores to begin with, `MaxDepth` 2; every set of unspent rows where writes work, and for `verify` every table, rows that are spent or missing included; up to two rows where writes may fail |
| `FromTxSlots` | How far can memory and network come apart, do they meet again, and is the split paid for? Refusals, lost answers, one restart | amounts around every limit of the builder, 4 outputs asked for of which 3 fit, or none; batches of up to 4 |
| `FromTxControl` | How late can a pause, a stop or a new rate take effect, does a second keep its rate, by how much does the display differ, does Q end the process where tview is not stuck, does every shutdown end? | both terminals, 2 keys, rates at and just above a full batch |
| `Scanner` | Is everything asked for covered on a quiet chain, nothing else recorded on any, does every scan end? | every kind of scan, 16 heights, also all of them and more than there are, a first row that may be above `FutureLimit` 5, pages of 2, a growing tip, orphaned blocks, failing requests and writes |

Violating runs, each for one sentence of the repository the code does not keep:

| run | property | trace |
|---|---|---|
| `BlastSyncRevives` | `NoSpentOffered` | a coinbase is spent; the sync saves it as unspent again (`scanner.go:249`, `sqlite.go:114`) |
| `VerifyRevives` | `VerifyEnsures` | `verify --rebroadcast` finds a row marked spent whose output the node says is unspent, and notes it to be marked unspent; the missing transaction that spends it is sent again and accepted; then the row is marked unspent (`verify.go:185`, `221`, `260`) |
| `ResyncCircular` | `NeverCircular` | one missing transaction spends another: the in-degree counts the wrong direction (`rebuilder.go:212`) |
| `FromTxPanic` | `ShutdownIsGraceful` | two goroutines close `stopCh` (`blast_from_tx.go:566`) |

Every property of every passing run has a mutant under "mutants" of `PROJECT.json`:
a plausible mistake in one definition, with which the same run refutes the property.

`NoSpentOffered` is not a property of `BlastRefines`: where nothing revives a row it is
proved (`OffersOnlyLive`), since what the network took is never free again in
`OutputLife`, and an unspent row is free between attempts.

### Bounds, and why they are enough

* *Outputs.* Three roots, or four with an OP_RETURN output, and two consolidations.
  The interesting interactions are between one selected row, one other that a
  consolidation or query could take, and one that matters only to the order.
* *Amounts* are chosen at the builder's boundaries: `BatchThenMerge` and
  `MergeWithOldest` let an attempt consolidate, with an input just below the
  consolidation threshold of 1318; `BatchThenMerge`, `LongChain` and `OneLongChain`
  fill a batch of 10, the least for which 90% accepted is not all; `ShortChains`
  runs out in mid-batch.
* *Heights.* `CoinbaseMaturity` 2 in place of 100, so that a coinbase passes from
  immature to mature within `FirstHeight .. MaxHeight`; 9 and 10 where the window of
  10 blocks of the sync must not be empty.
* *Attempts.* `MaxIterations` is the program's own bound; attempts beyond it are
  what `OvershootByOne` is about.
* *Words.* 2^16 for amounts, all of which lie far below it, so that only a negative
  result wraps; 16 for heights, above every height reached.
* `MaxSync`, `MaxCrash`, `MaxOthers`, `MaxLost`, `MaxKeys` bound the environment
  only. One crash or sync at any point of a run, followed by a whole run, is a state
  like the one after the second.
* `SplitFunds` and `Funds` are amounts just below and at the fee and the dust limit,
  where the subtraction wraps and where the number of outputs is reduced; `Word` is
  2^18 there, above 600 times `MaxTxSize`, as 2^64 is. `MaxTxSize` 310 lets 3
  outputs fit.
* `MaxRows` 2: where writes and answers may fail, a row matters by itself, and to
  another row of the same transaction, or of an ancestor.
* `LadderOutputs` has a row that is live, one that is spent, one of a transaction
  too deep to trace, and the data output of a split. `SomeNetworks` are nodes that
  have lost everything, a tail, the middle or the beginning of `Ladder`, or nothing;
  `SomeStores` lack one transaction at most.
* `Ladder` has a diamond, two depths to the same ancestor and a chain one longer
  than `MaxDepth`: the cases in which the shared visited map matters.
* With `FullBatch` 2, rates 2 and 3 are a batch exactly and a batch and a rest; 2
  keys are enough for a message dropped on a full channel.

`CHECK_DEADLOCK FALSE` is set for `Commands`, `ResyncCircular`, `VerifyRevives`,
`FromTxSlots` and `Scanner`: these commands end, and `blast-from-tx` stops when its
first transaction fails.

### Fairness

* `WF(Main)` in `Blast`, `WF(Blasting)` in `FromTxSlots`, `WF(Command)` in
  `Commands`: the goroutine is scheduled and its calls return. HTTP requests have
  deadlines (10 s in the rebuilder, 30 s in the teranode client). The gRPC calls use
  `context.Background()` and have none: here fairness assumes that the node answers
  or the connection breaks, and a node that does neither is outside of the liveness
  results.
* `FromTxControl` has weak fairness per goroutine, `gracefulShutdown` and the terminal's
  own included. A goroutine stuck in `ShowMessage` of tview has no step to take, which
  is why `QuitEnds` excepts a terminal stuck in "Set Rate"; a signal and a failure end
  the process there as well (`ShutdownEnds`). Keys and the signal have none:
  nobody need press them. Go's `select` picks among ready cases at random; no strong
  fairness is assumed of it.
* In `Scanner` the loop is fair; failing pages and new blocks are not.
* Crashes, syncs, new blocks and other senders are never fair.
* `StopsOrStarves` allows for a table that is empty again and again: without rows
  the loop sleeps and looks again for ever (`blast.go:395-401`), and that is what
  the code means to do.

## 4. The proofs

All are for every value of the constants that satisfies the named assumptions
(`BlastAssumption`, `StoreAssumption` and so on); those ask for types and for
`Owned` and `Merged` to be disjoint, for transactions to be finitely many and to
spend earlier ones only, and for `Word` to be large against `MaxTxSize`, nothing
else. In particular the sets of outputs, faults, batch sizes and limits, and the
environment bounds, are arbitrary.

`Blast_proofs` proves `TypeOK`, `RecordedOutputsExist`, `NeverOverstated`,
`SignedOverLedgerAmount` and `OvershootByOne` invariant. None is inductive. The
invariant `IInv` adds

* `RowsFaithful`, `InputsFaithful`, `CurFaithful`: what the program holds about an
  output, in the table or in its locals, is of an output that exists, is not more
  than it holds, and has a height not above the node's. The locals are needed
  because they are written back (`blast.go:470`, `589`, `961`, `969`);
* `ChainsPaid`: every accepted chain can pay for its last link, hence amounts are
  natural numbers;
* `Signed`: from verification on, the amount in use is the ledger's, and the batch
  built is one it pays for;
* `Answered`: a reply reports no more than the node accepted, hence the change that
  is saved exists, whichever transaction failed;
* `MergeReady`: a consolidation that is sent is above the minimum. This makes the
  attempt it recurses into build a transaction, and so
* `Limited`: the limit can be passed once but not twice.

There is one lemma for each action, and lemmas on the operators of the table
(`MarkFaithful`, `SaveFaithful`, `NextHeight`); `StepKeeps` puts them together.

`UtxoStore_proofs` proves `ImmatureChosenLast`, that `GetOldestMatureUTXO` yields an
immature coinbase only when all unspent rows are coinbases, with what the other
operators write and leave alone.

### What the blast command promises when some things do not go wrong

The second half of `Blast_proofs` is about what does not hold of every run. Each
theorem names its conditions, and with one of them dropped TLC refutes it, but for
the exception of `--from-tx` named below. They are conditions on faults and flags, or on the
steps of a run, so that runs that satisfy them exist for all values of the other
constants.

`KeepsThePromise`: the table implements `OutputLife` (`ImplementsOutputLife`), step by
step: an attempt that begins is a `Hold`, a batch that is accepted is a `Take`, the
way out of an attempt is a `Settle`, a new row a `Discover`. From the same invariant
follow `TakenStaysMarked` (`TakenIsMarked`: what the network took is marked, in the
middle of an attempt too, so that no crash brings it back) and `OffersOnlyLive`
(`NoSpentOffered`).
The conditions are

* `Dependable`: no answer is lost, no write fails, a batch is accepted as a whole or
  is smaller than 10, so that 90% of it is all of it, and neither `--rebroadcast`
  nor `--from-tx` is used. A partial acceptance above 90% saves the amount of the
  last transaction built with the id of the last one accepted (`blast.go:903-933`);
  a retry sends a row that was already put back (`blast.go:1018`); with `--from-tx`
  the first output is the user's choice, and may be spent;
* `Undisturbed`: no consolidation, since the consolidated output is spent without
  its row being marked (`blast.go:640`), and a sync that overwrites no row
  (`scanner.go:249`). Both are steps, so the theorem is about the runs that do not
  take them.

`LifeInv` is the invariant: rows are exact (`RowsExact`), unspent ones are live
(`OffersLive`), a chain hangs from a row that is known (`ChainsRecorded`), the output
in use is marked from `blast.go:255` on and unspent by the network until its batch is
sent (`InUse`), and what an answer says is what happened (`AnswerIsTrue`). `IInv` alone
is too weak, since it lets rows be modest and answers be incomplete.
`TakenStaysTaken` says of `OutputLife` itself that what was taken is never free again.

`LastResort`: without `--from-tx`, a coinbase the node would refuse as immature is
selected only when every unspent row is an immature coinbase, at the height asked
about (`ImmatureOnlyAsLastResort`), whatever fails. It is a property of the step that
selects. `RowsTrue` says that rows keep the height and the flag of their coinbase
through every write, and `ChoiceIsLast` applies `ImmatureChosenLast` to such a table.

`NothingIsLost`: with refusals, consolidations and rescans, an output that can still
pay is in the table or in hand (`NothingLost`). The conditions are `Reliable` (every
write succeeds, no lost, partial or misattributed answer, verification that works, no
crash, no retry, no `--from-tx`, propagation), heights that the table takes
(`RowsAdmitted`) and amounts below the money supply (`WithinSupply`): a row above
either is refused by `ValidateUTXO`, and its output forgotten. That writes succeed is
needed because the code only logs one that fails, of a restored row, of the change
or of the inputs of a consolidation (`blast.go:589`, `606`, `633`, `939`, `961`,
`969`), and that batches are not accepted in part because below 90% nothing is saved
(`blast.go:950`): with `"busy"` or `"partial"` added to the faults of `BlastKeeps`, TLC
refutes it. `KeepInv` adds that what
is in hand would be accepted by the table if it were put back (`AllSavable`). That
`--from-tx` is excluded, here and in `LastResort`, may be more than is needed: it
records a coinbase with height 0 and without the flag, so that the height of the
table might fall (`HeightNeverFalls`), but TLC found nothing lost by it, and no
immature coinbase selected too early.

### The commands

`TxChain_proofs` has the invariant of the recovery, `ChainInv`, in parts:

* `TraceInv`: as long as no trace broke off, whatever was visited is in the chain,
  on the network or not stored, and every parent of the chain was visited or is
  still on the stack of frames (`Pending`). With an empty stack this is
  `ChainIsComplete`. It holds across roots, since the maps are only added to.
* `SortInv`: a transaction is queued once, when its degree falls to 0, and the
  degree of one without a parent in the chain never falls. Hence
  `SortsOnlyUnrelated`: the sort of `rebuilder.go` succeeds only if no transaction
  of the chain spends another. The proof that otherwise one is left over takes a
  transaction of least rank, and is why `Txs` has to be finite.
* `OrderInv` and `SendInv`: what was sent is on the network or failed; since nothing
  in a chain that is sent depends on the rest of it, an orphan misses a parent that
  could not be loaded. That is `OrphansCannotBeHelped`.

`Commands_proofs` shows that every step of every command is a step of the recovery,
one of the calls that start a phase, or only adds to the network (`ChainKept`), and
adds

* `CommandTypes`, `ResyncInv`: `resync` starts each recovery with new maps, for a
  stored transaction whose row is neither lost nor forgotten meanwhile;
* `NetworkInv`: what was reported, or noted to become unspent, is on the network,
  and so is the transaction of a row whose first answer said that it is live;
* `PlacedInv`: without faults, each row that is unspent has its transaction on the
  network, is still to be looked at, or is in a list of fixes; at the end only the
  first is left (`UnspentExists`);
* `SplitInv`: which steps of `split` have the answer of the node behind them;
* `MoreInv`: the types, how deep the recursion goes (`Depth`), that the sort queues
  all of a chain in which no transaction spends another (`SortsAll`), what a failure
  of the sending was due to (`FailuresInv`), and the lists of `verify` (`ListsInv`);
* `FailInv`: a parent of the transaction that `broadcast-tx` is to send is on the
  network, or tracing will come to it; once the chain was sent it is on the network
  or has an excuse (`Excused`), and so the transaction itself, sent last, is refused
  for an excuse only;
* `TracedInv` and `LeftInv`: under `verify --rebroadcast` each missing transaction is
  still to be sent or was, or has one of the reasons of `LeavesOnlyUnsorted`
  (`Explained`), and these stay true while the other list is worked on;
* `AgreesInv`: under `verify` without `--rebroadcast`, and while nothing fails, each row
  that was looked at is in the list whose fix it needs, and in no other (`RightFix`).
  The table it begins with is arbitrary: rows may be missing. `tx-status` goes on
  reporting an output whose transaction is not found, row or not (`tx-status.go:82`),
  and a row that was missing before, which `verify` does not look for; what it may
  not miss is a row that `verify` deleted (`Settled`).

From these follow `ReportedIsOnNetwork`, `OffersOnlyExisting`, `ChainIsComplete`,
`OrphansCannotBeHelped`, `SuccessMeansRecovered`, `UnspentIsOnNetwork`,
`SplitIsRecorded`, `SplitPays`, `CommandsTypeOK`, `FailsOnlyIf`, `LeavesOnlyUnsorted` and
`VerifyAgrees`, for every graph of transactions, depth, table, node, store, sender and
fault. `SuccessMeansRecovered` is proved only; no run lists it.

### The splits and `blast-from-tx`

`Builders_proofs` proves that a split of an amount that covers the fee pays out no
more than there is and no dust (`SplitIsPaid`), and the same of the massive split
after its number of outputs was limited by size and by amount
(`MassiveSplitIsPaid`); the condition is needed, since below the fee the subtraction
wraps. `FromTxSlots_proofs` builds on it, with an invariant on where the process is
and what the network has (`SplitInv`) one on leads (`SlotsInv`: without refusals no
slot is ahead, and one that waits for its update is behind) and one on updates and
positions (`SourceInv`), and proves `RowsFollowSplit`, `NeverAhead`,
`SplitIsPaidFor` and `OnlySplitOutputsStrand`. Two more parts are needed for the rest: `RestInv`, the types of slots,
updates and rows, for `TypeOK`; and `AheadInv`, for `OneSlotPerRefusal`: the slots that
are ahead of their chain, or will be once the updates are applied (`Stranding`), are
no more than the refusals so far. `refusals` counts the transactions refused by
`SendBatch` and nothing else; a lost answer, a failed fetch and a failed split count in
`lost`.

`FromTxControl_proofs` proves all safety properties of the goroutines. `LateInv` relates
the place of the blaster to each of pause, stop and rate: after a batch was begun out
of time, the blaster does not get past its checks again while the cause lasts.
`PaceInv` says that what was sent fits in full batches, and that a batch that is begun
is one of its second; that they add up to the rate, for every rate and batch size, is
a lemma on division (`BatchesAre`). `DisplayFollows` is about `SimpleTerminal`, the
only one with a flag of its own: its flag and the manager's differ exactly when the
messages that are on their way or were dropped are odd in number (`Lagging`), which
each step either keeps or turns together with one flag.

### The scanner

`Scanner_proofs` proves all safety properties of `Scanner`. The first lemmas are about
`uint32`: a sum or difference wraps once at most, the first of the last n heights is
no lower than it should be for every n, also beyond 2^32, and a range has as many
blocks as it is counted for unless there are 2^32 of them. Then

* `RangeInv`: what is between `start` and `end`, and on a page, was asked for. It
  needs nothing of the tip, and so `OnlyWhatWasAsked` (`StaysInRange`) holds however the
  tip moves;
* `CoverInv`, on a quiet chain, without orphaned blocks, that has all the blocks asked
  for, while no request and no write fails: the offset and the blocks still to fetch reach down
  to the start of the range; of what comes before the offset everything is recorded,
  of the page at hand everything that is no longer listed; and where the current
  height is below the range, all of it is. The last part is what makes the second
  way out of the loop (`scanner.go:131`) sound. `NothingIsMissed` (`QuietScanCovers`)
  follows. That a row is accepted needs `GetCurrentBlockHeight` to be natural, which
  is `CurrentHeightBounded` of `UtxoStore_proofs`.

### What stays with TLC

Liveness under fairness (`AlwaysReturns`, `StopsOrStarves`, `Finishes`, `CatchesUp`,
`QuitEnds`, `ShutdownEnds`, `ScanEnds`) is beyond the proof system. Every other property
of a passing run is a theorem, those of `BlastKeeps` and `BlastRefines` under the
conditions above, which contain the configurations of these runs (`Undisturbed` is met
there because nothing is worth consolidating and there is no sync). Induction over data
is avoided: the loops of the program over a list are steps, or their effect is stated
for the whole set (`MarkAllAsSpent`).

## 5. Disagreements

What a document or comment says and the code does not do. Each property below is
defined in its module, in the section on disagreements at the end; TLC refutes it in
the instance given. Where a run is named that lists the property, it is one of those
above. `base` is the configuration of `BlastSyncRevives` with `Owned` `TwoAndOne`,
`Merged = {m1, m2}`, the heights and coinbases that belong to them, `ShortChains`,
`FirstHeight` 2, `MaxHeight` 3 and no sync; "one coinbase" has `OneCoinbase`,
`OneHeight`, `OneIsCoinbase`, `OneLongChain`, `FirstHeight` 3.

| property | code | says | refuted with |
|---|---|---|---|
| `NoSpentOffered` | `scanner.go:249` | `blast.go:255` "Mark UTXO as spent immediately to prevent reuse" | `BlastSyncRevives` |
| the same | `blast.go:470`, corrected row saved with its old flag | the same | one coinbase, `Faults = {"partial"}`, `TxPerBatch = 10` |
| `ConsolidationPaysFee` | `consolidation.go:42` | `consolidation.go:41` "Check if consolidation is worthwhile" | base with `TwoSmall…` |
| `NeverCircular` | `rebuilder.go:212-218`, `249-252` | `rebuilder.go:204` "sorts transactions in dependency order (parents before children)" | `ResyncCircular` |
| `ShutdownIsGraceful` | `blast_from_tx.go:566` | `blast_from_tx.go:105` "Setup signal handling for graceful shutdown" | `FromTxPanic` |
| `StopsAtLimit` | `blast.go:640` | `main.go:373` "Will stop after %d batch attempts" | base with `SmallAndLarge…`, `FirstHeight = 3`, `MaxIterations = 1` |
| `MarkedWhenSent` | `blast.go:640`, the consolidated row is not marked | `blast.go:255` | the same with `MaxIterations = 3` |
| the same | `blast.go:1018`, the row was restored before the retry | `blast.go:900` "UTXO was already marked as spent at the beginning" | one coinbase, `Rebroadcast = TRUE`, `Faults = {"refuse"}` |
| `RowsAreExact` | `blast.go:903-933`, id of the last success, amount of the last built | `blast.go:901` "Save the last transaction's output as a new UTXO" | one coinbase, `Faults = {"partial"}`, `TxPerBatch = 10` |
| `WrittenOffOnlyIfMissing` | `blast.go:755-764` | `blast.go:955` "The parent transaction doesn't exist, so this UTXO is invalid" | base, `Faults = {"refuse", "orphan"}` |
| `MaturityEnforced` | `sqlite.go:285-292`, last resort | README 114 "automatically enforces the 100-block maturity requirement" | one coinbase with `LateHeight` |
| `MatureCoinbaseFirst` | `sqlite.go:235` | README 101 "Prioritizes mature coinbase UTXOs over split outputs" | base, `FirstHeight = 3` |
| `VerifyEnsures` | `verify.go:248-275`, fixes noted before the recovery: a row is marked unspent whose spender was sent again in between | `main.go:523` "Check all UTXOs in the database against the teranode/aerospike to ensure they are correctly marked as spent/unspent" | `VerifyRevives` |
| `RecoveredStaysAvailable` | the same: rows of recovered transactions are marked spent or deleted | `verify.go:772` "now available (parent recovered)" | `VerifyRevives` |
| `BroadcastReportsTruth` | `main.go:309`, `:=` declares `err` again | `main.go:327` "Transaction broadcast successfully!" | `Commands`, `Which = {"broadcast"}` |
| `OnlyPaidSplits` | `builder.go:78`, the subtraction wraps | `builder.go:80` "insufficient funds" | `Commands`, `Which = {"split"}` |
| `ReducesWhenPoor` | `massive_split.go:50`, the same | `massive_split.go:52` "If we can't create all outputs at dust limit, reduce the number" | `FromTxSlots` |
| none: `broadcast` opens no database | `main.go:298-329` | `main.go:289` "After broadcasting, the new UTXOs will be saved to the database automatically." | by reading |
| `RemovesOnlyInvalid` | `resync.go:92` | `resync.go:22` "Verifies all UTXOs in database against teranode and removes invalid ones" | `Commands` |
| `RemovesAllInvalid` | `resync.go:102-105` | the same | `Commands` |
| `SlotsExist` | `blast_from_tx.go:493-498`, entries compared by transaction id only | `blast_from_tx.go:492` "Remove this UTXO update from the map" | `FromTxSlots`, `Funds = {1402}`, `MaxLost = 1` |
| `StatsArePrinted` | `simple_terminal.go:74`, main returns first | `blast_from_tx.go:584` "Print final stats to stdout after UI closes" | `FromTxControl` |
| `KeysAreRead` | `tview_terminal.go:272`: the callback of "Set Rate" calls `ShowMessage`, whose `QueueUpdateDraw` (`319`) waits for the event loop the callback runs in | `tview_terminal.go:296` "Ctrl+C - Force quit" | `FromTxControl` |
| `DisplayIsTrue` | `simple_terminal.go:89-93` | `simple_terminal.go:95` "Blasting paused" | `FromTxControl` |
| `ScanCovers` | `scanner.go:99` wrap; `scanner.go:112`, 2^32 blocks are counted as none; `scanner.go:129` offsets from a tip that moves; `scanner.go:186` orphaned blocks take places of the list; `sqlite.go:94` a first row above height 10000 is refused | README 24 "Scan last 100 blocks (default)" | `Scanner` with `FutureLimit = 100` and `RecentBlocks` above the chain; with a growing tip; with `Stale = {3}`; with `FutureLimit = 3`; with the range 0 to 15 |

## 6. What is not modelled

* **Batch and parallel builders** (`batch_builder.go`, `parallel_builder.go`): no
  command calls them.
* **`tx-status`, `list`, `balance`** change nothing. What `tx-status` calls an
  inconsistency is `Inconsistent` in `Commands`.
* **Two commands at once** on one table: each reads its rows once and would write
  over what the other did; SQLite only protects single statements. The repository
  does not say that this is meant to work. The exception inside one process,
  `periodicSync` beside the main goroutine, is in `Blast`.
* A crash of `resync`, `verify` or `cleanup`: they keep nothing, and are run again
  from the rows as they are, which is where `CommandsInit` begins.
* **Keys, scripts, signatures, hex and JSON decoding, the log filter, drawing.**
* `reportStats` reads some counters without the lock; it only prints them.

## 7. The plan

Done: the blast command with its abstract specification `OutputLife`; the recovery and
all commands that look after the table; `blast-from-tx`; the scanner. Every safety
property of the passing runs is a theorem.

1. **An abstract specification of the commands**: what `resync`, `verify` and
   `broadcast-tx` promise about a row, implemented by `Commands`, as `OutputLife` is by
   `Blast`.
2. **Weaker conditions**: that `NothingLost` survives a crash but for the one output in
   use; `OutputLife` with consolidations, once an output may be taken without being
   held.
3. **More of the system**: the scan at the end of `resync` as a call of `Scanner` in
   place of one step.

## 8. Running it

    tlc -workers 2 -config BlastFaults.cfg MCBlast.tla
    tlapm Blast_proofs.tla

`PROJECT.json` lists the module of every configuration, the source lines of every
definition ("map"), the mutants, findings, hazards and theorems.
