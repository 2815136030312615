# Verification of the Velas adapter

This directory holds TLA+ modules that model the Velas (VLX) asset adapter for
the openwallet framework, TLC configurations that check them on small
instances, and theorems about them checked by TLAPS.  Paths are relative to the
repository's root; "blockscaner.go" is `velas/blockscaner.go`.

## 1. Inventory

| Component | Code | State | Operations | What is hard | What makes it correct |
|---|---|---|---|---|---|
| Block scanner | blockscaner.go 65-358 | locals of the task, `Scanning`, the db file | `ScanBlockTask`, `RescanFailedRecord`, `ScanBlock`, `SetRescanBlockHeight` | crash between two writes, lost answers, forks, clients beside the task | no height lost, observers follow the chain, catches up |
| Batch extraction | blockscaner.go 360-483 | channels, tokens `extractingCH`, counter `done` | `BatchExtractTransaction`, `extractRuntime` | goroutines, closing channels, tokens shared by calls | each result handed over once, no send on a closed channel, returns |
| Input/output extraction | blockscaner.go 485-671 | none | `ExtractTransaction` | outputs without an address, which are the fee | what is extracted adds up to what the accounts hold |
| Local database | blockscaner.go 798-973, models.go | bucket `blockchain`, tables `Block`, `UnscanRecord` | get/save/delete, each opens the file | file lock, open fails, two `db.Set` per position | position, rows and records agree |
| Node client | rpc/ | none | `NodeInfo`, `GetByHeight`, `GetUnspent`, `Validate`, `Publish` | errors, reorganisations between two answers | (external) |
| Observers, scanner base | openwallet (go.mod) | header queue, timer, observers | `NewBlockNotify`, `Pause`, `Run` | asynchronous queue, lost in a crash | (external) |
| Transaction building | tx_decode.go 171-285, 391-659; crypto/tx.go 20-99 | locals of a call | payments, summaries, coin selection, change | coins read one answer at a time, truncation, unsigned arithmetic | a request moves what it asks for, nothing is left to no one |
| Raw transaction lifecycle | tx_decode.go 46-167, 287-384; txsigner/ | one `RawTransaction` each | create, sign, verify, submit | calls in any order, calls that fail half-way, lost answers, other raw transactions with the same coins | only what its owners signed is sent, and it takes effect once |
| Encoding, addresses, configuration, manager | crypto/, addrdec/, velas/config.go, velas/manager.go | none that changes | pure conversions | - | - |

The scanner is the heart of the adapter: it runs for months next to a node that
forks and fails, and what it loses nobody sees.  It asks the node (calls), writes
the db file (shared with clients' calls, guarded by the file lock), hands
extracted data to observers synchronously (`BlockExtractDataNotify`) and
block headers asynchronously (`BlockScanNotify`).

The decoder moves the money.  It keeps nothing between calls: what survives is the
`RawTransaction`, which the client holds and passes to each call, and which several
calls change in place.  It reads balances and coins from the node and sends it
transactions; it shares no state with the scanner, but the node's chain connects
them: what the decoder publishes, the scanner later extracts.

The file `PROJECT.json` lists the hazards of this code line by line, with the
properties that would catch each.

## 2. Modules

| Module | Models |
|---|---|
| `NodeChain` | the node as the adapter sees it: a tree of blocks that may be mined and the tip served now (external) |
| `BlockScanner` | the scanner, its database, the observers' header queue, client calls, faults |
| `MCBlockScanner` | block trees and budgets of faults for TLC |
| `BatchExtract` | the goroutines of `BatchExtractTransaction` |
| `BatchSpec` | what a call of it promises; the abstract specification `BatchExtract` implements |
| `MCBatchExtract` | three calls for TLC |
| `BlockScannerProofs`, `CoverageProofs`, `ForkProofs` | theorems about `BlockScanner` |
| `TxBuild` | the decoder's values: coin selection, outputs, `NewTransaction`, messages to sign, verification, extraction |
| `TxDecoder` | the calls on raw transactions, their requests to the node, the node's coins, faults; `EXTENDS TxBuild` |
| `TransferSpec` | what the decoder promises: a request is settled at most once and moves what it asks for |
| `MCTxDecoder` | accounts, coins, requests and budgets for TLC |
| `TxDecoderProofs` | theorems about `TxDecoder`: signatures, and each request at most once |
| `SumProofs` | what `MapThenSumSet` returns, for every finite set |
| `AmountProofs` | the types of the decoder, what Create builds and where each raw transaction comes from |
| `TransferProofs` | theorems about amounts and coins, and that `TxDecoder` implements `TransferSpec` |
| `BatchProofs` | theorems about `BatchExtract` |

### BlockScanner and the code

`pc` is the place in `ScanBlockTask` where the task's goroutine is.  One action
does at most one database transaction and reads at most one answer of the node,
so a crash, a client or a reorganisation may come between any two of them.

| Place | Code | Actions |
|---|---|---|
| `idle` | before the timer fires | `BeginTask` (GetLocalNewBlock) |
| `fresh`, `freshBlock` | 707-722 | `FreshHeight`, `FreshBlock` |
| `loop` | 113-133 | `LoopTop` |
| `fetch` | 137-206 | `FetchFails`, `ScanNext`, `ForkFound` |
| `drop`, `rewind` | 165-192 | `DropRecord`, `Rewind` |
| `saveHeight`, `saveHash` | 190/211 with 852-864 | `SaveHeight`, `SaveHash` |
| `saveBlock` | 213-226 | `SaveBlock` |
| `rescan` | 232-234, 294 | `RescanLast`, `ListUnscan` |
| `failed`, `forget` | 314-350 | `RescanFailed`, `Forget`, `EndTask` |

An action takes the set `F` of faults that strike it: `rpc` (the node's answer is
lost), `refuse` (an observer returns an error), `db` (`storm.Open` fails, as it
does after its timeout when another goroutine has the file).  A database error
is what the code makes of it: most callers ignore it, `GetLocalNewBlock` reads it
as height 0, `SetRescanBlockHeight` reports success.  `Budget` bounds how often each fault
strikes.  Heights are unsigned: `Minus` wraps at `UintMod` (2^64 in the code).

The two calls of clients are split in the same way, each with a variable for what it has in
hand between two steps:

| Call | Code | Actions | In hand |
|---|---|---|---|
| `SetRescanBlockHeight` | 81-91, 93 with 857-864 | `ResetAsks` (the node's block), `ResetHeight` (first `db.Set`, or a database that does not open), `ResetHash` (second one) | `asked`, `reset` |
| `ScanBlock` | 241-285 | `ScanBlock` (the node's block, or a record), `ScanBlockExtract`, `ScanBlockNotify` | `fetched`, `toAnnounce` |

A crash ends a call where it is.  `ResetWhileScanning` says whether a client may reset beside
a running task; if not, the next task waits until the position is stored.  The extraction of a block is one
step, justified by `BatchExtract` (below); so is `GetBlock`, whose two requests (rpc/block.go 62-80)
fail or succeed together: a failing second one is a lost answer.  A hash stands for the block and all its
ancestors.

Three subtractions can wrap.  `currentHeight - 2` of a rewind (167) never does, although its test
`<= 0` could not see it: no fork is found below height 2.  The height minus one of a fresh
start (715) wraps at a node with the genesis block alone (`Init` starts with such nodes too), and no block
answers to it.  `currentHeight - RescanLastBlockCount` (232) wraps below the count, for instance
after a fresh start at height 1, and the rescan loop then makes no turn.  `NoWrap` says what
matters of all this: no height that wrapped around is scanned, stored or recorded.  It says
nothing of the rescan window, for which a wrap only means that nothing is rescanned.

Abstractions: transactions, addresses and amounts are not in this model; a block
is either empty or not, and "its data was accepted" is one fact per block
(`extracted`).  `RescanFailedRecord` groups records by height and no caller ever
saves a record with a transaction id, so a record is its height.  `from` and
`extracted` are history: from which height on the position answers for the data,
and whose data was accepted since.

### BatchExtract and the code

Four kinds of goroutines: the caller (in `extractRuntime`), `extractWork`
(`StartJob`), a job per transaction (`Produce`, `Release`), `saveWork` (`Save`,
`EndSaver`).  Both channels are unbuffered, so a send and its receive are one step.
The tokens are shared by all calls: the scan task and a client in `ScanBlock`
overlap.  `Delivers` is the refinement of `BatchSpec`: every result handed over once
before the call returns, and a call that began returns.

### TxDecoder and the code

`Order` gives each request its account, fee and receivers (a payment) or its
minimum, retained balance and summary address (a summary); `raw[r]` is its
`RawTransaction`, `call[r]` the call in progress with its local variables.  A call
that asks the node is a step for each answer; between two of them the other
raw transactions go on and may spend the same coins.

| Action | Code |
|---|---|
| `Create`, `Summarize` | 171-197 and 391-422: the checks before the first request |
| `ReadBalance` | `GetBalanceByAddress`, one address at a time (blockscaner.go 975-995), and 429-441 |
| `ReadUnspent` | 199-207 and 457-464 |
| `BuildPayment` | 209-285: smallest coins first, change to the address of the first one; the fee is `FeeRate`, which is rounded in place (`Asked`, `FeeRounded`, 225-232 and 256) |
| `BuildSummary` | 469-519: all coins, a new `RawTransaction`, no change address |
| `Build`, `Built` | `createVLXRawTransaction`, 532-649: `RawHex` first, then the signatures to make |
| `Sign` | 287-332: signatures in place, one by one |
| `Verify` | 334-384 with `VerifyAndCombineTransaction` |
| `Submit`, `Validate`, `Publish`, `PublishFails` | 106-167 with rpc/tx.go 119-160 |

Faults: `rpc` (a request or its answer is lost: for Publish either, so the
transaction may have taken effect), `address` (`GetAddress` fails, line 622),
`lookup` (`GetAddressList` fails for an output, line 568), `key` (a signature cannot be made,
306 and 320); `create` bounds the calls of Create.

Abstractions.  An amount in decimals counts parts of the coin's smallest unit
(`Scale` of them), so that truncation (`IntPart`) and rounding (`StringFixed`) are what
the code does with digits beyond the coin's.  Coins are read through `int64` (`Int64`, 239 and 474): from
half of `UintMod` on they turn negative.  An output is its kind, address
and value; the index follows the iteration of a map and is left out.  A signature
is its key and its message, and a message is the coin it spends with the outputs it
pays, which is what `MsgForSign` writes.  `RawHex` is the transaction it encodes.  A
client makes one call at a time for each raw transaction, because the code has no
lock for it.  The node is external: it takes a transaction that spends unspent
coins, is signed by their owners and pays out what it spends; `Validate` checks
without taking.  The error for contract coins and a failing first
`GetAddressList` change nothing and are left out, and so is a derivation path that openwallet
cannot read (303-304, where the error is overwritten): the wallet made the paths.

The fee has two forms.  The commission is the fee truncated to units (line 593), while line 256 writes
it back rounded, and the next Create of the same raw transaction reads it from there (231).
A payment with a fee of one unit and a half is charged one unit, and two units when it is created
again.  `Charged(r)` is the set of these two, and the properties about amounts allow no other.

`Promise` maps the decoder to `TransferSpec`: what an account or a stranger owns
is the value of its unspent coins, and a request is settled when the node took
its transaction.  `Transfers` says that every step is then a stutter or settles one
new request, giving each receiver of a payment its amount and the payer the bill,
or moving one sum from the payer of a summary to its address.  The fee is one of `Charged(r)`.

## 3. Runs

| Run | Question | Instance |
|---|---|---|
| `scan_faults` | `NoHeightLost`, `NoWrap`, `TypeOK`: with lost answers, a crash, `ScanBlock`, a reset | one chain of height 4 with an empty block, of which the node has at least the genesis block at first; 2 lost answers, 1 crash, 1 of each client call (3.7 million states) |
| `scan_reorg` | `ChainCovered`, `AnnouncedOnChain`, `OneBlockPerHeight`, `TableLinked`: across forks | two branches of height 4 parting after block 1; 2 reorganisations, 1 lost answer, 1 pause (390,000 states) |
| `scan_live` | `Settles` under fairness, with a reset beside the running task | a branch of height 2 overtaken by one of height 4 with an empty block; a crash, a database that does not open, a reorganisation, one `SetRescanBlockHeight(2)` at any moment (480,000 states; lost answers and refusals, and with them the retries of records, are in `scan_converge`) |
| `scan_converge` | `Settles` and `ObserversConverge` under fairness, across forks | two branches of height 4, left and returned to; 2 reorganisations, a lost answer, a refusal (120,000 states) |
| `batch_extract` | `NoSendOnClosed`, `TokensAccounted`, `TypeOK` and refinement `Delivers` | calls with 3, 2 and 0 transactions and 2 tokens |
| `transfers` | `SentSigned`, `PaidOnce`, `NothingStranded`, `AmountTrue`, `BooksBalance`, `TypeOK` and refinement `Transfers` | a payment and a summary of one account with three coins, a payment of another into it with a fee of one unit and a half; three creations, one each of the other faults (210,000 states) |
| `refused_lost` | finding | two refusals |
| `unlinked_base` | finding | one reorganisation, two lost answers |
| `reset_to_one` | finding | one `SetRescanBlockHeight(1)` |
| `height_one_livelock` | finding | branches that part after the genesis block |
| `overdrawn_summary` | finding | an account of 2 units, a summary with a fee of 3 |
| `unsigned_recreate` | finding | one payment, created twice |

Why the bounds are enough.  A rewind reaches two blocks down, and the rescan
window one block: a branch of three blocks above the fork (heights 2 to 4) has a
rewind that starts at its end, one that lands inside it and one that lands
below it.  Two reorganisations let the chain leave a branch and return to it, when
rows of both are in the table.  Two lost answers let a height be missed and
its retry fail, or two heights be missed in a row.  `MaxNotices` bounds the queue
of headers; `Notify` waits when it is full.  `UintMod` 8 is above every height
that occurs, and a wrapped value is above `MaxHeight`: it breaks `NoWrap` wherever it
is kept.  Both wraps that do occur (715 and 232) occur in `scan_faults`.

In `transfers` the payment and the summary of alice want the same coins; bob's payment, of
a unit and a half with a fee of as much, changes her coins between two of their reads, leaves half
a unit of each to the truncation, and is charged one unit or, created twice, two.  When alice's payment
comes between the answers to her summary, what is left for it is less than it keeps and pays: its amount is
negative and wraps, which the node refuses.  The payment gives to another account and back to its own, and its
change merges with an output or not by the coin that comes first.  Three creations are
one for each request, or a request created again after a failure.  `UintMod` 64 is
above twice the sum of the coins, so none of them turns negative.

Fairness.  `WF(TaskStep)`: the scan task is one goroutine which the Go scheduler
runs and openwallet's timer starts again; `WF(ResetHash)`: the second of two
writes in one function; `WF(DeliverNotice)`: openwallet drains its queue.  Nothing
is assumed of the node (it need not mine), no client need ever call, and a fault
need not strike.  In `BatchExtract` each goroutine is weakly fair; taking a token
is strongly fair because Go serves the senders that wait on a channel in order.

The decoder has no liveness property: nothing obliges a client to call, and a call that
fails is over.

Deadlock is checked in every run of the scanner (the task can always go on);
it is not in `batch_extract`, whose calls really end, nor in the runs of
`TxDecoder`, where clients may stop.

Each property of a passing run comes with a mutation of the model that breaks it
(`mutants` in `PROJECT.json`): operators commented "Slip:" hold the mutated form
of the definition that follows them and are used by nothing else.

### What the scanner does not promise

The passing runs have limits that are results too; TLC shows each when the
budget is raised:

* With two reorganisations, one crash or one database that does not open breaks
  `AnnouncedOnChain`, `ChainCovered`, `OneBlockPerHeight` and `TableLinked`: queued
  headers die with the process, and a position torn between height and hash names no
  block.
* With two reorganisations, one reset between tasks breaks `AnnouncedOnChain` and
  `OneBlockPerHeight`: the blocks above the height it asks for stay announced, and
  nothing withdraws them when the chain has left them meanwhile.  `ChainCovered`
  and `TableLinked` survive any number of them (section 4): TLC finds both to hold when
  `scan_reorg` takes one reset to 2, 3 or 4 in place of the pause.
* Two lost answers break `AnnouncedOnChain` and `TableLinked` on branches of heights 4
  and 6 that part after block 1: the task gets two heights ahead of the block it compares with
  and a rewind lands above the position.  They also break `ChainCovered` (finding 2).
  `OneBlockPerHeight` survives any number of them (section 4).
* A client's `ScanBlock` during a reorganisation can announce a block of the branch
  that is abandoned: `AnnouncedOnChain` and `OneBlockPerHeight` fail.
* One refusal and two reorganisations break `ChainCovered`: the record of a
  height is served with the block of another branch.
* Three lost answers and two crashes break `NoHeightLost` even without a fork: a
  torn position is stepped over, which deletes a record (line 165) before the
  height is scanned again.
* `ResetWhileScanning = TRUE`: the running task overwrites the position that
  `SetRescanBlockHeight` stored, so the heights it asked for are not scanned again:
  `NoHeightLost` and `ObserversConverge` fail.  `scan_live` shows that the scanner still
  ends at the node's tip.  The other runs take a reset between tasks, which is how
  a client that pauses the scanner first would call it.
* A database that does not open reads as height 0 and the task jumps to the tip:
  `NoHeightLost` fails with one such fault.  `scan_live` includes it.
* Two lost answers can leave a block unannounced (the unextracted base of a
  rewind), so `ObserversConverge` is checked with one.
* When the node switches to a branch of the same length, the scanner does not
  notice before another block is mined (it compares heights, line 127): the
  liveness runs take `TieBreaks = FALSE`, the safety runs `TRUE`.
* A record of an empty block is never deleted (345 continues): `Settles` allows it.

### What the decoder does not promise

* `RecreateCompleted = TRUE` (a client creates a verified transaction again) breaks
  `SentSigned` (a finding).  It would break `PaidOnce` too: the same request then has
  new coins to spend.  The passing run takes clients that do not.
* A summary has no change address (line 512).  Retained balances or fees with more
  digits than the coin would be truncated one by one, and the remainder would go to an
  output without an address; `NothingStranded` is checked with whole amounts there.
* The reported amount counts a failed lookup as a payment to a stranger, and is
  rounded where the outputs are truncated: `AmountTrue` demands equality without either, and
  otherwise only that the report is not less than what left.
* A payment whose fee has more digits than the coin is charged less the first time it is created
  than the next time (truncated, then rounded): the fee is one of `Charged(r)`, not one number.

### Findings

1. `refused_lost`: an observer's second refusal loses a block, because
   `newExtractDataNotify` returns nil always and line 349 deletes the record that
   line 683 has just saved.
2. `unlinked_base`: a rewind to a height with no row takes the node's block as
   its base without extracting it (177-182).
3. `reset_to_one`: `SetRescanBlockHeight(1)` stores the value that means "none".
4. `height_one_livelock`: a fork of block 1 is stepped back to block 1 itself, and
   found again for ever.
5. `overdrawn_summary`: retained balances and a fee above the inputs give a negative amount
   that wraps; the test for insufficient funds (crypto/tx.go 53) compares an unsigned
   number with 0.
6. `unsigned_recreate`: `createVLXRawTransaction` leaves `IsCompleted` set when it
   replaces a verified transaction, and `SubmitRawTransaction` sends it unsigned.

Each entry of `findings` in `PROJECT.json` quotes the line that says otherwise.

## 4. Proofs

| Theorem | Statement | Assumptions |
|---|---|---|
| `BatchTypeCorrect` | `Spec => []TypeOK` (`BatchExtract`) | the named assumption on constants |
| `TokensBalance` | `Spec => []TokensAccounted` | the same |
| `NothingSentOnClosed` | `Spec => []NoSendOnClosed` | the same: any calls, transactions and tokens |
| `BatchKeepsPromise` | `Spec => Promise!Init /\ [][Promise!Next]_Promise!vars` | the same |
| `SubmittedIsSigned` | `Spec => []SentSigned` | `~RecreateCompleted` |
| `SubmittedOnce` | `Spec => []PaidOnce` | `~RecreateCompleted` |
| `TypeCorrect` | `Spec => []TypeOK` | the named assumptions on constants |
| `NeverWraps` | `Spec => []NoWrap` | the same: any tree, any block served at first, any budget, any resets, any `RescanLastBlockCount` |
| `NoHeightIsLost` | `Quiet => (Spec => []NoHeightLost)` | `Quiet`: no refusal, crash, database failure or reorganisation, resets between tasks and not to height 1 |
| `OneAtEachHeight` | `Spec => []OneBlockPerHeight` | `Lasting` (no crash, database failure or reset), no client's `ScanBlock` |
| `TableIsLinked` | `Spec => []TableLinked` | `OneLoss`: no crash or database failure, resets between tasks and not to height 1, at most one lost answer |
| `AnnouncedIsOnChain` | `Spec => []AnnouncedOnChain` | `OneLoss`, no reset, no client's `ScanBlock` |
| `ChainIsCovered` | `Spec => []ChainCovered` | `OneLoss`, no refusal |
| `DecoderTypeCorrect` | `Spec => []TypeOK` (`TxDecoder`) | the named assumptions on constants |
| `NoUnitStranded` | `Spec => []NothingStranded` | `FairOrders`: `FeesFit`, `WholeSummaries` and `SmallSupply` |
| `BooksAlwaysBalance` | `Spec => []BooksBalance` | `FairOrders` |
| `AmountIsTrue` | `Spec => []AmountTrue` | `FairOrders` |
| `PromiseKept` | `Spec => Transfers` | `FairOrders`, finitely many accounts, `~RecreateCompleted` |

Every safety property that a passing run checks is stated by a theorem.

`NoWrap` is not inductive: the invariant `WrapInv` adds what the height is
at each place of the task (at least 2 where the code subtracts 2 without
noticing a wrap, below the chain's end where it adds one), that a task at height 0 stands on the
genesis block, which is why no fork is found at height 1, that everything still to be visited is
a height, and that a reset in progress is for one of `ResetHeights`.

`NoHeightIsLost` covers any number of lost answers, `ScanBlock` calls, resets and
pauses on any tree and any `RescanLastBlockCount`.  The difficulty is that a height
whose fetch failed makes the next block look like a fork although there is none:
the task deletes a record, steps back two, and takes a row or an unextracted
block of the node as its base.  `PositionInv` says where, on the node's own chain,
the position, the rows and the locals are at each place; `CoverInv` says that what
the position answers for is covered, and that what a rewind dropped lies above
the position it is about to store.  Both are stated as conjunctions of named parts,
one proof step per action.

`SubmittedIsSigned` covers any accounts, coins, requests and faults.  `SignedInv` says
that a signature to be made names the owner of the coin its message spends, that
`IsCompleted` is set only while the transaction carries the signatures that verify,
that it is set throughout a submission and clear throughout a creation.  The
last two are what repeated calls could break, and what `RecreateCompleted` does break.
`SubmittedOnce` adds `OnceInv`: a published request stays verified with the same
inputs (`VerifiedStays`), and those inputs are gone for good, because a new coin names a
transaction later than any before.  A second publication would need one of them,
and there is one, since no signatures verify nothing.

The theorems about `BatchExtract` rest on three invariants.  `WorkInv` keeps the set of
jobs that hold a token beside the count of tokens.  `CallInv` counts, for each call, the
results received from jobs: those done, those in the queue and the one with `saveWork`;
when `done` reaches the number of transactions nothing else is left, which is why
closing the channels then is safe.  `HandInv` says that a result is in one place only
and was handed over once exactly when it is in none; with the other two it shows each
`Save` to be a hand-over of the promise and `Return` to come after the last of them.
What fairness adds to the promise (a call that begins returns) is left to TLC.

### The theorems about forks

The four theorems of `ForkProofs` hold for any tree of blocks and any number of
reorganisations, with the chain left and returned to at any moment.  Their invariants
build on each other:

* `PlaceInv` relates the task's height to the recorded one at each place.
* `ShownInv` looks through the queue: `Shown(b, i)` says that the observers will hold
  `b` once the first `i` headers are delivered.  `NeverTwo` demands one block per height
  of every such prefix, which is what makes `OneBlockPerHeight` inductive.  What is
  announced is a row of the table, and a rewind passes no announced block but the one
  it is about to withdraw.  So a lost answer does no harm here, however many there are.
* `StepInv` is where one lost answer differs from two: the task is at most one height ahead of the
  block it compares with, so a rewind stays at or just below the position.
* `LinkInv`: the rows at or below the position are its ancestors, without a gap, down to `Low`,
  the height that the last reset asked for: rows below it may be of any branch.  It refers
  to `PosHash`, the hash the position is about to have, because height and hash are
  two writes.
* `RowInv`: every height answered for has a row, and it holds a block delivered since the last reset.

A reset breaks the tie between the position and what lies below and above it: rows above it
stay, of whatever branch, and the block it names may have no row.  `PlaceInv` says that until the
hash is stored the task does not begin, and nothing at or above `Low` is below the position.  So
both invariants start anew from there, and each row is replaced before the position passes it.

The hypotheses are the limits of section 3: without any one of them TLC breaks the
property, except that `TableLinked` is not known to fail with a reset beside the running task.

### The theorems about amounts

Sums are the first difficulty: `MapThenSumSet` is defined by a fold, and the library's induction
theorems cannot be instantiated here.  `SumProofs` states induction with the property as a
set of values instead of an operator (`NatInduct`, `SetInduct`), shows by it that the function which the
fold iterates exists and is unique (`IterateExists`, `IterateUnique`), and derives the
laws of sums from that: one element more or less, unions, monotonicity, renaming.

`TypeOK` of the decoder is not inductive: `TypeInv` adds that transactions have
finitely many outputs, that the locals of a call hold addresses and coins of its
account, and that the node's coins are finite.  That amounts stay in a
uint64 is a fact about `Create`: `PayOutputsPay` and `SummaryOutputsPay` say what the
outputs of a call add up to, in decimals, and `NewTransactionMakes` and `PaysPaidOut`
what they add up to in units, when each is truncated by itself and wraps.

`OriginInv` says where things come from: the transaction of a raw transaction is what a
Create of its request built, its signatures sign that transaction or an earlier one
that was built and replaced, and its `TxAmount` belongs to the transaction signed.  A Create
that fails half-way leaves `RawHex` new and the rest old, which is why the three are not simply
those of one call.  `NoUnitStranded` follows by arithmetic: a payment's change address gets
what truncation leaves, and a summary of whole units leaves nothing (`SummaryLeavesNothing`).

`BookInv` is about the node's coins: each account holds what it had plus what every
published transaction brings it by the scanner's extraction (`HeldInv`), the coins are
never worth more than at first (`SupplyInv`), and what the node took is what a request built
and balances (`TakenInv`).  `TakesMoves` is the lemma behind it: when the node takes a
transaction, any set of addresses gains what it pays them and loses what it spends of theirs.

`AmountIsTrue` needs amounts that did not wrap: what the node takes balances, and
with `SmallSupply` each output is its amount rounded down (`TakenExact`), although Create may
well have built transactions that wrap (finding 5) and that the node then refuses.
`RecordInv` carries what is known at the publication to the record that
`SubmitRawTransaction` returns.

`PromiseKept` is the refinement.  A step that publishes nothing changes no coin and stutters;
`Takes` settles a request that was not settled before, by `OnceInv`.  `TakesSettles` says who
gains and who loses, `PaymentMoves` and `SummaryMoves` that this is the move which `TransferSpec`
allows.  The sum the payer gives is the sum over the receivers of what each gets, which
is the same as the sum over the addresses paid (`SumByPart`).

The hypotheses are what the code's use justifies, and TLC evaluates them on the instance
(`FairInstance` in `MCTxDecoder`).  `FeesFit`: a fee, rounded or not, fits the 64 bits in which the node
counts.  `SmallSupply`: all coins there are together are worth less than an `int64` holds, so that the
casts of 239 and 474 change nothing, and stay so (`SupplyInv`).  `WholeSummaries`: the retained balance and the fee of a
summary have no more digits than the coin; without it the remainder goes to an output
without an address (section 3).  Payments and their fees may have any digits, and any request may ask for more than
there is.  `~RecreateCompleted` is finding 6.

### What is only model-checked

Liveness (`Settles`, `ObserversConverge`, and that a call of `BatchExtractTransaction` returns) needs
`ENABLED`, which is out of the prover's reach.  The limits that the hypotheses above
leave out are shown by TLC only.  `Quiet` is as weak as the argument of `NoHeightIsLost` allows
now: refusals, database failures and resets to 1 break the property (section 3), and crashes
break it together with three lost answers.

## 5. Not modelled, and why

`GetByHash`, `GetTransaction` and `GetRawTransactionFeeRate` change nothing.  The byte layout and
the JSON of transactions, hashing, the signature scheme and addresses are
pure conversions, most of them by libraries.  The configuration is read once.  Raw
transactions with keys of several accounts do not occur: `createVLXRawTransaction`
writes the signatures of one.  The Sid of an input (blockscaner.go 589) is left out with
the observers that would use it, and so are accounts with more addresses than the
limit of 2000 (tx_decode.go 183).  The tests under `openwtester/` need a live node.

## 6. Plan

1. Crashes in `NoHeightIsLost` when no answer is lost.
2. What follows from the promise alone: `TransferSpec` makes no money.
