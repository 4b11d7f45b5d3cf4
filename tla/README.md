# A TLA+ development for nakamoto-electrs

nakamoto-electrs bridges a nakamoto SPV client to Electrum wallets: nakamoto
reports blocks, an indexer keeps a script-hash index of them in an embedded
store, and an Electrum server answers queries and pushes notifications.  This
directory models what has to be right for a wallet to see the right money: the
index, its store down to the bytes, the pool of unconfirmed transactions, the
queries, the threads that feed the index and that tell a wallet what changed, and
the process around them from start-up to shutdown.

Paths below are relative to the repository root.

## The system

| Part | State | Operations | Talks to |
|---|---|---|---|
| Nakamoto client (external) | header tree, best chain, downloads | reorg, block request, delivery, tx status | block source, tx-status thread, broadcast |
| Block source (`src/nakamoto_source.rs`, `src/block_source.rs`) | subscriber list, block cache, two threads | `subscribe`, `broadcast`, the `nk-events` and `nk-blocks` loops, point queries | nakamoto's two channels in, one channel per subscriber out |
| Persistent store (`src/store.rs`) | sled trees `history`, `outputs`, `txs`, `utxos`, `journal`, `meta` | one insert or delete per call | called under the index lock |
| Index state (`src/indexer.rs`) | `history`, `by_height` (undo records), `tip_height`, and the store | `apply_block`, `rollback_height`, `new` | event loop thread; one `RwLock` |
| Pending pool (`src/indexer.rs`) | `pending_txs`, the cached `pending_outputs`, the txid list on disk | track, restore, forget, forget chain, rebuild | Electrum handlers, tx-status thread; same lock |
| Index queries (`src/indexer.rs`, `src/store.rs`) | none | history, balance, unspent, mempool, fee histogram | read half of the lock |
| Electrum server (`src/electrum_server.rs`) | per client: subscriptions and last statuses | request handlers, a notification thread per client | index, source, pending-change channels |
| Bridge (`src/app.rs`) | shutdown flag, threads | start-up loop with cache repair, wiring order, waiting for peers, tx-status thread, accept loop, shutdown | everything; nakamoto's cache files |
| Configuration (`src/config.rs`) | none | choice of program, network, directory | bridge |
| Metrics, library (`src/metrics.rs`, `src/lib.rs`) | counters | counting, helpers | |

What is hard here:

* **Two channels from nakamoto.**  Disconnections travel through `nk-events`,
  full blocks through `nk-blocks` after a download.  Nothing orders the two.
* **No transaction spans two store calls.**  A block is dozens of calls; each can
  fail (the error is logged and the next event is taken) and the process can stop
  between any two.
* **Undo by journal.**  A reorg replays undo records; they have to bring back
  exactly the state from before, across restarts.
* **Two sources of truth for a transaction.**  The block path and the
  broadcast/status path change the same pool from different threads in any order.
* **Derived data.**  The pending view is a cache, and the scripts whose subscribers
  are told are computed around the change itself.
* **Notifications race the index.**  A client hears of a block on its own channel
  and has to find out, from the height alone, whether the indexer has applied it.
* **Answers put together from several reads.**  `get_balance` takes the lock twice,
  a header range asks nakamoto once per height; index and chain move in between.
* **A process that leaves without joining its threads.**  Returning from `run_bridge`,
  like a kill, stops nakamoto in the middle of a record; the next start has to
  notice and repair, and every loop and wait has to let Ctrl-C through.

What makes each part correct: the source loses no active block and leaves no
stale one; the store can be read after any failure; the index equals what the
followed chain says, block-atomically, before and after a restart; the pool
holds no double spend and no orphan of an eviction, survives restarts, revives
nothing it gave up, and reports every script it changes; the queries answer what chain and pool together
say; a subscriber ends up with the present status of its scripts and the present
header; the process starts on whatever its predecessor left and stops when told.
`PROJECT.json` lists the hazards line by line with the property that covers each.

## Modules

| Module | Models |
|---|---|
| `Transactions` | Transactions and blocks as constant functions of their ids; the rules of Bitcoin that the index relies on, as assumptions. |
| `PersistentIndex` | The store: one variable per tree, one operator per call. |
| `PendingPool` | The functions the index computes from the pending set: view, conflicts, chains, affected scripts. |
| `IndexState` | The index: `apply_block` and `rollback_height` one loop iteration per action, the pool operations, restart; events in **any** order. |
| `StoreCodec` | The bytes of the store: keys, values, prefix scans, what a restart decodes. |
| `ChainIndex` | Abstract specification: a stack of reader-visible views, pushed and popped one block at a time. |
| `ChainFollower` | `IndexState` driven by one best chain in order; shown to implement `ChainIndex`. |
| `Queries` | The read half of the index: history, balance, unspent list, mempool, fee histogram, lookup. |
| `Requests` | The request handlers on top of `Queries`; `get_balance` in its two reads. |
| `BlockSource` | The source's two threads, nakamoto, the subscribers, the point queries, and the index at block granularity. |
| `HeaderRequests` | `blockchain.block.headers` over `BlockSource`, one query per height. |
| `ElectrumClient` | One Electrum connection: the request thread, the notification thread, their shared state, the channels that feed them, and the index as a position in the sequence of block events. |
| `Config` | What the command line decides: program, network, directory. |
| `Bridge` | The two processes of `app.rs` over several starts: cache files, start-up loop, wiring, peers, accept loop, Ctrl-C and kill. |
| `IndexStateProofs`, `PoolProofs`, `ChainFollowerProofs`, `StoreCodecProofs`, `QueriesProofs`, `BlockSourceProofs`, `ElectrumClientProofs`, `BridgeProofs` | Theorems about `IndexState`, the pending pool, `ChainFollower`, `StoreCodec`, `Queries` with `Requests`, `BlockSource` with `HeaderRequests`, `ElectrumClient`, and `Bridge`. |
| `MCIndexState`, `MCChainFollower`, `MCBlockSource`, `MCElectrumClient`, `MCBridge` | Instances for TLC. |

They build on each other: `Transactions`, `PersistentIndex`, `PendingPool`,
`IndexState`, then `StoreCodec` on one side and `ChainFollower`, `Queries`,
`Requests` on the other; `BlockSource`, `HeaderRequests`; `Config`, `Bridge`;
`ElectrumClient` stands alone.

`ChainFollower` assumes the order of events that `BlockSource` examines:
`BlockSource` shows where the real source departs from it (run `late_block`).
`IndexState` and `ElectrumClient` take events in any order.

### Correspondence

*Lock and loops.*  `job` is the operation that holds the write lock: its height,
the transactions and the position still to do, or the undo records left.  One
action is one loop iteration of the code.  Readers need the lock, so what they
see is the state with `job.op = "idle"`; `ChainFollower!Views` says so.

*Store failures and crashes.*  An action takes `k`, the number of its store calls
that got through, in the order of the code.  With `k` short of the full number
the next call failed: the operation ends there, what memory it changed stays, and
`faults` counts it.  A crash after `k` calls is such a failure followed by
`Reopen`; a store that loses an unflushed tail of its writes is a crash at an
earlier call.  Errors the code drops (`let _ = delete_pending_txid`) are the
parameters `forgotten` and `kept`: the operation goes on and the txid stays on disk.

*Vectors as sets.*  `history` and `by_height` are sets whose elements carry the
pass, the ordinal of the `apply_block` run at their height.  (pass, seq) is the
order of the vector, so a block applied twice leaves its duplicates, and the
journal, whose keys start again at 0, keeps only the second set.

*Data.*  A txid determines its transaction; positions count from 1; script hashing
is a constant function.  The trees are sets of decoded entries.  `StoreCodec` encodes
the trees of a state with the code's field order and widths and compares what
scanning and decoding the bytes give with the sets: a hash is one cell, a byte has
`ByteValues` values (2 in the run, so that small numbers fill several bytes; any number in
the proofs), a raw transaction is opaque.  `RestartReadsBack` counts the keys of the
journal, because two records under one key would be one in the store.

*Queries* change nothing and are operators; a property about them is stated under
`Readable`, the read lock.  The lists they return are sets together with the sort
key: `HistoryOrderFixed` says that the key decides the order.  `get_balance` reads
the confirmed part, gives the lock back and reads the delta, so it is two actions,
with `moved` recording whether a block came or went in between.

*Header ranges.*  Each height is a query of nakamoto's tree of its own; `forked`
records that a block left the best chain between the first and the last.

*Nakamoto.*  `Adopt` moves to a longer branch at once and reports it top-down then
bottom-up, `Deliver` answers a request in any order and only for a block still on
the best chain.  Calls of the handle can fail (`MaxFaults`).  `due`, `tracked`,
`below`, `seen`, `moved` and `forked` are auxiliary: no guard of a modelled operation
reads them.  `DropBlock` is a block that the blocks thread fails to convert.

*Connection.*  `ElectrumClient` takes the sequence of block events as a constant, in
any order, and makes each channel a position in it.  The index is what the events up to
the indexer's position leave: the tip as `apply_block` and `rollback_height` set it
(`TipAfter`), and the blocks no later rollback of their height has removed (`Applied`);
a transaction that two of them list at one height is counted twice, as in the vector.
The best chains of nakamoto are a constant too (`Trees`), because they may be ahead of
the events.  Every acquisition of the client's mutex, every
read of the index and every write to the socket is a step of its own, so the index
moves between the two reads of `script_status`, and a subscribe request comes
between the header's reading and its comparison.  A status is the pair of lists it
is the hash of; a set of pending transactions and the scripts each touches stand
for the pool.  A client's own `transaction.broadcast` is an `Update` and `Announce`
like those of other threads.  `excuses` records what the code cannot make good:
the client connected while the indexer was behind ("lagged"), the wait for the indexer
ran into its deadline or a lookup failed ("missed"), the wait took an event for applied
that was not ("early"), a message was written after a newer
one was recorded ("overtaken").  No action reads it.  The indexer applies every event
here; failing store calls are `IndexState`'s subject.

*Process.*  `Bridge` has one variable for the place of the main thread and one for
the nakamoto thread.  headers.db and filters.db are lengths in bytes: nakamoto writes
a header record, then the filter record, byte by byte, and `ProcessEnds`, which is
both a return from `main` and a kill, can come anywhere.  The cache check compares
lengths as the code does.  `RemoveCache` drops its error as the code does, so any of
the files may be left (`faults`).  `foreign` marks a cache made for another genesis
block, which the client refuses to open.  A block is followed from the report
("event") to the index ("indexed"), or is "lost" when no channel was there to take it, or
"refused" when `request_block` or the conversion failed: `BlockSource` has the details.
`connections` is the metrics gauge, `live` the client threads it counts.

Definitions named `Mut...` are deliberately wrong variants of the definition that
follows them; each breaks a property it is listed with in `PROJECT.json`, which
shows that the property constrains the code.

## Runs

| Run | What it shows | Size |
|---|---|---|
| `store_faults` | Types, unspent entries always have their output, a pending transaction stays recoverable unless its own block is undone; the bytes of the store scanned by script give that script's unspent outputs and no others, a restart decodes what was stored, the persisted pending list names each txid once. One height, two blocks, a block applied again without a rollback (`MaxPass` 1), one failing call anywhere, restarts anywhere. | 181 k states |
| `chain_follower` | The UTXO set is exact, restarts change nothing and revive nothing, every mutation has its undo record, the index implements `ChainIndex`; the pending view is fresh, only parent and child conflict, evictions take all descendants, changed scripts are reported; unspent list, mempool entries, histogram, history order, lookups and balance answer what chain and pool say. Four blocks on two branches, spends inside a block and across blocks; a pending chain of three and a fourth transaction that spends from it and also what its parent and its first ancestor spend, broadcast in any order; a `get_balance` in between. | 97 k |
| `block_source` | Announced blocks are cached; a block that stays active is eventually indexed; the headers of a range link. Two branches, one client, one failing handle call or conversion, one header request at a time. | 1.0 M |
| `reorg_back` | No active block is lost when the best chain moves away and back (a1, then c1-c2, then a1-a2-a3). | 2.9 M |
| `electrum_client` | At rest the client's last status and header are the present ones, the client does come to that, and the wait for the indexer is exact. A one-block reorg that unmines a transaction, a pending change, two requests, a hang-up. | 1.8 M |
| `bridge` | The client never opens a damaged cache, an index in a default directory holds one network, start-up and shutdown come to an end, a block reported once the indexer runs is indexed unless its request or conversion fails. Two starts of either program on two networks, one removal that fails half-way. | 394 k |

Runs that refute what a comment or test says (findings in `PROJECT.json`):

| Run | Statement refuted |
|---|---|
| `late_block` | A disconnected block is rolled back. A download that ends between two events is announced after its own disconnection. |
| `reverted` | A reverted transaction can be restored: the rollback deletes its bytes. |
| `retrack` | Broadcasting a pending transaction again leaves the pool alone: it evicts its own descendants. |
| `subscriber` | A subscriber is notified of status changes: not of a block that was broadcast before it connected and indexed after it subscribed. |
| `parent_conflict` | Tracking a transaction evicts every pending one that spends the same inputs: a parent of it that does is passed over, and no rule of Bitcoin is checked before. |
| `balance` | A negative unconfirmed balance means that confirmed outputs are being spent: an output that one pending transaction creates and another spends is subtracted without having been added. |

*Bounds.*  One failed call already gives every intermediate store state, because
each operation stops at its first failure.  `MaxPass` 1 is the first value at
which journal keys collide.  Three blocks are the least for a reorg below a block
that spends from two lower ones, three chained transactions the least for a
descendant that is not a child, five blocks the least for a block that is
connected, disconnected and connected again.  In `chain_follower` no store call
fails and `MaxPass` is 0: `OnlyParentsConflict` and
`RestartRevivesNothing` do not hold of `IndexState` when a block is applied twice at one
height, because the overwritten journal makes a restart take a confirmed txid for a
pending one, and `EveryMutationHasUndo` is stated for states without a failed call.
After a failed `delete_pending_txid`, whose error the code drops, the txid does come back
at the next start; the code's comments say nothing of it and no property here does.  In `store_faults` every output is the first of its
transaction and the height is 1, so these two fields are encoded for one value only
(the theorems of `StoreCodecProofs` are for all values); sequence numbers and amounts
take several, which fill more than one byte.  `bridge` has two starts, the least
for a process to find what another left; records of 3 and 2 bytes, so that a file can
end inside either; two records, so that the files can differ by one whole record; and one
failing removal.  Its networks use their default directories: with one `--data-dir`
for two networks both write the same index, because the directory is taken as it is.
`StartupEnds` rests on the bound on failing removals: one that fails every time makes
the start-up loop of the code spin without a pause.
`electrum_client` is constrained to states without excuses (`Unexcused`): excuses are
never withdrawn and its properties hold trivially once there is one, so nothing is
lost, for the liveness property either.  Two requests let a client subscribe to a
script and to headers, or to the same thing twice; the reorg is the least sequence
with an event whose height the indexer has already passed.

*Fairness.*  `IndexState`, `ChainFollower` and `Requests` have none and claim no
liveness: the loops under the lock are bounded.  `BlockSource` and `HeaderRequests`
have weak fairness for the two source threads and the indexer, which loop until shutdown, and
for `Deliver`: nakamoto answers a request it accepted.  `ElectrumClient` has it for the
indexer, the notification thread (its only wait has a deadline), the request thread
once it has a request, and the thread that owes a broadcast.  `Bridge` has it for the
main thread, all of whose waits time out and look at the flag, except the join after
a shutdown during start-up; for that nakamoto is fair in opening its store, in
finishing the record it is writing, and, strongly, in obeying the shutdown command
between records.  Connections, reorgs, broadcasts, clients, Ctrl-C, kills and
restarts are not fair.

*Deadlock* is off for `BlockSource`, `ElectrumClient` and `Bridge`: block tree, events
and starts are finite, so the system comes to rest.

## Proofs

Eight modules hold the theorems, each about the modules that its name says.  All of
them are for every value of the constants: any transactions and valid blocks, any
block tree, any bound, any number of clients and starts.

**Index, any order of events** (`IndexStateProofs`, `PoolProofs`).  Every failing call,
every restart, blocks at any height:

* `TypeCorrect`: `Spec => []TypeOK`
* `UtxoLookupNeverFails`: `Spec => []UtxoHasOutput`
* `PendingViewNeverStale`: `Spec => []PendingViewFresh`
* `PendingIsDurable`: `Spec => PendingStaysDurable`
* `EvictionsAreComplete`: `Spec => EvictionTakesDescendants`
* `SubscribersHearOfChanges`: `Spec => AffectedCoversStatus`

The invariant `IInv` is the conjunction of the first three and of `PendingIsPersisted`
(what is pending in memory is in the list on disk).  `UtxoHasOutput` is not
inductive without the typing: the step that applies an output must know that the
outpoint is one some transaction creates, and that an undo record names an outpoint.
The argument for it is the order of calls: `store_output` inserts the output before the
unspent entry, a rollback deletes the unspent entry before the output, and re-adding a
spent output happens only when the output is there.  `PendingStaysDurable` rests on
`pending_txs.insert` coming after `store_tx` and `store_pending_txid`, on every removal
leaving memory whether or not the disk follows, and on `delete_tx` being called in one
place only.  It is as much as the code gives: once a block with the transaction is undone
the bytes are gone, also if it was broadcast again meanwhile.  `EvictionTakesDescendants` excepts the tracked
transaction itself, which may spend from a descendant of what it replaces: nothing checks
that.  The two action properties need what `Chain`
is: `ChainClosed` and its neighbours show that it holds its root and is closed under
pending children, from its definition as a least set, without induction.

**Index on a chain** (`ChainFollowerProofs`).  Valid blocks in order, reorgs of any
depth, any pool traffic, restarts between events:

* `UtxoSetIsExact`: `FSpec => [](faults = 0 => UtxoSetExact)`
* `RestartsAreTransparent`: `FSpec => [](faults = 0 => RestartIsTransparent)`
* `UndoIsComplete`: `FSpec => []EveryMutationHasUndo`
* `ConflictsAreParents`: `FSpec => []OnlyParentsConflict`
* `RestartsReviveNothing`: `FSpec => []RestartRevivesNothing`
* `Refinement`: `FSpec /\ [](faults = 0) => FollowsChain`, the refinement of `ChainIndex`
* `FollowerIsIndex`: `FSpec => Spec`, so the theorems above hold of a follower too

`faults = 0` is necessary: one failed call between an entry and its undo record, which
`IndexState` allows anywhere, leaves something that no rollback removes.  The inductive
invariant is `FInv`: the undo journal carries the whole state.  The trees are a function
of the journal (`StoreIsJournal`), the memory is a copy of it (`MemoryIsStore`, and
`MemoryInRollback` while records are in the hands of the rollback), its records at a
height are exactly what the block of that height spends, creates and lists
(`JournalIsChain`), for the block in hand as far as the cursor has come (`SpendsDone`,
`CreatesDone`, `EntriesDone`), no key is used twice and an output's record is older than
that of its spending (`JournalOK`).  Undoing the newest record then keeps the relation
between journal and trees.  For the refinement, `below` and `seen` are the views computed
from the journal up to a height (`ViewsKept`): a step under the lock is a stutter, the
last step of a block pushes a view, the last step of a rollback pops one.

**Bytes of the store** (`StoreCodecProofs`), any order of events, failing calls, restarts:

* `ScriptScansAreExact`: `Spec => []ScriptScanExact`
* `RestartAlwaysReadsBack`: `Spec => []RestartReadsBack`
* `PendingListStaysASet`: `Spec => []PendingListIsASet`
* `StoreFitsWidths`: `Spec => [](IInv /\ SInv)`

The centre is `RoundTrip`: a number below `Limit[w]` is read back from its `w` big-endian
bytes, for any number of values to a byte.  `to_be_bytes` takes bytes off at the low end,
`from_be_bytes` adds them at the high end, so the lemma relates the two half-way: the
first `i` bytes read so far are the number shifted down by the remaining ones.  `Parts`
says what the slices of a concatenation are, and from both follow one lemma per key and
value (`UtxoKeyDecodes`, `OutputDecodes`, `HistoryKeyDecodes`, `JournalDecodes`); decoding
makes encoding injective, so no two records of a tree share a key.  That every number the
index stores fits its width is the invariant `SInv`.  Its hard part is the sequence number
of the journal: `JobInBlock` says that, at any place in a block, what was counted so far is at
most what the transactions and inputs or outputs done so far account for (`Records`), so the
bound on a whole block bounds each number.  `SInv` was checked on the instance of
`store_faults` first.

Recursion over `0..n` (bytes, lists, record counts) is written with recursive functions.
`RecursionExists` shows from the least-number principle for sets that such a function has
a solution, `StaysIn` that it stays in a set; the induction a proof needs is over a set of
numbers, which the provers can do, and not over an operator.

**Queries and requests** (`QueriesProofs`), on top of `FInv`:

* `UnspentListIsExact`: `RSpec => [](faults = 0 => UnspentExact)`
* `RequestsAreAnswered`: `RSpec => [](faults = 0 => QueriesAnswered)`
* `HistoryOrderIsFixed`: `RSpec => []HistoryOrderFixed`
* `MempoolIsExact`: `RSpec => [](faults = 0 => MempoolExact)`
* `HistogramIsComplete`: `RSpec => [](faults = 0 => HistogramComplete)`
* `BalancesAddUp`: `RSpec /\ [](faults = 0) => BalanceAddsUp`

`QInv` adds `TxOK`: the raw transactions of the chain are in the store, and a `Tx` record
names a transaction of its block, or, while that block is rolled back, one that is no
longer confirmed.  That is why `delete_tx` takes away nothing a client can still be told
of.  It needs that a valid chain holds no transaction twice.  The last three are about sums.
A sum is a fold that takes out the elements of a set in an order nobody knows;
`SumTakesOut` shows that any element may go first, by induction over the subsets of a
finite set (`SmallestFirst`: a set of subsets that holds a set whenever it holds all that
lack one of its elements, holds them all).  From it follow sums of disjoint unions
and of subsets, and the sum over the rows of the histogram, one row per fee rate.  `RInv`
adds to `QInv` that, until a block comes or goes, the confirmed half read first is still
the sum of the script's unspent entries (`BalanceKept`), and that the pool is finite
(`PoolKnown`), without which a sum over it means nothing.

**Block source** (`BlockSourceProofs`), any block tree, failing handle calls and
conversions, any header ranges:

* `SourceTypes`: `HSpec => []TypeOK`
* `AnnouncedBlocksAreCached`: `HSpec => []AnnouncedIsCached`
* `ActiveBlocksAreIndexed`: `HSpec => []NoActiveBlockMissing`
* `RepliesLink`: `HSpec => HeadersLink`

`NothingLost` is the heart of `BInv`: a block of the best chain that was handed over is in
the index or on its way, and no rollback ahead of it on that way can hit it.  To be
inductive it has to know what nakamoto's channel can hold in which order (`NakamotoOK`,
`HandOK`, `ChannelsOK`).  The largest and smallest member of a set of heights, which the
proof needs, come from a least-number lemma over sets (`HeightBound` bounds them).
`RangeOK` says that the headers got so far are those of the branch nakamoto is on, unless
a block has left it.

**Connection** (`ElectrumClientProofs`), block events in any order, any scripts, any
number of threads that change the pool, slow indexer, failed lookups, hang-up anywhere:

* `ClientTypes`: `Spec => []TypeOK`
* `StatusesAreCurrent`: `Spec => []StatusCurrentAtRest`
* `WaitsAreExact`: `Spec => WaitIsExact`, which is about each event that comes in order
  (`InOrder`: a block is connected above the tip or disconnected at it or below)
* `HeadersAreCurrent`: `Spec => []HeaderCurrentAtRest`, provided the last block event
  connects a block that nakamoto keeps from then on (`EndsConnected`: after a disconnection
  the header is read back, and that read may fail)

The property is about states at rest, the invariant `EInv` about what is owed in all the
others: the record of a script that the client was told of is the present status, or the
notification thread has a reason to look at the script again (`Later`: in a channel or in
the hands of an updater; `Planned`: taken up and not yet done), and the last message is the
record, or a newer one is in flight (`ScriptOK`).  That a change of the index always leaves
such a reason needs `HeardOK`: the indexer has applied every block event that the thread
has taken up, except the one it waits for.  A wait that ends
otherwise, at its deadline or because the tip happens to be at the height, leaves an
excuse.  That the second never happens for an event in order is `WaitsAreExact`: such an
event moves the tip across the height that `wait_for_indexer_tip` tests
(`ReadyIsIndexed`).  For an event out of order it does happen, and the client may be left
with a stale status.  The lock keeps the two reads of a subscription and those of a scan
apart (`ControlOK`).  `HeaderOK` is the same for the header.  `TipAfter` is recursive;
`TipAfterUnfolds` shows that it satisfies its definition, with the least-number
principle for sets in place of induction.

**Process** (`BridgeProofs`), any number of starts, kills anywhere, any failed removal:

* `BridgeTypes`: `Spec => []TypeOK`
* `ClientOpensUsableCache`: `Spec => []OpensUsableCache`
* `IndexesAreOfOneNetwork`: `Spec => []OneNetworkPerIndex`, provided no directory given on
  the command line is the default directory of a network

`BrInv` ties the places of the main thread to what it has checked: between the check and
the opening of the cache nobody writes to the files.

Every inductive invariant was model-checked on the instance of the corresponding run
before it was proved.  There is one lemma per action and, under it, one step per part
that the action can disturb.

*Assumptions.*  `TransactionsAssumption` (types), `DistinctInputs` (no transaction of
a block spends an output twice: a consensus rule), `TxidCommits` (no transaction spends from
itself: its txid is a hash of its inputs; nothing else is assumed of what a client may
broadcast), `HeightAssumption`, `HeightBound` (a block tree has a highest block),
`QueriesAssumption` (txids are ordered, no block has the height `u32::MAX`),
`StoreCodecAssumption` (heights and positions are below 2^32, amounts below 2^64, and a block
makes at most 2^32 undo records: they are u32 and u64 in the code already, and a block
of four million bytes stays far below the last),
`ElectrumClientAssumption` (types: the events may be any), and the typing of the other
constants.  TLC evaluates each on the runs.

*Only model-checked.*  Liveness, which is outside the prover's reach: `ActiveBlocksGetIndexed`,
`StatusCatchesUp`, and `StartupEnds`, `ShutdownReturns` and `ReportedBlocksIndexed` of
`Bridge`.  Every invariant, action property and refinement that a
passing run checks is also the statement of a theorem.

## Not modelled

* JSON, TCP, logging, hex and raw-transaction encoding: no state.
* Requests that answer with a constant or with the last fee estimate
  (`server.version`, `server.banner`, `server.ping`, `relayfee`, `estimatefee`), and
  the fee-rate thread, which copies one number.
* Metrics other than the connection gauge: they only grow and nothing reads them
  back.  (`transactions_broadcast` is counted before the broadcast has succeeded.)
* `store_transaction` and the source's `tip()`: only tests call them.
* The ten attempts at opening the sled store: they are one `open`.
* `src/lib.rs` and `src/main.rs`: re-exports and helpers without state.

Seen while modelling and not stated as a property: `max_reorg_depth` is parsed and
never used; blocks that nakamoto connects in the two seconds before the source exists
are lost to the index (`ReportBlock`), and so are those reported between the source's start
and the indexer's subscription, which is why `ReportedBlocksIndexed` begins after it; a client that dies after the start-up wait goes
unnoticed; repairing one network's cache removes those of the other networks under the
same directory; a block whose request or conversion fails is dropped for good.

Three more comments do not hold, and no run is kept for them.  `indexer.rs:91-92` calls pending
transactions those "not yet in any block": one broadcast, or reported reverted, after its block
was indexed is pending and confirmed.  `indexer.rs:1111` says that a tracked transaction
"survives restarts": that same transaction loses its raw bytes when the block is rolled back
and is not found at the next start (`PendingStaysDurable` excepts it).
`electrum_server.rs:938-942` says that waiting for the indexer "prevents the notification
thread from sending stale status hashes": with the events Disconnected(a1), Connected(a1),
Connected(c1), a1 being late, the tip is at the height of c1 before c1 is applied, the scan
comes too early and is not repeated (`ElectrumClient` has it as the excuse "early"; the
statuses and headers of all other clients were checked on that log as well).

## Plan

Every component that keeps state is modelled and every safety property is proved.  What is
left is the liveness properties, with a prover that has `ENABLED`, and the theorems about
`ChainFollower` for blocks that fail half-way, which need a statement of what a reader is
still promised after an error the code only logs.
