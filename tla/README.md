# A TLA+ model of the Platopia node

Platopia is a full node derived from Bitcoin ABC with an ethash proof of work
and *interest*: an output may be locked for a number of blocks and be worth more
than was paid into it.  This directory models the parts of the node whose state
is hard to keep right, checks them with TLC on small instances and proves the
most important statements with TLAPS for every instance.  Paths below are
relative to `src/src/`; `PROJECT.json` maps every definition to its lines.

## 1. The system and its parts

| Part | Code | Module |
|---|---|---|
| Coins: a database, the cache `pcoinsTip` over it and a cache per block over that | `coins.cpp`, `txdb.cpp` | `UtxoStore`, `CoinsCache`, `CoinsCacheProofs` |
| Block index, candidates, activation of the best chain, invalidate, reconsider, precious, pruning | `validation.cpp` | `BlockChain`, `BlockChainLemmas`, `BlockChainProofs`, `BestChainProofs` |
| Walks in the index: skip pointers, locators, forks | `chain.cpp` | `ChainWalk` |
| Connecting and disconnecting blocks, input rules, chain interest | `validation.cpp`, `undo.h` | `Ledger` |
| Interest schedule | `validation.cpp`, `chainparams.h` | `Interest`, `InterestProofs` |
| Block files, index and coins on disk; flush, crash, restart | `validation.cpp`, `txdb.cpp`, `init.cpp` | `FlushRestart`, `FlushRestartProofs` |
| Reindex and import | `validation.cpp`, `init.cpp` | `Reindex` |
| Memory pool: contents, templates; packages; fee estimates | `txmempool.cpp`, `miner.cpp`, `policy/fees.cpp` | `TxPool`, `PoolPackages`, `FeeEstimator` |
| Script checks in parallel; the interpreter | `checkqueue.h`, `script/interpreter.cpp` | `CheckQueue`, `CheckQueueProofs`, `Script` |
| Merkle trees, compact blocks, locked memory | `consensus/merkle.cpp`, `merkleblock.cpp`, `blockencodings.cpp`, `support/lockedpool.cpp` | `Merkle`, `CompactBlock`, `LockedPool` |
| Block download | `net_processing.cpp` | `BlockDownload` |
| Transaction relay and requests | `net_processing.cpp`, `net.cpp`, `limitedmap.h` | `TxRelay`, `TxRequests`, `PeerProofs` |
| Connections, message queues, addresses | `net.cpp`, `addrman.cpp` | `ConnMan`, `MessageFlow`, `AddrMan`, `PeerProofs` |
| Ethash mining threads (`MineWorker`) | `miner.cpp` | `Mining` |
| Scheduler, HTTP server | `scheduler.cpp`, `httpserver.cpp` | `Scheduler`, `HttpServer` |
| Wallet transactions and payments | `wallet/wallet.cpp` | `Wallet`, `CreateTx` |
| Everything else | | section 7 |

How they interact: a message handler, an RPC or the miner hands a block to
`ProcessNewBlock`, which enters it in the block index and calls
`ActivateBestChain`.  That disconnects and connects blocks one at a time; each
connection runs `ConnectBlock` on a fresh coins view over `pcoinsTip`, with the
script checks in the check queue, and flushes the view if the block is good.
Connected blocks clear the memory pool, disconnected ones refill it, and
`CreateNewBlock` builds the next block from it; the wallet hears of all of this.
It happens under `cs_main`, but `ActivateBestChain` releases it between its
steps.  `FlushStateToDisk` writes files, index and coins one after the other.
The socket thread moves bytes between peers and queues; the message thread takes
messages from the queues, and asks peers for blocks and transactions.

Where two parts share state the module of one has the other's state (`TxPool`
extends `Ledger`; `FlushRestart` has the index, the files and the coins' best
block; `Wallet` has pool and chain; `BlockDownload` has the set of blocks the
node has).  Where a part only needs the verdict of another, the verdict is a
constant or a free choice.

## 2. The modules

A state variable has the name of the member it stands for where TLA+ allows it,
and an action the name of the function.  Under a lock, an action is one critical
section; between locks, it is one access to shared state.

**UtxoStore, CoinsCache.**  `UtxoStore` is what the cache stack promises: a
persistent and a current map from outpoints to coins with a best block, and a
transaction (the view of a block) that is committed as a whole or abandoned; a
restart returns to the last persistent state.  `CoinsCache` is the code: `db`,
`tip` and `view` are the three levels; an entry has a coin and the flags DIRTY
and FRESH.  `FetchEntry`, `AddEntry`, `SpendEntry` and `MergeEntry` are the
bodies of `FetchCoin`, `AddCoin`, `SpendCoin` and the loop of `BatchWrite` for
one entry.  `AddCoin` may be called with `possible_overwrite` false only for a
coin that does not exist, the contract that `coins.h` states and its callers
keep.  `INSTANCE UtxoStore WITH` maps the stack to the store: a level's value is
its entry's coin or, without an entry, the level below.

**BlockChain.**  A constant tree of blocks; status bits and counters of
`CBlockIndex` as sets (`known`, `haveData`, `processed`, `linked`, `scripts`,
`failedValid`, `failedChild`), `seqId`, `candidates`
(`setBlockIndexCandidates`), `unlinked` (`mapBlocksUnlinked`, a list of children
for every parent, as in the multimap), `tip`, and for
every thread its place in `ActivateBestChain` and its `pindexMostWork`.  One
action is one hold of `cs_main`: `AcceptHeader`, the three outcomes of
`AcceptBlock`, `Activate` (one pass of the loop), `Notified` (the callbacks
without the lock), `InvalidateBlock`, `ReconsiderBlock`, `PreciousBlock`,
`PruneBlock`.  The blocks that are refused are constants.

**ChainWalk.**  A trunk with two branches that grow in any order.  `BuildSkip`
sets a skip pointer with the pointers of the ancestors, `GetAncestor` walks over
them, `GetLocator`, `FindFork` and `FindForkInGlobalIndex` use it.

**Interest.**  `Start`, `Iterate` and `Finish` are the decay loop that
`GetInterestRate` and `GetCurrentInterestInfo` share: the total shrinks by a
tenth per period until the period that holds what is left is found.  The two
lookups of the lock-time table are operators.  Rates are floating-point numbers
in the code and are counted here in decays.

**Ledger, TxPool.**  `Ledger` has the coins (`utxo`) and the chain with its undo
data.  `ConnectBlock` is the transaction loop: `HaveInputs`, `CheckTxInputs`
(maturity, depth of locked outputs with C++'s unsigned comparison in `Depth`,
values and interest), `UpdateCoins`, then the rules for chain interest and
coinbase value.  `DisconnectBlock` is `ApplyBlockUndo` in reverse order, with the
rule for undo records without metadata.  `TxPool` adds `pool`: `ConnectTip` and
`DisconnectTip` with what they do to the pool, `FinishReorg`, admission, and
`Template`, the block that `CreateNewBlock` builds when everything fits.
`LimitMempoolSize` may evict any transactions with their descendants.

**PoolPackages.**  `mapTx` and `mapLinks` as one function from transactions to
entries with parents, children, and the number and fees of ancestors and
descendants.  `AddUnchecked`, `RemoveStaged` (with and without
`updateDescendants`), `removeRecursive`, `removeForBlock`,
`UpdateTransactionsFromBlock` (with its cache of descendants) and
`PrioritiseTransaction` change the numbers by increments, as in the code.

**FeeEstimator.**  The circular buffer `unconfTxs` with its overflow bins, the
moving averages, what is tracked, and the height; a restart reads what the last
orderly shutdown wrote.  The decay is one half instead of .998, and counts are in
units that stay whole.

**FlushRestart.**  Files of slots (`blk` and `rev`), the file counters, the dirty
sets, both databases and what was synced.  `FlushStateToDisk` is a sequence of
steps between which the process or the machine may die.  A power loss may take the
block slots or the undo slots that were not synced, and unsynced writes of the
databases; that anything indexed is synced is checked directly.  The disk may be
full at either of the two places where `FlushStateToDisk` asks.  `Restart`
is `LoadBlockIndexDB` and `VerifyDB`.

**Reindex.**  One step per record of a block file; `mapBlocksUnknownParent`, the
recursion over successors (`Successors`), bootstrap files, a stop and a start at
any record.

**Mining.**  The RPC thread, the dispatcher, the mining threads and the dataset
threads over a heap of `Work` objects that no lock protects: a mining thread's
writes of nonce, mix and `done` are separate steps.

**BlockDownload.**  `CNodeState` for every peer, `mapBlocksInFlight`, the
counters of peers and blocks, and `mapBlockSource`; messages of peers, the
passing of a timeout, disconnection by the socket thread, and `SendMessages`.
Peers outside `Honest` announce and send what they like, or nothing.

**TxRelay, TxRequests.**  `mapOrphanTransactions` with its index by input,
`recentRejects` with the tip they belong to, announcements waiting and known per
peer; and, with a clock, `setAskFor`, `mapAskFor` and the bounded
`mapAlreadyAskedFor`.

**CompactBlock.**  The message with differential positions, `InitData` with pool
and extra transactions and colliding ids, the request, the answer, `FillBlock`.

**ConnMan, MessageFlow.**  `vNodes`, `vNodesDisconnected`, reference counts,
`semOutbound` and the copies that the socket and message threads hold; `Stop`
joins the threads.  `MessageFlow` is one connection: both queues, `fPauseRecv`
and `fPauseSend`, the unfinished getdata, and a peer that sends and reads.

**AddrMan.**  The tables `vvNew` and `vvTried`, `mapInfo`, `vRandom`, the counters,
and `peers.dat`.

**CheckQueue, Scheduler, HttpServer.**  One action is one critical section of the
mutex.  Notifications wake a waiting thread and are lost when none waits;
spurious wake-ups are actions.  `Join`, `Resume` and `Report` are the three ways
to reach the head of `Loop` in the check queue, whose workers may be interrupted.
A scheduler's `Timeout` may come at any time after its deadline.  The HTTP
server's main thread interrupts the queue, waits for the workers, and deletes it.

**Script.**  One step executes one instruction of `EvalScript`; the scripts are
all sequences of instructions up to a length, in the three roles that
`VerifyScript` gives them.  Elements are small numbers or a hash.

**Wallet, CreateTx.**  `mapWallet` with the block of each transaction and its
cached credit, driven by pool and chain; and `CreateTransaction`, one action per
round of its loop, with all outcomes of its random choices.

**Merkle, LockedPool.**  The incremental computation of root, branch and mutation
flag, and the partial tree, on symbolic hashes; and the arenas with their maps
of used and free chunks.

`MC_*` modules give the constants.  A run that checks several parts is a sum: the
variable `part` is chosen at the start, only that part moves, and the others keep
their initial state.  The parts of a sum do not interact; the run is several
explorations in one.

## 3. What is checked

| Run | States | Shows |
|---|---|---|
| `structures` | 640,511 | the coins caches implement `UtxoStore`; the node starts after a crash at any point, and what is on disk holds together; a reindex is complete; Merkle trees, forks, compact blocks, scripts and arenas agree with their reference definitions |
| `chain_download` | 14,264 | two threads, blocks that arrive in any order and no RPC operations: the index is exact, every activation ends |
| `chain_forks` | 48,555 | one thread with pruning, invalidateblock, preciousblock, or invalidateblock and reconsiderblock: no failed block in the active chain, recent blocks kept; except with reconsiderblock, flags, candidates and unlinked blocks exact, best chain active |
| `money` | 285,844 | coins, supply, undo; pool, packages and estimator exact; wallet balances, offered coins and created transactions right |
| `peers` | 242,772 | downloads, relay, addresses and connections consistent whatever peers do |
| `node_progress` | 61,152 | check queue, rate loop, scheduler, HTTP server and mining: verdicts right, and everything ends that must |
| `net_progress` | 33,343 | the node catches up, obtains what was announced, deletes what was disconnected, answers what was asked |
| `chain_race_best`, `ledger_genesis`, `pool_frozen`, `pool_template`, `wallet_abandon` | violation | section 4 |

The properties, by part:

* *Coins*: `RefinesUtxoStore`, with crashes.  It is the whole contract: a flag
  that is wrong anywhere shows as a coin that is lost or comes back.
* *Disk*: `RestartSucceeds` (after crashes of the process, and as long as no write
  failed, the index refers to no missing file, the coins' best block is in the index,
  the last blocks can be read and undone) and `DiskHoldsTogether` (also against power
  loss: what the index names is synced, and the coins rest on indexed blocks).
  `ReindexComplete`.
* *Index*: `CheckBlockIndex` is the part of the code's own assertion that two
  threads keep; `ForkCheckBlockIndex` the part about flags, candidates and
  unlinked blocks; `ForkBestChainWhenIdle`, `ActiveChainSound`,
  `ActivationTerminates`; `ForkFound`.
* *Money*: `CoinsExact` (the coins are the unspent outputs, and a block's verdict
  does not depend on its order), `SupplyBounded`, `TipDisconnects`, `PoolSound`,
  `PackagesExact`, `EstimatorExact`, `CachedCreditExact`, `CoinsOfferedUnspent`,
  `CreatedTxBalances`.
* *Peers*: `DownloadsExact`, `RelayStateExact`, `AddrManExact`,
  `ConnectionsExact`; and in the end `CatchesUp`, `AnnouncedIsObtained`,
  `DisconnectedIsDeleted`, `AllAnswered`.
* *Threads*: `ResultExact`, `WaitReturns`, `TasksRunInTime`,
  `ServerServesAndStops`, `HashesAreBlocks`, `GenerateReturns`, `RateSound`.
* *Algorithms*: `PartialTreeRoundTrips`, `MutationDetected`, `HonestBlockRebuilt`,
  `ScriptStaysInBounds`, `MultisigExact`, `ArenasExact`.

`PROJECT.json` has for each of them a change of the model, of the kind a mistake
in the code would be, under which TLC finds it violated.

**Bounds.**  The block trees have a fork at the root, a second fork and branches
of different length, so that reorganisations to longer and equal chains, late
parents and failures in the middle of a branch occur; the branch that is pruned
has five blocks, of which `MinBlocksToKeep` are kept.  The ledger's transactions
are a chain, a conflict, a coinbase spend, a locked deposit with interest and its
withdrawal; each is connected and disconnected.  `WordSize` is the width of
heights, with `MEMPOOL_HEIGHT` the largest signed number as in the code.  On disk
there are two files of two blocks, so that a file is left, pruned and unlinked
while another fills (`LastFileNumber`, `BlocksPerFile`), and one crash
(`MaxCrashes`): after it the state is one that the next start begins with.  A
reindex reads the genesis block first and five other blocks in all 120 orders, with
a gap, and is stopped once.  The
Merkle lists have up to nine leaves, so that an odd level occurs at every depth of
three; the lists with repeated leaves have up to eight.  Branches grow to height
17, which is past the ten single steps of a locator and over several levels of
skip pointers.
Scripts of three instructions on prepared stacks reach every operation with too
few, enough and wrong arguments.  The pool's packages are a diamond with a tail
and a rival.  The estimator's buffer has two bins and three blocks, so that bins
are reused.  Two peers, one of which follows the protocol, are enough for a block
to be taken over, stalled and timed out; two addresses collide in "new" and two in
"tried"; connections are one outbound slot and two inbound with room for one, so
that eviction occurs.  The check queue has two workers, a failing check and
batches of up to two.  The HTTP queue holds one of three requests.  In mining
an epoch is three blocks, so that work crosses into the next one.
Counters such as `MaxSequenceId`, `MaxPrecious`, `MaxHeight`, `MaxDecays`,
`MaxTime`, `Horizon`, `MaxOthers` and `MaxRpc` are bounded in the guards.

Deadlock is not checked in the runs: each part ends when its blocks, transactions,
requests or time are used up.  Where threads might wait for each other the
liveness properties say that they do not.

**Fairness.**  Threads that are not blocked run and get the lock they ask for:
weak fairness of each thread's step (`CheckQueue`, `Scheduler`, `HttpServer`,
`ConnMan`, `Mining`, `BlockChain` inside `ActivateBestChain`).  Time passes
(`Scheduler`, `TxRequests`, the timeouts of `BlockDownload`), because it does.
Strong fairness is used twice: a `wait_until` past its deadline is not for ever
woken for another reason, and a search for a nonce that is started again and again
succeeds.  Of peers only those that are called honest or replying are fair, and
`MessageFlow`'s peer reads what it is sent; nothing is assumed of the others.
Arrivals, requests, spurious wake-ups, interruptions and crashes are never fair.

**Restrictions that the properties need.**  `SupplyBounded` bounds the money by
subsidies and the *declared* chain interest of the blocks, which is what
`ConnectBlock` compares; it does not say that the declared interest follows the
schedule output by output.  `RateSound` claims termination for at least ten units
left: `decayByOneTenth` is the identity below ten.  `CachedCreditExact` is checked
with `CalmReorgs` (no block goes away that wallet transactions conflict with), and
`ServerServesAndStops` with `CalmStop` (the server is stopped after its workers
have entered `Run`, and deleted when no request is being accepted).  `GenerateReturns`
excepts `Stranded`.  `Mining` is checked with one mining thread and `Scheduler` with
the one servicing thread that `init.cpp` starts.  `structures` does not look
beyond a failed write of the block index (`UpToFailure`), and `RestartSucceeds`
excepts what follows a full disk.  `RecentBlocksKept`, `CandidatesExact`,
`BestChainWhenIdle` and the clause of `UnlinkedExact` on pruned blocks speak of the
states in which no thread is inside `ActivateBestChain`.  Section 4 says
what happens without these restrictions.

## 4. Disagreements between the code and its comments

Five runs end in a counterexample to what a comment or an assertion of the code
says; `PROJECT.json` quotes the lines.

* `chain_race_best`: thread 1 has chosen its target and is between two steps;
  thread 2 activates a chain with more work; thread 1 goes on with its old
  target, disconnects the better chain down to it and stops there.
* `ledger_genesis`: `UndoCoinSpend` reads height 0 as "no metadata" and fails.
* `pool_frozen`: the depth of an output in the pool is negative, the comparison
  with its lock time is unsigned, so its spend is admitted; once the parent is
  in a block, the child is frozen.
* `pool_template`: a child in the same block as its parent has depth 0, which
  `confirmations <= nLockTime` refuses even for lock time 0.
* `wallet_abandon`: `AbandonTransaction` looks up the spenders of the first
  transaction at every turn, so the spenders of its spenders stay pending.

The same modules show more when the constants are changed.

* `ActiveChainSound` fails with two threads and `"invalidate"`: the stale target
  may be a block that was just invalidated.  With `"reconsider"`,
  `FailureHasCause` and `CandidatesExact` fail: `ResetBlockFailureFlags` clears an
  ancestor without clearing or re-inserting its other descendants
  (`validation.cpp:4581`, `:4587`).  `IndexConsistent`, a part of
  `CheckBlockIndex`, fails with `"invalidate"` (a block received under a failed
  parent is in no list, `:2962`) and with `"prune"` (pruning an unlinked block
  forgets it, `:3657`), against the assertion at `:4550`.  This is why `chain_forks`
  checks other parts of the assertion than `chain_download`.
* `CandidatesExact` fails with `"invalidate"` and `"precious"` together, with one
  thread and `MaxPrecious` 3.  `PreciousBlock` starts to count from -1 again when
  the tip has more work than at the last call (`validation.cpp:2766`).  If that tip
  is then invalidated and the old tip made precious, it gets a number that another
  block with as much work already has, and that block, which lost its place among
  the candidates long ago, sorts above the tip again.  This is why `chain_forks`
  has a part for each.
* In the middle of a reorganisation in which a block fails, the tip is for a moment
  lower than it was, and `RecentBlocksKept` does not hold.  Nor does it when blocks
  differ in work: the new tip may be lower for good than the one that was pruned
  under (every block of the instances has the same work).
* A flush that pruned files and then found no space for the coins leaves coins at a
  block whose data is gone; when the block is downloaded again it is stored without
  undo data, and after the next crash `VerifyDB` cannot undo it.
* `PoolPassesCheck` also fails when a block takes the chain into the next interest
  period while a deposit waits in the pool.
* After a failed write of the block index the dirty sets are already empty
  (`validation.cpp:2162`); a flush at shutdown then writes coins that rest on
  entries which never were written.
* `reindex` is cleared before the last part of the index is written
  (`init.cpp:990`): `ReindexComplete` speaks of the moment at which it is cleared.
* With two mining threads `HashesAreBlocks` fails: one thread writes nonce and mix
  while the block is read again for its hash.  `Stranded`: if other blocks move the
  chain into the next epoch before the dataset thread has looked at it, the
  dataset is never begun and `generate` does not return (`miner.cpp:811`,
  `:1068`).  `RunWorker`, `StopWorker` and `dispatchWork` are not called, and
  `maxtries` never ends `generate`.
* With two servicing threads `TasksRunInTime` fails: a thread whose wait has timed
  out takes the first entry without looking at its time (`scheduler.cpp:59`).
* Without `CalmStop` the queue may be deleted under workers that were not counted
  yet: `numThreads` counts those that have entered `Run` (`httpserver.cpp:131`).
* Without `CalmReorgs`, when a block goes away that conflicted with wallet
  transactions, the inputs of those that are pending again keep their cached
  credit (`wallet.cpp:1329`).
* Smaller ones that no module shows: `LockedPool::free` throws for a null pointer,
  and `mmap`'s result is compared with null; `DumpBanlist` reads the list and
  clears the dirty flag in separate critical sections (`net.cpp:407`); dust that
  goes to the fee may push it above `maxTxFee`; `getinterestinfo` prints the
  interest left in all periods as `currentPeriod.left` (`rpc/interest.cpp:83`).

## 5. What is proved

Eight modules hold proofs, all checked by TLAPS to the last step.

**CoinsCacheProofs**, for any sets of outpoints, coins and blocks, assuming only
that the spent coin and the null hash are not among them.  `IInv` is inductive:
the types, the meaning of the flags at both levels (`FreshMeansAbsentInParent`,
`CleanEqualsParent`), the shape of a closed view, and `NoLogicError`.  None of
the parts is inductive alone: that a merge into the tip keeps FRESH right needs
the flags of the view to be right.  The invariant is a statement about one
outpoint at a time (`IInvPointwise`), so the lemmas `PointAdd`, `PointSpend`,
`PointMerge` and their like treat one entry of each level, and `NextIInv` has
one step per action.  From it follow `TypeCorrect`, `FreshSound`, `CleanSound`,
`NeverThrows`, and `CacheRefinement`: under the mapping of section 2 every step
is a step of `UtxoStore` or changes nothing there.

**CheckQueueProofs**, for any finite number of workers and checks, any failing
checks and any positive batch size.  The invariant adds to the counters and
`NoCheckTwice` who holds a batch (`Holding`: exactly the threads that run or
report it) and what the verdicts mean (`Verdicts`: while `fAllOk` holds, every
failing check is still unfinished; a negative verdict has a failing check behind
it).  A thread reaches the head of the loop in three ways with the counters half
updated; `Ready` says what holds there, `HeadKeeps` shows that returning,
waiting and taking a batch all restore the invariant, and `JoinKeeps`,
`ResumeKeeps` and `ReportKeeps` establish `Ready`.  From it follow
`QueueTypeCorrect`, `QueueCounters`, `QueueNoCheckTwice`, `QueueResult` (Wait
returns the conjunction of the checks) and `QueueIdle` (the assertion in the
control's constructor holds).

**InterestProofs**, for every total and amount in the natural numbers.
`LoopInvariant` relates the two running totals of the decay loop; from it follow
`PeriodCorrect`, `TakenCorrect` and `LoopProgress`, the step-wise half of
termination.

**PeerProofs**, about `ConnMan`: for any finite set of connections and any number of slots.
`ConnInv` says where a node may be (`Places`), that its reference count is at least
the number of those who use it (`UsersCounted`: the list, or the thread that is
about to enter it there, and every copy of `vNodes` that holds it), and that free
slots, held slots and the slot of the opening thread add up (`Slots`).  The property
`ConnectionsExact` only says that nobody uses a deleted node and that no slot is
lost; it takes the count of the users to make that inductive.  There is a lemma per thread.

About `TxRelay`: for any peers and transactions, whatever they spend, and any
limit of the orphans.  `RelayStateExact` is inductive with the types and with
`rejectsTip <= tipNumber`.

**FlushRestartProofs**, for any finite tree of blocks, number and size of files, and
any number of crashes, power losses and full disks.  `DiskTreeAssumption` says that
every block descends from the first, in the form of an induction principle, which is
how a tree is a finite tree to the prover.  `DiskInv` is what the index, in memory and
in the database, may say of the files (`IndexFits`, `DataThere`, `Synced`), how far
memory is ahead of the database (`MemoryAhead`: everything that differs is in a dirty
set), what each step of a flush has done (`FlushInv`), where the coins may be, after
a power loss too (`CoinsInv`), and, without faults, that the blocks which `VerifyDB`
looks at can be undone (`FaultFree`).  A slot may be given out twice, because a crash
sets the counters back; that it is not the slot of an indexed block takes the
counters in the database to be beyond every slot that the database's index names.
From it follow `DiskSound` and `RestartSound`.

**BlockChainLemmas, BlockChainProofs, BestChainProofs**, for any finite tree of blocks with any
positive amounts of work, any order of addresses, and whatever blocks fail.
`TreeAssumption` gives the types, `DescentAssumption` the induction along the tree.
`BlockChainLemmas` has what the operators do: chains, heights and work in a tree; the
comparator of the candidates is a strict total order in which a block sorts above its
ancestors (`OrderFacts`); the loop of `ReceivedBlockTransactions` ends and links
exactly the blocks that waited (`StoreFacts`); the loop of `FindMostWorkChain` ends,
and marks and drops only blocks above one that has failed (`FindFacts`); what a step
of `ActivateBestChain` does (`StepFacts`, `ActivateFacts`).  Pruning is left out of
all of it: `IndexConsistent` fails with it.  `BaseInv` is inductive for any number
of threads and all other operations.  On it rest three theorems,
the last in `BestChainProofs`.

* `IndexSound`: for any number of threads, `CheckBlockIndex` and `ActiveChainSound`
  hold, if no call invalidates or reconsiders a block (with those they may fail,
  section 4).  `IndexInv` adds that flags are verdicts: a marked block has an ancestor
  that fails a check, an active block has none, and one that is not linked waits for
  its parent unless that one failed `ContextualCheckBlock`.
* `OneThreadChainSound`: with one thread, `ActiveChainSound` holds whatever is
  invalidated, reconsidered or made precious.  `ValidInv` says that the target, which
  the thread keeps between two steps, is free of flags like the tip.
* `BestChainActive`: with one thread, and calls that either invalidate blocks or make
  them precious (up to `MaxPrecious` times on one tip), `CandidatesExact` and
  `BestChainWhenIdle` hold (with calls of both kinds or with two threads they may
  fail, section 4).  Between steps the candidates are *not* exact: a step drops those
  that sort below the block it has reached, and a block above may yet fail.
  `BestInv` says what is true instead: every linked block without flags is a
  candidate or sorts below a candidate that no block will make fail (`Cover`), the
  candidates are no worse than the tip, and the target is the best of them.
  `PreciousInv` says that the number `PreciousBlock` gives out next is below those of
  all blocks with as much work as the tip.

**What the runs and the proofs share.**  Both checked by a run and proved are
`RefinesUtxoStore`, `ResultExact`, `ConnectionsExact`, `RelayStateExact`,
`RestartSucceeds`, `DiskHoldsTogether`, and, under the hypotheses above,
`CheckBlockIndex` and `ActiveChainSound`; `CandidatesExact` and `BestChainWhenIdle`
are conjuncts of what `chain_forks` checks, and `PeriodHoldsLeft` of `RateSound`.  The
parts of the invariants (`TypeOK`, `FreshMeansAbsentInParent`, `CleanEqualsParent`,
`NoLogicError`, `CountersExact`, `NoCheckTwice`, `ControlFindsQueueIdle`), and
`TakenWithinPeriod` and `TurnsLowerTarget`, are only proved.

## 6. What is only model-checked

* Everything that must eventually happen: `ActivationTerminates`, `WaitReturns`,
  `TasksRunInTime`, `ServerServesAndStops`, `GenerateReturns`, `CatchesUp`,
  `AnnouncedIsObtained`, `DisconnectedIsDeleted`, `AllAnswered`, and the termination
  in `RateSound`.  The prover has no rules for fairness.  `LoopProgress` is the
  step-wise half of one such argument.
* What a recursive operator computes: `Merkle` (`PartialTreeRoundTrips`,
  `MutationDetected`), `ChainWalk` (`ForkFound`), `CompactBlock`
  (`HonestBlockRebuilt`) and `Script` (`ScriptStaysInBounds`, `MultisigExact`).  The
  prover's SMT backend does not accept modules with `RECURSIVE`.  Recursive functions
  can be reasoned about, as in `BlockChain` and `FlushRestart`, where an assumption
  states the induction for the tree; sums over transactions and coins (`SupplyBounded`,
  `CoinsExact`, `TipDisconnects`, `CreatedTxBalances`, `PackagesExact`) would need it
  for each of the folds that they use.
* With pruning: `ForkCheckBlockIndex`, `ForkBestChainWhenIdle` and `RecentBlocksKept`;
  with reconsidered blocks, nothing but `ActiveChainSound` is claimed at all.
* `ReindexComplete`, `ArenasExact`, `PoolSound`, `EstimatorExact`,
  `CachedCreditExact`, `CoinsOfferedUnspent`, `DownloadsExact`, `AddrManExact` and
  `HashesAreBlocks`: they are checked on the instances of section 3 and hold there;
  nothing is claimed beyond these bounds.

## 7. What is not modelled

* *Proof of work and difficulty, version bits, keys and signatures, serialisation*:
  pure functions of data, most of them on 256-bit numbers or bytes.  Their
  verdicts are constants or free choices of the modules that use them.
* *Signature and script caches*: they may forget anything, and nobody relies on them.
* *Wallet storage, encryption, accounts; RPC, REST and ZMQ; options and the order of
  initialisation; the DNS seeder; Tor, UPnP and the ban
  list*: formatting, parsing and I/O around operations that are modelled.
* *Vendored libraries* (leveldb, secp256k1, univalue): used through their interfaces.

Of the parts that are modelled the following is left out.  Index: `RewindBlockIndex`,
`pindexBestHeader`, `pindexBestInvalid`.  Blocks: BIP30, sigop counts.  Disk: failing
reads, and what follows a failed index write.  Interest: the
floating-point product of rate and principal.  Pool: lock points, `mempool.dat`.
Template: the choice by score and the size limits.  Script: encodings, lock-time
operations, most disabled operations.  Download: header-sync timeouts and the choice
of peers for compact announcements.  Relay: bloom and fee filters.  Addresses:
`Attempt`, `Connected`, `SetServices`.  Connections: DNS seeds, choice of addresses.
HTTP: dispatch by URI.  Wallet: deposits' interest.

The mapped lines are about a tenth of the C++ under `src/`.  Much of the rest is
vendored code, RPC argument handling, encodings and tests of
data formats, which have no state machine to model; the larger pieces that would
still repay modelling are the wallet's encryption and key pool, the ban list,
`RewindBlockIndex` and the start-up sequence.
