# A TLA+ model of the Fusion node (efsn)

efsn is Fusion's fork of go-ethereum.  It adds assets, time-locked balances,
swaps and short account numbers to the world state, and replaces proof of work
by DaTong, a proof of stake in which FSN is locked in *tickets*.  This
directory models those parts and the machinery around them that carries blocks
and transactions, checks the models with TLC and proves the main invariants
with TLAPS.  `PROJECT.json` gives, for every definition, the lines of source it
stands for, and for every hazard the property that would catch it.

## The system

| part | state | operations | interacts with |
|---|---|---|---|
| time locks (`common/timelock.go`) | sequences of items (start, end, value) | `Add`, `Sub`, `Cmp`, `ClearExpired` | every FSN call |
| accounts (`core/state/state_object.go`) | free and time-locked balance per asset | credits and debits | calls, block end |
| StateDB (`core/state/statedb.go`, `journal.go`) | accounts, journal, snapshots, tickets | setters, `Snapshot`, `RevertToSnapshot`, `Finalise` | EVM, miner, calls |
| trie database (`trie/database.go`) | cached nodes with counts, flush-list, disk | `insert`, `Reference`, `Dereference`, `Cap`, `Commit` | chain |
| asset calls, notations, swaps, multi swaps (`core/state_transition.go`) | records beside the balances | one call each | accounts, clock |
| tickets (`common/ticket.go`, `statedb.go`) | the set of tickets, ring of recent sets | `BuyTicket`, `AddTicket`, `UpdateTickets` | accounts, consensus |
| DaTong (`consensus/datong`) | headers, snapshot in `Extra` | `Prepare`, `Finalize`, `Seal`, `verifyHeader` | tickets, clock |
| Clique (`consensus/clique`) | signers, votes, tally, recent signers | `apply`, `Prepare`, `Seal`, proposals | chain |
| state transition, validator (`core/`) | gas, nonces, receipts | `TransitionDb`, `Process`, `ValidateBody` | calls, EVM, miner |
| transaction pool (`core/tx_pool.go`) | pending, queue, price heap | `add`, promotion, demotion, limits, `reset` | chain head, miner |
| miner (`miner/worker.go`) | current work, pending tasks | four loops around channels | pool, engine, chain |
| chain (`core/blockchain.go`, `headerchain.go`) | blocks, canonical numbers, heads, states | insertion, reorganisation, `SetHead`, `Stop` | all of the above |
| fetcher, downloader (`eth/`) | announcements, tasks, results | announce, fetch, fill, deliver, expire | peers, chain |
| event feed (`event/feed.go`) | subscriptions | `Subscribe`, `Unsubscribe`, `Send` | pool, miner, chain |

What is hard here:

* time locks are interval arithmetic on `uint64` with merging, and every call
  that spends one trusts `Cmp`;
* balances are `big.Int` and are debited without a check, so every call has to
  have checked before, also when sender and receiver coincide;
* swaps are taken in parts, while time eats into the range they offer; a multi
  swap checks all legs on copies and then deducts them one by one;
* the stake of a ticket leaves an account in a transaction and comes back at
  the end of some later block, by another clock than the one it expires by;
* snapshots nest, and entries of the journal have to undo creations, resets and
  suicides in the right order; tickets and balance rows are not journalled;
* the ring of ticket sets is copied, lock included, while others write it, and
  DaTong's list of parents is a global that importers and checkers share;
* the chain writes its indices one by one, and a crash can fall between them;
* goroutines of miner, fetcher, downloader and feed meet over channels, timers
  and locks.

## The modules

| module | models | state | actions or operators |
|---|---|---|---|
| `LockValue` | what a time lock means: a value for every instant | none | `Plus`, `Minus`, `Covers`, `Expire` |
| `TimeLockItems` | items and sequences of items | none | `ItemAdd`, `ItemSub`, `appendAndMergeItem`, `ClearExpired` |
| `TimeLockAdd`, `TimeLockSub` | `TimeLock.Add`; `Cmp`, `Sub` and storing the result | arguments, indices, locals, result | one action per way round each loop |
| `Accounts` | balances of the world state | `balance`, `lock`, `timestamp` | credits and debits, `NewBlock` |
| `Assets` | asset calls | `assets` | one action per call and kind of time lock |
| `Notation` | short account numbers | `notation`, `lookup`, `count` | `GenNotation`, transfer |
| `Swaps`, `MultiSwaps` | swap calls, on top of `Assets` | `swaps` | make, recall, take |
| `Tickets` | purchases and DaTong's end of a block | `tickets`, `parentTickets`, `minted` | `BuyTicket`, `Finalize` |
| `Journal` | StateDB with its journal and snapshots | `db`, `revisions`, `reverting`, `stored` | setters, reads, `Snapshot`, revert entry by entry, `Finalise` |
| `TrieDatabase` | the cache of trie nodes and the disk below it | `db`, `disk`, `live` | insert, dereference, `Cap`, `Commit` batch by batch, crash |
| `StateTransition` | a block packed by the worker and imported by a node | `parent`, `cur`, `packed`, `header` | `StartBlock`, `commitTransaction`, `commit`, a foreign block, `InsertBlock` |
| `BlockImport` | the same, under names that can stand beside fetcher and downloader | of `StateTransition` | of `StateTransition` |
| `TxPool` | the pool | `pool`, `chain` | `AddTxs`, new heads with forks, `SetGasPrice`, eviction |
| `Worker` | the miner's loops | channels, timer, tasks, seals | one action per `select` case or blocking step |
| `FifoCache`, `TicketCache` | what a cache promises; the ring that implements it | the ring and where each goroutine is | copy, `Get`, `Add` word by word |
| `TicketReplay` | where `getAllTickets` finds a set | `blocks`, `states`, `head` | new block, pruning, crash, re-import |
| `BlockTime` | block times, delays and places in the list | clocks and timers of miners, tickets left | start of work, no ticket, resubmit, purchase, seal, stop, start, tick |
| `HeaderCheck` | the parent a header is checked against | `glb_parents`, importers, checkers, blocks and states | each read and write of the global, each way on or out of `insertChain` |
| `DaTong` | the two, side by side | of both | of both |
| `BlockChain` | blocks, canonical numbers, heads and states | disk and memory apart | imports, mined blocks, reorganisation write by write, `SetHead`, stop, crash, start |
| `Clique` | voting, signing and a node from a checkpoint | `snap`, `light`, one signing node | new header, `Propose`, `Discard`, `Authorize`, `Prepare`, `Seal` |
| `Sharing` | feed and ring side by side | of both | of both |
| `Feed` | the feed | `inbox`, `sendCases`, `sendLock`, ghosts | each step of `Send`, `Subscribe`, `Unsubscribe` |
| `Fetcher` | the loop of the fetcher | announcements, timers, queue, imports | one action per event of the loop |
| `DownloadQueue`, `Downloader` | bodies and receipts; headers, with the queue beside them | task pools, requests, results | schedule, reserve, deliver, expire, revoke, results |
| `MC...` | instances for TLC | | |
| `...Proofs` | theorems | | |

**Two levels of time lock.**  `TimeLockAdd` and `TimeLockSub` work on item
sequences, with the code's indices, flags and `uint64` wrap-around.  The run
`assets` shows that the result *means* `Plus` and `Minus` of the meanings, and that `Cmp`
decides `Covers`.  The ledger modules then use the meanings: a time lock is a
function from instants to values.  `ClearExpired` keeps an item as long as its
end is not past, so `Expire` keeps a stretch of equal value that reaches the
timestamp.

**Ledger modules.**  An FSN call whose checks fail returns before its first
write to the ledger, so it is not a step there; its log, fee and nonce are in
`StateTransition`.  The exceptions are modelled: `TakeSwap` moves the price
before `TransferNotation` may fail, `BuyTicket` pays before `AddTicket` may
fail, and a multi swap deducts leg by leg.  A take of a multi swap with more
time-locked legs to pay than legs to give indexes past a slice that was made too
short; the process ends there (`TakeMultiSwapPanics`), with nothing written.
The pool has the same loop and would panic first; the model has the call come
from a block.  The time a call sees is the parent
block's, except in `TimeLockToAsset`, which asks the clock of the node;
`ClockLead` bounds how far that clock is ahead.  Hashes (ids of assets, swaps,
tickets) are fresh values; the order of owners that DaTong derives from hashes
is any order.

**Journal.**  Balances, time locks and cells are values from a small set: only
what is restored matters.  What the journal does not cover (rows, tickets) is
kept in fields of its own.  `hist`, and the worlds inside `revisions`, are
history variables: no action reads them.  The entries that `Suicide` makes are
one entry of the model, because no snapshot can fall between them.  When an
account has no rows at all, `Suicide` makes no entry; `opSuicide` has read the
balance before, which makes a row, so the case does not arise.
Undoing a suicide leaves a nil balance for an asset of which the account had
only a time lock (`UndoRows`).  That takes a second asset, which the run does
not have; the proofs do.

**Blocks.**  In `StateTransition` an FSN call is reduced to what the block
machinery tells apart: it pays, buys a ticket, or fails before or after its
first write, by a reading that leaves a row or by the node's clock.  The worker
reverts a transaction that fails and leaves it out; the importer has to come to
the state in the header.  `header.clean` says that nothing the journal does not
restore is left behind (`Residue`): no ticket of a transaction that was left
out, and no row of an account that the block touches.  The miner is one of
those: it is paid at the end of every block, which brings its rows into the
root.  A foreign block packs what it likes, so validation is exercised on blocks
no worker would make.

**Chain.**  `BlockChain` keeps disk and memory apart.  One database write is
one step, so that a crash can fall between any two of them; mining runs beside
an import.  The code itself leaves states it does not repair, which the history
variable `scars` records: "torn" after a crash between the writes of a
reorganisation, "orphans" after a `SetHead` below a fork whose blocks stay
stored above deleted ancestors.  `CanonicalIsAncestry` and `HeadHasState` except
just these.  A panic while ancestors without state are verified is a crash
(`VerifyPanics`).  `BlockChainAssumption` says that a chain that is not heavier
is not longer by `triesInMemory`, without which a state still needed would be
dropped.

**DaTong.**  `BlockTime` works with times relative to the parent.  Times of
headers are in seconds; clocks, delays and timers have `Second` units to the
second, because the delays of `calcDelayTime` are fractions of one.  A miner
without a ticket does not mine (`ErrNoTicket`), and a block that would leave one
ticket at most waits for a purchase, which `supply` keeps track of.
`HeaderCheck` models the global slice as two words read and written separately.
An importer goes through all of `insertChain`: the check may find a block known,
of the future, without ancestor, on a pruned one or wrong, and an import may
fail at any point and gives up the lock for the import of pruned ancestors,
which is a call by another importer.  The miner writes blocks beside it.
`TicketReplay` keeps sets as rows in the order of
the code, because the hash in the header covers the order.

**Ticket cache.**  A Go value receiver copies the ring without the lock.  Each
word of the copy is one of the values the word had while the copy was made, and
a slice of several words may come out mixed (`Torn`).

**Clique.**  A snapshot is a function of the headers before it, so one branch is
enough; caches of snapshots and signatures only shorten the way to it.  Other
signers run the same code, and nobody proposes the zero address.

**Composition.**  `Swaps` and `MultiSwaps` extend the ledger of `Assets`;
`StateTransition` composes worker, processor and validator; `BlockChain`
composes import, mining and storage.  The remaining interactions cross narrow
interfaces, at which each model takes any input the other side can give: `Worker`
takes any new head, `TxPool` any next chain and any state of it, `Fetcher` a
chain that others extend.

## The runs

| run | question | properties | distinct states |
|---|---|---|---|
| `assets` | do the asset calls conserve value; is `Add` the sum at every instant; does `Cmp` decide coverage and `Sub` take exactly the need? | `NonNegative`, `AssetsConserved`, `StepIsTransfer`, `AddIsPointwiseSum`, `SpendIsExact` | 879,000 |
| `swaps` | do swaps and multi swaps conserve value and pay the maker? | `AllConserved`, `NotationOwned`, `OwnerMadeWhole` | 157,000 |
| `tickets` | is stake neither made nor lost? | `NoInflation`, `DrawnTicketsExist`, `StakeIsKept` | 304,000 |
| `journal` | does reverting restore the accounts; does the trie database keep states whole? | `StoredIsCurrent`, `RevertRestores`, `StatesAreWhole` | 379,000 |
| `sharing` | is the ring a FIFO cache; does replay find the rows a header commits to; does the feed serve every subscriber once? | `HoldsTheLatest`, `QuietGetIsExact`, `ReplayFindsTheSet`, `ServedOnce`, `NothingAfter` | 223,000 |
| `chain` | is the chain coherent through forks, crashes and rewinds; are headers, times and votes judged as the sealer meant them? | `CanonicalIsAncestry`, `HeadHasState`, `LinkedIsAccepted`, `NotOvertaken`, `SealedIsValid`, `EnoughCanSign`, `TallyIsVotes`, `LightAgrees`, `MajorityChanges` | 1,616,000 |
| `traffic` | is what arrives, transactions, blocks and headers, judged alike, taken once and in order? | `SupplyIsExact`, `MinedIsAccepted`, `OnePurchase`, `PendingIsReady`, `FetchedOnce`, `AllInOnePlace`, `NoLostWakeup`, `GivenInOrder` | 582,000 |
| `progress` | what happens at last? | `OneBlockPerParent`, `BestIsAdopted`, `HeadIsWorkedOn`, `ChainGrows` | 308,000 |
| `journal_tickets` | does reverting restore the tickets? (it does not) | `RevertRestoresTickets` | |
| `journal_rows` | does it restore the rows? (it does not) | `RevertRestoresRows` | |
| `ticket_purchases` | can a block have two purchases of one account? (it can) | `OnePurchasePerBlock` | |
| `pool_purchases` | is what is pending processable, purchases included? (it is not) | `PurchasesProcessable` | |

**Side by side.**  A run with several models has a variable `part`, chosen at
the start, that says which of them moves; the others stay in their first state.
The models share no variable, so nothing is lost by not interleaving them, and
each property speaks of its own part.

Every property of a passing run has a mutant in `PROJECT.json`: a change of one
definition, of the kind a slip in the code would be, under which TLC finds the
property violated.

**Refinement.**  `FifoCache` says what a cache of ticket sets promises: the last
additions, as many as fit, oldest first.  `TicketCache` maps the slots between
`start` and `end` to it, counting a slot as dropped from the moment `Add` has
moved `end` onto it; `HoldsTheLatest` is the abstract specification under this
mapping.

**Disagreements with the comments.**  `RevertToSnapshot` "reverts all state
changes made since the given revision"; tickets have no journal entry, and
reading a balance appends a row to the account that stays.
`ValidateRawTransaction` is to "check in single block each account can buy only
one ticket"; when a purchase's parameters fail their check the loop ends with
`return nil`, and later purchases of the block are not looked at.  The pending
transactions of the pool are "all currently processable transactions"; when a
fork removes the block of a purchase, the purchase comes back, is promoted, and
is then dropped by `demoteUnexecutables`, which finds a purchase of the account
pending: the same one.  With nothing left pending the virtual nonce is not set
back, and transactions after the purchase are promoted above the gap.

**Exceptions written into properties.**  Each is what the code does:

* `SpendIsExact`: a balance with an item that ends at instant 0, which `Cmp`
  mistakes for "no item yet"; block times are far from 0.
* `MinedIsAccepted`: blocks touched by what the journal does not restore, and
  importers whose clock is behind the miner's.
* `QuietGetIsExact` speaks of a `Get` that no `Add` overlaps, and
  `LinkedIsAccepted`, for single checks, of those that no import overlaps.
* `ReplayFindsTheSet`: a ticket that expires between the parent's time, by which
  `Finalize` clears, and the block's own, by which `getAllTickets` clears.
  Also an owner whose last ticket was cleared and who buys again within the
  blocks replayed: the row comes back at the end of the list, while the replay,
  which clears only at its end, leaves it where it was, and the hash covers the
  order.  In both cases the hash does not match and there is an error, never a
  wrong set.
* `PendingIsReady`: with purchases (part "tickets") only that nonces are not old
  and costs can be paid; gaps are the disagreement of `pool_purchases`.
* `NotOvertaken`: a parent that had to wait for a purchase; its header has the
  time of the first attempt, so everybody's delay is over at once.
* `ChainGrows` assumes an owner of a ticket that keeps running, and that somebody
  buys when the last ticket is left: "wait buy ticket" in `Finalize` is a stop
  until then.
* `AllConserved`: a multi swap stops with the process at the index out of range
  above.
* `HeadIsWorkedOn`: `Jammed`, where the adjustment channel is full and
  `newWorkLoop` and `mainLoop` wait for each other.
* `OneBlockPerParent`: a second block that is out of date when it is written.

**Bounds.**  *Time locks*: five instants, so that items before, at, between and
after each other and the timestamp, and the end of time, where `uint64` wraps,
all occur; up to three items, so that a merge can have a gap, a contact and an
overlap in one pass; all pairs are tried.  *Ledger*: three accounts in `assets`,
so that a call has a bystander, two elsewhere; two assets of
two units (four in multi swaps), three swaps, one of which can be a notation's;
offers with free and time-locked legs on either side, in one or two lots.
*Tickets*: three owners, so that there is a winner, a first and a second ticket
passed over, and blocks enough for a ticket to be bought, drawn, returned and to
expire.  *Journal*: an account that does not exist and a contract with free and
time-locked FSN, three entries and two snapshots at a time, so that a creation,
a payment and a suicide fit inside nested snapshots.  *Trie*: two roots that
share a leaf with a storage trie, one of them twice, so that counts differ from
sets.  *Sharing*: two goroutines and three slots, so that the ring wraps
under a reader; three blocks with purchases, draws and an expiry, on rows whose
first owner may lose the row and get another; two channels
that subscribe twice and two senders.  *Chain*:
a branch of three blocks, a fork at genesis that overtakes it and a mined block,
states kept for two blocks, one crash at any write, one rewind.  *Headers*: two
blocks, imported one by one or together by two importers, and one checker.
*Clique*: four
signers over seven blocks with a checkpoint, and a node with two signers, three
accounts and an epoch of three.  *Times*: three miners; in `chain` a scaled-down
network in half seconds, with a period of 6 seconds and a longest delay of 8
that the third place reaches; in `progress` the period of the main net, in whole
seconds.  A wait for a purchase or for a miner to start is followed up to
`MaxIdle`, beyond the longest delay.  *Traffic*: pools of one or two accounts with three nonces and
limits of one to three; every way through `TransitionDb` in two blocks; a valid
block and an invalid one on it; four blocks through a cache of three; three
batches in skeletons of two.  Smaller bounds lose these cases; larger ones take
TLC beyond minutes.  Accounts are symmetric in `assets`, swap ids in `swaps`,
goroutines and hashes in `sharing` and miners in `chain`, which have no liveness
property.

**Fairness.**  Only `progress` has liveness properties.  *Worker*: goroutines
that can go on do (weak fairness of each loop); a `select` whose case is ready
again and again takes it at last, because Go chooses at random among the ready
cases (strong fairness of new heads, adjustments and taking a request).
Neither sealing nor imports are fair.  *Chain*: the holder of the lock and an
importer go on, a node that is down is started again, and peers go on offering
the heaviest chain (strong fairness, because a crash or another import may
disable an offer).  Mining, stopping and crashes are not fair; there is no
`SetHead`.  *Times*: time passes and a running miner works and resubmits, as the
recommit timer of `newWorkLoop` makes it do; nobody has to stop, to start or to
buy.

**Deadlock.**  It is not checked, because in every run a part ends by itself:
functions stop when they are done, bounded chains, purchases and sends end,
synchronisations finish, and goroutines may wait for ever on a lock they copied
(`TicketCache`).  That the worker's loops do not wait for each other is part of
`HeadIsWorkedOn`; that the downloader's processor does not sleep on results is
`NoLostWakeup`.

## What is proved

For every set of accounts and assets, every amount, every end of time and every
bound:

| theorem | says |
|---|---|
| `AssetsTypeCorrect`, `AssetsNeverNegative` | asset calls keep the state typed and no balance or time lock negative |
| `AssetsTransferOnly` | every asset call is a transfer between at most two accounts, exact at every instant ahead |
| `FixedStayFixed` | an asset that cannot change does not |
| `AssetsAlwaysConserved` | all accounts together have the recorded total of every asset, at every instant ahead |
| `SwapsTypeCorrect`, `SwapsNeverNegative` | the same for swap calls, with conversions and self-takes |
| `NotationsOwned`, `NotationsNew` | a notation resolves to its holder; the next one is new |
| `SwapsAlwaysConserved` | accounts and escrows together have the recorded total, whatever is made, taken in parts or recalled |
| `MakersMadeWhole` | no lot leaves an escrow without its maker getting the price, or the lot |
| `TicketsTypeCorrect`, `TicketsNeverNegative` | the same for purchases and block ends |
| `DrawnTicketsStay` | tickets drawn from the parent's set are in the state when the block ends |
| `StakesAreKept` | a block takes from one account at most, and at most the price of a ticket; a purchase takes nothing |
| `NothingInflated` | balances, time locks and tickets never exceed the genesis supply and the rewards |
| `JournalTypeCorrect`, `SnapshotsNest` | StateDB stays typed; snapshots are a stack over the journal |
| `RevertIsExact` | reverting restores accounts, refund and logs exactly |
| `StoredAlways` | what the trie is missing is marked dirty, also after reverts |
| `OneCaseAlways`, `NothingSentAfter` | a subscribed channel has one case; nothing is sent after `Unsubscribe` |
| `ServedAlways` | a `Send` serves every subscriber that stays exactly once, and counts them |
| `RingIsFifo` | the ring of ticket sets, of any size, implements the first-in-first-out cache |
| `QuietGetsAreExact` | a `Get` that no `Add` overlapped answers with what the ring holds |
| `TallyAlways`, `SealAgreesAlways` | the tally counts the standing votes; `Seal` goes on for exactly those that `apply` accepts |
| `EnoughAlways` | at least half of the signers may sign the next block |
| `MajorityAlways` | signers change one at a time, by more than half of them |
| `LightAgreesAlways`, `SealedAlways` | with one key: a node that began at a checkpoint agrees with a full one; what the worker seals would pass `verifyHeader` |
| `SealedAlwaysValid` | the time of a sealed DaTong block is legal for its place |
| `NeverOvertaken`, `MainNetInGoodTime` | a miner further down the list does not seal before one that runs, unless the parent waited for a purchase; on the main net that takes a latency below 2.4 seconds |
| `LinkedAlwaysAccepted` | an import is not refused a block whose parent it has, nor a check that no import overlaps, however importers and checkers share `glb_parents` and wherever imports fail |
| `AlwaysGivenInOrder` | the header processor is given the batches of the chain in order, each once |
| `AlwaysInOnePlace` | each part of a scheduled block, and each batch of a skeleton, is queued, asked of one peer or done |
| `NeverLostWakeup` | the downloader's processor does not sleep while there are results |
| `AlwaysFetchedOnce` | the fetcher queues and imports a block once at a time, counts it, and has a timer set for what waits |
| `AlwaysExactSupply` | accepted blocks leave the genesis supply and one reward each, whatever their transactions do |
| `MinedIsAlwaysAccepted` | an importer whose clock is not behind accepts the worker's block, if nothing is left behind |

Assumptions are the named `ASSUME`s of the modules: constants have their types,
accounts, swap ids and genesis tickets are finite sets, genesis balances are
natural numbers and add up to the recorded totals, genesis tickets have one
owner and different numbers, check digits are two digits, channels have room for one
value, an epoch and a word are positive, block numbers do not wrap (`MaxBlocks`
below `Word`), and the ring has more than one slot; miners, peers and hashes are
finite, `NoPeer` is no peer, a period is longer than 4 seconds, the blocks behind
`Spans` took `MinBlockTime` each, batches of headers are linked, blocks have the
number after their parent's, and a transaction burns no more gas than it has
and waits in the pool under its sender.  Three theorems have a
hypothesis of their own: one key (`LightAgreesAlways`, `SealedAlways`) and
`InGoodTime` (`NeverOvertaken`).

The theorems are in eight modules: `AccountsProofs` (credits, debits, sums),
`CallsProofs` (assets and tickets), `SwapsProofs`, `NodeProofs` (journal and
fetcher), `SharingProofs` (feed and ring), `ConsensusProofs` (Clique and DaTong),
`SyncProofs` (downloader) and `BlockImportProofs` (execution).

*Assets, swaps, tickets.*  The inductive invariants (`AssetsInv`, `SwapsInv`
with `NotationInv`, `TicketsInv`) say that amounts are natural numbers, where
the type invariant only says integers: a debit is safe because its guard
compared with a natural number.  `AccountsProofs` has the lemmas on credits and
debits: `SubTimeLockBalanceNat` needs `Covers`, which is what `Cmp` decides.
Swaps need in addition that a live swap has an owner and a price in a real
asset.  Notations need `NotationOwned` and `NextIsNew` together: a new notation
must not overwrite an entry in use, and displayed notations differ because
there are two check digits.  Tickets need that no ticket is of a later block,
so that a purchase cannot collide with one.

*Transfers.*  `AssetsTransferOnly` is an action property.  Each call moves a
lock function between two accounts; the lemmas `...Transfer` compute both sides
at one instant.

*Sums.*  `AssetsConserved`, `SwapsConserved` and `NoInflation` add up over all
accounts, with the `SumFunction` of the community modules.  `AccountsProofs` has
what is needed of it: that the fold it is defined by exists (`SumsExist`), that
a sum of integers is one, and what changing one or two terms does to it
(`SumChange`, `SumChangeTwo`).  They are proved by induction on the size of the
domain, written as the choice of a least counterexample (`LeastNat`), because
the induction theorems of the library are out of the provers' reach.  With
them, `AssetsConserved` follows from `StepIsTransfer`.

*Swaps.*  `SwapsProofs` compares, at one instant, what all accounts have
with what all escrows hold.  A call is a few payments into and out of accounts
(`Gets`), each of which changes one term of the first sum; making, taking and
recalling change one term of the second by as much (`Balanced`).  A conversion
of free money to a time lock changes neither (`ToppedKeeps`).  `MakersMadeWhole`
needs in addition that a live swap has lots left (`LotsInv`), and looks at the
same payments from the maker's side, also when the maker is the taker.

*Stake.*  What an account has in tickets is the price times the number of its
tickets that have not expired at the instant (`Held`); buying adds one, the end
of a block takes away the ones used up, of which an owner has one at most
(`ListEntries`).  `NoInflation` adds this up over the accounts.

*Journal.*  `RevertRestores` is not inductive: it speaks of the end of a loop.
`JournalInv` says that undoing entry i from world i+1 of the history gives world
i (`ChainInv`), and that a snapshot marks the world at its index.  Every setter
appends one entry and one world for which this is true; undoing drops both.
`StoredIsCurrent` is about the present only and says nothing of what a revert
brings back.  Its invariant says the same of every world of the history: what
the entries before it do not mark was in the trie then (`Tracks`), except just
after an entry that replaces an object and does not mark it; no snapshot is
taken there (`Settled`).

*Feed.*  `NothingAfter` needs to know where a channel's case is: in the inbox or
among the cases, once, exactly while it is subscribed, also while `Unsubscribe`
waits to hand it to a send, and that the first `active` cases are what the send
has left.  `ServedOnce` needs what these are (`OnceInv`): the channels that are
due, have not left and have not been served, so that a swap of two cases or a
removal in the middle of a send loses nobody and serves nobody twice.

*Ring.*  The ring changes hands in five writes, and the cache in one step, the
write of `end`: until then the new entry is in a slot that nobody visits, and
between `end` and `start` the oldest entry is already dropped (`First`).  The
invariant says that one goroutine writes at a time and what it has written
(`WriterInv`), that a slot in use has the tickets of its hash (`PairsInv`), and
that a copy in progress has seen the lock as it is now (`CopyInv`).  The lemmas
about `Dist` and `Place` replace remainders by a case distinction, once around
the ring.

*Clique.*  The tally is kept incrementally, so the invariant relates it to the
set of votes: one vote per signer and account, each counted, none of an account
that is no signer any more.  `EnoughAlways` needs that the recent signers are
those of the last blocks of the window, one per block; the window shrinks with
the set of signers.  `LightAgrees` is proved from `LightInv`: the light node's
snapshot is the full one without the recent signers from before its checkpoint,
so that a header that a full node accepts passes it too, and every header that
goes in is one that passes `verifyHeader`.  The last is an assumption on what the
worker seals, which the chain writes without verifying it: with two keys, a
header prepared for one and sealed with the other has the difficulty of the
wrong signer.  With one key it cannot happen, and `SealedAlways` says so.

*Block times.*  `TimesInv` says of each miner that its header has a legal time
and that it seals before its time is over, where there are tickets enough;
`SupplyInv` says that they can be short only with one owner at most, who has the
list to itself.  For `NotOvertaken` the parent's miner may
already have been late by its delay, so the worst case is two delays and a
latency in a row; they have to end before the time of the second place
(`InGoodTime`), and so does a first miner that waits for `MinBlockTime`.  The
steering of `calcDelayTime` is a quotient of the time of the last blocks, and
with the numbers of the main net it is 0.8 seconds at most
(`MainNetInGoodTime`).

*Headers.*  `HeadersInv`: whoever holds `chainmu` has the parents of its own
batch in `glb_parents` where it reads them, and the slice is empty wherever
`insertChain` may return or give up the lock; a check that no import overlaps
therefore sees it empty.  `Process` looks the parent up again, so the invariant
keeps that a lookup which succeeded would succeed again (`Linked`), also while
the lock is given up.

*Headers of a synchronisation.*  `OrderInv` says that what the processor has had
and what is in the channel make a run of batches from the first one to the last
that left early.  `FillInv` says that the batches of the skeleton are each queued,
asked of one peer or filled, and nothing else is.

*Parts of blocks.*  `PartsInv` gives a part of an open block its place, and says
that the slot of a block counts the parts it misses, so that it is zero just
when all are done, and that slots are given without gaps; that is what
`Results` relies on when it takes from the front.  A reservation takes any
set of blocks that fit, in order; the blocks it puts back are those it took and
did not use.

*Fetcher.*  `FetcherInv` adds up, for each hash, the entries in the queue, the
imports and the reports: together one if the hash is known as queued, none if
not.  The turn of the loop that hands bodies to `enqueue` does so in any order
the limits allow; the model gives the set that comes out, not the order.

*Execution.*  `SupplyInv` says that the importer starts from the parent and
counts what a world holds (`Holdings`): `buyGas`, the value, the call, the refund and
the fee are each a credit or a debit of one account.  `Process` is a recursive function of
the position in the block, so the facts about it are proved by the choice of a
least position at which they fail.  For `MinedIsAccepted`, `MinedInv` says that the
worker is where an importer of what it has packed would be (`Packs`): the same
balances and nonces, the same gas left and used, and among its tickets those
bought in the block.  A transaction that is left out is reverted, which restores
accounts but not rows or tickets; a clean header has none of these left, and
then commits to what the importer comes to (`Seals`), also when the importer's
clock is ahead.  The first attempt at this proof failed where the miner's row
is left behind by a call of its own that is left out, while no packed
transaction touches the miner: its reward still brings the row into the root.
TLC found the block once such a transaction was offered, and `Residue` now
counts the miner among the accounts that the block touches.

**Only model-checked.**  The loops of the time locks (`AddIsPointwiseSum`,
`SpendIsExact`), whose invariants are about every prefix of a merge; multi swaps
(`AllConserved` of them), which deduct a sequence of legs; the trie database
(`StatesAreWhole`), where what is kept is what can be reached along references;
the replay of ticket sets (`ReplayFindsTheSet`); the chain (`CanonicalIsAncestry`,
`HeadHasState`), with its ancestry of any length; the pool (`OnePurchase`,
`PendingIsReady`), which uses recursive operators, as the code's lists ask for;
the worker (`OneBlockPerParent`).  Most of these are inductions over data, which
the provers do not do; a least counterexample stands in for one where there is a
number to choose it by, and was not carried through for these.  `SealedIsValid` is
checked as one property of both engines and proved as two, for Clique with one
key.  Liveness (`BestIsAdopted`, `HeadIsWorkedOn`, `ChainGrows`) is out of the
prover's reach.

## Not modelled

The mapped code is the Fusion part of the repository and the concurrent or
crash-prone machinery around it.  It is a small share of some 216,000 lines,
most of which are inherited from go-ethereum and are functions of bytes,
generated code or input and output, where a model would only repeat the text:

* *Fusion code*: targets of swaps are checked by the pool only, not by the state
  transition, so `Swaps` has none.  Signatures and the encoding of DaTong's
  snapshot are taken as correct.  APIs that build calls from JSON change no
  state of the protocol.
* *Pool*: the lists and the price heap of `tx_list.go` are the sets and the
  order they implement; the journal of local transactions on disk and the events
  are left out.
* *Chain*: fast synchronisation, which the network does not support, the limit
  and the periodic import of future blocks (an import like others), caches and
  events; the chain indexer.
* *StateDB*: `Copy`, the database writes of `Commit`, preimages.
* *Downloader*: its phases around the queue, the pivot of a fast sync, estimates
  of capacity; the message handlers of the protocol.
* *Virtual machine*: the interpreter and its gas table are beyond TLC; how
  creation and SELFDESTRUCT use the state is in `Journal`, how a call ends is a
  choice in `StateTransition`.
* *Tries, RLP, cryptography, databases*: the maps, injective encodings and
  arbitrary hashes they provide.
* *Networking, light clients, RPC, key stores, commands, dashboards, Swarm,
  Whisper, proof of work*: inherited, beside the chain or not used by it.
