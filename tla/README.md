# TLA+ models of dcrros

dcrros is a Rosetta middleware for Decred. It follows a dcrd node over a
websocket, records for every main-chain block the account balances and unspent
outputs it changes, and serves the Rosetta Data and Construction APIs from that
record and from dcrd. This directory models the server: how it keeps the record
in step with a chain that reorganises, the two stores the record is kept in, its
connection to dcrd, the endpoints and the process around them.

## The system

| Part | Source | State | Operations | Hard part |
|---|---|---|---|---|
| Chain synchronisation | `backend/sync.go`, `backend/svc_account.go` (first half), `backend/server.go` (`Run`) | position in the reorg machinery, prefetched blocks, queued notifications | startup pass, `handleBlockConnected`, `handleBlockDisconnected`, `switchChainTo` | reorgs at any moment, lost notifications, crash between two commits |
| Block operations | `types/block.go` | none | `IterateBlockOps`, `WireBlockToRosetta`, `MempoolTxToRosetta` | disapproved parents, treasury, order of operations |
| Backend database | `backend/backenddb/interface.go`; stores `memdb`, `badgerdb` | processed blocks, balance history, unspent outputs | `StoreBalances`, `RollbackTip`, `AddUtxo`, `DelUtxo`, `Balance`, `ListUtxos`, `Update`, `View` | history with gaps, atomic updates, rollback, key layout |
| Account API | `backend/svc_account.go` (second half) | one request | `AccountBalance`, `AccountCoins` | reads while `Run` moves the database |
| dcrd connection | `backend/dcrd.go`, `backend/server.go` | `dcrdActiveErr`, the mutex, the notification queue | `onDcrdConnected`, block callbacks, waits at startup | RPC under the mutex, stale status, reconnects to another node |
| Block, network, mempool API | `backend/svc_block.go`, `svc_network.go`, `svc_mempool.go` | block and transaction caches | `Block`, `NetworkStatus`, `MempoolTransaction` | a client that follows block by block through reorgs |
| Construction API | `backend/svc_construction.go`, `types/transactions.go`, `types/address.go` | none; the text the client carries | derive ... submit | what one call writes another must read; retries |
| Process | `main.go`, `signal.go` | child dcrd, goroutines, listeners, database | start, shutdown | everyone waiting for everyone, order of closing |

`Run` is the only goroutine that writes the database. The RPC client's callbacks
append block notifications to a queue that `Run` drains; HTTP goroutines read
the database in views; the workers of `processSequentialBlocks` fetch blocks
ahead of `Run` during startup; `_main` waits for `Run`, for the listeners and
for the goroutine that watches its child dcrd.

What makes it correct: the processed blocks are one branch of the block tree,
never a mix; a rollback stops at the fork; blocks connect in order, each with
the parent it may disapprove; at every processed height the balances are those
of the ledger; the unspent outputs are those of the processed tip; both stores
do what the database contract says; an answer to a client is about the block it
names, and a client that adds up what it is served gets the ledger; the
transaction a client signs is the one it asked for; the status of the connection
is that of the connected node; startup ends; an announced tip is reached; the
process ends when it should and leaves nothing behind. `PROJECT.json` lists the
hazards behind these, each at its line.

## Modules

| Module | Models | Uses |
|---|---|---|
| `BlockTree` | the blocks dcrd may serve: parents, heights, approval (external) | |
| `BackendDb` | the methods of the `DB` interface as operators on one record per database state | `BlockTree` |
| `Updates` | the pattern of calls the server makes inside an `Update` | `BackendDb` |
| `Store` | what `DB` promises: an `Update` works on a copy that is installed or dropped | `Updates` |
| `MemDb` | the memory store; implements `Store` | `Updates`, `Store` |
| `BadgerDb` | the Badger store as an ordered map of byte strings; implements `Store` | `Updates`, `Store` |
| `BlockOps` | `IterateBlockOps`, and the ledger it should add up to, defined from the transactions without it | `BlockTree` |
| `RosettaBlock` | blocks and mempool transactions as the API shows them | `BlockOps` |
| `ProcessedChain` | what goroutines other than `Run` may rely on: a chain that grows by a child or shrinks | `BlockTree` |
| `Sync` | startup, event loop, handlers, reorg machinery; dcrd and the connection as environment; implements `ProcessedChain` | `BackendDb`, `ProcessedChain` |
| `Ledger` | `Sync` over blocks made of transactions: record against ledger | `Sync`, `BlockOps` |
| `AccountApi` | the account endpoints beside `Sync` | `Ledger`, `RosettaBlock` |
| `BlockApi` | the block, network and mempool endpoints and a client, beside `ProcessedChain` | `RosettaBlock`, `ProcessedChain` |
| `DcrdConn` | mutex, callbacks, notification queue, waits at startup | |
| `Construction` | the Construction API, its client and the node it publishes to | |
| `Process` | `_main`, the child dcrd, `Run`, the HTTP server | |
| `MC...` | instances for TLC; `MCTree` has the blocks several of them share | |
| `Iteration` | facts about finite iteration, joined sequences, finite sums, loops over a set, tables by height (proofs) | |
| `SyncProofs` | the theorems about `Sync` | `Sync`, `Iteration` |
| `LedgerProofs` | the theorems about `Ledger` and `AccountApi` | `SyncProofs`, `AccountApi` |
| `MemDbProofs`, `BadgerDbProofs` | the theorems about the stores | `MemDb`, `BadgerDb`, `Iteration` |
| `DcrdConnProofs`, `ProcessProofs` | the theorems about the connection and the process | `DcrdConn`, `Process` |
| `ConstructionProofs` | the theorems about the Construction API | `Construction`, `Iteration` |

The pieces compose by abstraction. `Sync` works on the database as `BackendDb`
describes it; `MemDb` and `BadgerDb` are shown to implement `Store`, the same
operators with `Update` cut into its calls. `Sync` is shown to implement
`ProcessedChain`, and `BlockApi` runs beside `ProcessedChain` instead of `Sync`.
`AccountApi` reads coins and balances as well, and runs beside `Sync` itself.

### Sync

| Variable | Code |
|---|---|
| `tip` | dcrd's main-chain tip |
| `linkUp` | connected to a suitable dcrd: `dcrdActiveErr` is nil and the websocket is up |
| `subscribed`, `ntfns` | `NotifyBlocks` was called; `s.blockNtfns` |
| `pc` | where `Run` is |
| `next`, `fetched` | the consumer's height and the replies its workers hold |
| `job` | locals of `switchChainTo`, `reorgToParentOf`, `rollbackDbChain` |
| `wtx` | the copy an open rollback `Update` works on |
| `db` | the committed database |

The steps are cut where another actor can act: dcrd may move between any two
RPCs, the process may die anywhere, a committed `Update` is one step.
`preProcessAccountBlock` is one `Update` without anything another actor can
change in it, so it is one step (`ConnectMissing`, `ConnectTarget`). The
rollback `Update` asks dcrd for blocks on the way; its three loops are
`RewindTip`, `CollectMissing` and `UnwindTip`, its commit `CommitRollback`. Any
error ends `Run` and the process, so failed RPCs, crashes and shutdowns are
`Stop`; the deterministic failures, a chain shorter than the record at startup
and a rollback of block 1, are actions of their own.

Abstractions: a hash stands for its block; a script for the account it pays; the
tree of an outpoint follows from its transaction; operations carry only type,
status, account, outpoint and amount. `utxoSet`, the block cache and the
transaction cache hold immutable data looked up by hash, so their answers are
those of dcrd. Amounts are mathematical integers: an amount is bounded by the
coin supply, far below 2^63. Block 1 is assumed to approve genesis (votes start
thousands of blocks later); the assumption is named in `BlockTree`.

### The stores

`MemDb` has the tables of the struct (`balances`, `last`, `processedBlocks`, and
`buckets` for `singleUtxos`, `fewUtxos` and `utxos`) and the journal `tx` of the
open `Update`. Reads go through the journal; `Commit` is the tail of
`MemDB.Update`: merge, then additions (`AddToBuckets`), then deletions
(`DelFromBuckets`). `MemRollbackTip` changes the tables at once, as the code
does. `before` is a history variable for the refinement. `fewUtxos` is a bag, as
the order of the slice follows Go's map iteration.

`BadgerDb` keeps one map `kv` and the map `txn` the transaction sees; its reads
are prefix iterations over keys that are laid out as in `db_ops.go`. Badger's
own machinery is external: a transaction sees its writes over a snapshot, fails
when it holds too many, commits or is dropped.

Both refinement mappings take `Seen`, all that reads can tell, for the database.
`Updates` says in which order the server calls the store; two constants widen
it: `ReAdds`, an output deleted and added again in one `Update` (a reorg that
passes through a block and back does that), and `LateAborts`, an `Update` that
fails after `RollbackTip` (an RPC between two rollbacks may). The server does
both. `BadgerDb` keeps the contract with both. `MemDb` does not, with either:
`MemKeepsContract` is checked and proved with both FALSE, and says so;
`MCMemDbFail.cfg` and `MCMemDbReAdd.cfg` show what that leaves out. With both
TRUE the memory store still returns the latest balance recorded
(`MemLatestTheorem`).

### DcrdConn

The RPC client is external and modelled from how the server depends on it: one
goroutine per connection reads replies and calls the block callbacks itself, a
connect starts `onDcrdConnected` in a goroutine of its own, outstanding requests
are sent again on the next connection, which may lead to another node. `check`
says which RPC of `checkDcrd` the holder of the mutex waits for; everything else
that takes the mutex does so in one step. `Run`'s position covers its waits up
to the event loop, whose handlers are in `Sync`.

### Construction

The server keeps nothing between calls. A client derives an address, chooses an
intent, goes through the calls in the order Rosetta prescribes, signs, and
submits to a node that may answer, lose the answer, mine the transaction or a
conflicting one. Conversions are modelled by what they do: which operation
becomes which input, which outpoint keys a previous output, what is written and
in which order. A field a client may leave out is absent from the record. A
signature is the key and digest it signs.

Accounts and scripts are different things, as in `types/address.go`. A script has
a version, a class (what `stdscript` makes of it) and a key; an account is a
standard address or a raw one, which spells out the version and the script.
`RosettaAccountToPkScript` reads an account, `DcrPkScriptToAccountAddr` names the
account of a script, and they are not inverse: a raw account of version 0 whose
script is standard comes back as the standard address, one with a stake opcode as
the address of the script behind it; bare multisig, other scripts and other
versions come back raw. `IntentSurvives` therefore compares what is parsed with
the intent in which every account is in the form `Account` gives, defined from
the account without the two conversions.

### BlockApi and Process

The client of `BlockApi` is the syncer of the Rosetta SDK (external): status,
next block, take back an orphaned block. `Process` has one program counter for
`_main` and one state per goroutine it waits for; a call of `requestShutdown` is
one step, because the shutdown listener always receives.

## Runs

| Run | What it shows |
|---|---|
| `MCSync.cfg` | types; one branch; connect order; unspent outputs are the ledger's; balances add up and equal the ledger at every height; balance is the sum of coins; a rollback drops exactly the blocks off the target's branch; `Sync` implements `ProcessedChain` |
| `MCSyncLive.cfg` | under fairness, startup ends and an announced highest tip is processed; balances equal the ledger when a transaction is disapproved and mined again |
| `MCAccountApi.cfg` | coins belong to the block they are listed under; balances are right while the resolved block is processed; balances, the treasury's too, equal the ledger with a treasury spend on one branch |
| `MCMemDb.cfg` | without re-added outputs and late failures, the memory store implements `Store`, and an account's outputs are in one bucket, without duplicates; balances read are the latest at or below the height |
| `MCBadgerDb.cfg` | the Badger store implements `Store`, with re-added outputs and late failures; balances read are the latest although one account is a prefix of another; every recorded balance can be found by a rollback |
| `MCDcrdConn.cfg` | types; once checked, the status is that of the connected node; events and notifications match; startup gets through its waits |
| `MCBlockApi.cfg` | a following client has the ledger's coins and balances at its last block, and reaches the tip; transaction identifiers are unique in a block; mempool and block show the same operations |
| `MCConstruction.cfg` | the parsed transaction is the intent, every account in its standard form where it has one; its signatures verify; the fee covers it; submit answers truthfully through retries |
| `Process.cfg` | the process ends after a shutdown or failure, never with dcrd running or the database open |
| `MCSyncRemined.cfg`, `MCAccountApiReorg.cfg`, `MCDcrdConnBlock.cfg` | violated: findings 1 to 3 |

### Bounds

*Sync.* The tree has a fork at height 1 with two branches of two blocks, one
ending in a block that disapproves its parent, and a second block 1: reorgs of
depth 1 and 2 in both directions, disapproval connected and rolled back, and the
rollback the stores refuse. Two workers let one reply be stale while another is
processed. `MaxNtfns` = 2 holds a disconnect and a connect of one reorg; further
ones wait for dcrd's next step. The liveness and the account run leave the second
block 1 out and queue one notification while another is handled; the account run
follows one account and one request, as requests do not affect each other. dcrd
may reorganise without bound, and the process may stop and start without bound.
`MCSync.cfg` has neither a treasury spend nor a transaction mined again, as the
unspent outputs are wrong after a rollback of either (finding 1, `MCSyncTSpend.cfg`); balances
are checked with each by the other two runs.

*Stores.* Three heights with two blocks at one of them, so that a height is
processed again by another block after a rollback. `FewUtxoLimit` is 3 instead
of 12, with three outputs of one account: all three buckets and every passage
between them are reached. `MaxCalls` bounds the outputs a block touches.
`Base` = 2 makes a height carry into its second byte at 2; accounts include one
that is a prefix of another; `MaxTxn` is small enough for a deep rollback to be
refused.

*DcrdConn.* A suitable node and ones that fail at different checks, so that one
check may be answered by several nodes; two connections unchecked at a time and
two notifications under way.

*Construction.* Every case of derive; intents with one and two inputs, debits
between credits, an output without value, a coin spent twice, an input already
signed, raw accounts of version 0 and 1 with a script of every class, and every
operation or signature that a call refuses. A third input or output passes
through the same code as the second.

*BlockApi.* A tree with a unique highest block, a disapproval and a transaction
mined again in the block that reverses it; the chain moves without bound.

*Process* has no bounds.

### Fairness

`Sync`: weak fairness of `RunStep`, the goroutine of `Run` and its workers, which
the Go scheduler and an answering dcrd give. The steps that make an RPC are among
them also while `linkUp` is FALSE: the RPC client sends outstanding requests again
when it has reconnected, so this assumes that a connection lost under an RPC comes
back for it. Nothing more is assumed of the connection, and nothing of dcrd's
chain, of `Start` or of `Stop`. `ReachesAnnouncedTip` is about a
queued notification: a block announced while the connection was down is not
fetched until a later one is announced. It is about the highest blocks, because
`handleBlockConnected` skips lower ones by design.

`DcrdConn`: goroutines that can run do, a reply arrives while its connection is
read, the deadline of `waitForPeers` passes. The connection, the nodes and the
blocks are free; `StartupWaitsEnd` has the condition that a suitable dcrd stays
connected.

`BlockApi`: the client goes on asking. The processed chain is free.

`Process`: the goroutines run, the child ends once its pipe is closed, and `Run`
returns once the context is done. The HTTP request may never end, and dcrd may
take for ever to start.

### Findings

1. `rollbackTip` says it is "exactly the inverse of connecting a block", but it
   inverts the operations in the order in which they were applied. When two
   operations of a block touch one output the result differs from the state
   before: rolling back a block that disapproves its parent and mines one of the
   parent's transactions again drops an output that is unspent and restores one
   that is spent. Balances are not affected (`MCSyncLive.cfg` uses the same
   blocks), coins are.
2. `AccountBalance` resolves the block in one view and reads the balance in a
   second. When `Run` rolls that block back in between, the answer has the hash
   of one block and the balance of another. `AccountCoins` uses one view and is
   right.
3. `onDcrdConnected` makes RPCs with the mutex held. A block notification that
   arrives before the reply makes the client's reading goroutine wait for the
   mutex, and the reply is not read: both wait until the connection is lost.

The three runs of these findings are listed in `PROJECT.json`. Each of the
following configurations, run by hand, also ends in a counterexample: its property
is what a comment, a document or a message says, and the code does otherwise. They
show where the condition of a passing run or of a theorem comes from.

| Configuration | Property | What the code does, against what it says |
|---|---|---|
| `MCMemDbBalance.cfg` | `BalanceAsDocumented` | `interface.go:53-54` documents `Balance` as "the latest balance for the given account address that is at a height higher than the specified height"; both stores return the latest at or below the height, which is what the callers need (`svc_account.go:114` asks at `height-1`). `MemBalanceIsLatest` and `BadgerBalanceIsLatest` state the meaning of the code, not that of the comment |
| `MCMemDbFail.cfg` | `FailedUpdateChangesNothing` | `MemDB.RollbackTip` writes the tables before the `Update` commits; one that fails after it leaves a processed tip without its balances (`interface.go:104-106`: "any DB changes are *not* committed"). The code calls this "technically wrong" but sufficient for its use (`memdb.go:211-214`): the error ends the process, and only requests served until then see it |
| `MCMemDbReAdd.cfg` | `DeletedIsGone` | an output that one `Update` deletes and adds again is stored twice in `fewUtxos`; deleting it later leaves one (`interface.go:92-93`) |
| `MCSyncTSpend.cfg` | `UtxosAreUnspent` | rolling back a treasury spend adds its null outpoint as an unspent output of the treasury (`sync.go:41-42`, as in finding 1) |
| `MCAccountApiTreasury.cfg` | `ListedCoinsWereCreated` | outputs to the treasury create no coin in `/block`, but `/account/coins` of the treasury lists them (`block.go:100` has a TODO) |
| `MCDcrdConnStale.cfg` | `SyncInfoFromSuitable` | `waitForBlockchainSync` checks the status after it asked, but a node that has just connected is checked in another goroutine: the answer of an unsuitable node can end the wait (`dcrd.go:219-221`) |
| `ProcessMem.cfg` | `AnswersRecordedBalance` | a request still served after `Run` closed the memory store is answered with a balance of zero (`interface.go:56-57` has zero for accounts without a balance); Badger answers with an error |
| `ProcessStartup.cfg` | `StartupSeen` | a startup event of dcrd that a read returns in two parts is dropped, and `_main` waits until a shutdown (`main.go:56`, `118`). It depends on how dcrd writes the event; the read itself promises no more |
| `ProcessWarn.cfg` | `TruncationReported` | the message about connections cut off at shutdown (`main.go:240`) tests for the wrong error and is never logged |
| `MCConstructionRaw.cfg` | `UnknownInputsAccepted` | `ConstructionPayloads` says unknown inputs are no error (`svc_construction.go:415-418`); `serialize` refuses a transaction that has one |
| `MCConstructionTree.cfg` | `StakeTreeAccepted` | an input with `prev_tree` 1 is accepted by preprocess and refused by payloads: the previous output is filed without its tree (`transactions.go:558-560`) |
| `MCConstructionOrder.cfg` | `OutOfOrderFails` | `ConstructionCombine` says signatures out of order make it fail (`svc_construction.go:498-499`); it returns a transaction that does not verify |
| `MCConstructionVersion.cfg` | `RawAddressesDecode` | raw addresses whose version has the high bit set are written but not read (`address.go:24-26`, `47`) |
| `MCBlockApiDocs.cfg` | `ReversedAsDocumented` | `docs/mapping.md:70` describes reversed operations by type `reversed` and status `success`; the code has it the other way round |

## Proofs

Every theorem is about the specification the runs check, for every value of the
constants; TLC checked each inductive invariant on the instance of its run
before it was proved.

| Module | Theorem | States | Inductive invariant |
|---|---|---|---|
| `SyncProofs` | `TypeCorrect`, `ChainTheorem`, `OrderTheorem` | `TypeOK`, `ProcessedIsChain`, `ConnectsInOrder` | `IndInv` |
| | `BalanceTheorem` | `BalancesAddUp` | `BalanceInv` |
| | `ForkTheorem`, `KeepsChainTheorem` | `RollbackStopsAtFork`; `Sync` implements `ProcessedChain` | `IndInv`, `ForkInv` |
| `LedgerProofs` | `PlainCoinTheorem` | a coin that no block touches twice is recorded as the ledger has it | `LedgerInv` |
| | `UtxoTheorem`, `CoinsTheorem` | `UtxosAreUnspent`, `CoinsMatchTheirBlock`, for plain coins | `LedgerInv` |
| | `LedgerTheorem`, `BalanceAnswerTheorem` | `BalancesAreLedger`, `BalanceOfProcessedBlock` | `BalanceInv`, `CallInv` |
| | `SumOfCoinsTheorem` | `BalanceIsSumOfCoins`, for plain coins | `LedgerInv`, `BalanceInv` |
| `BadgerDbProofs` | `ListedTheorem`, `LatestTheorem`, `ContractTheorem` | `RecordedIsListed`, `BadgerBalanceIsLatest`; `BadgerDb` implements `Store` | `BadgerInv` |
| `MemDbProofs` | `MemLatestTheorem` | `MemBalanceIsLatest` | `MemInv` |
| | `BucketTheorem` | `OneBucket`, without re-added outputs | `MemInv`, `UtxoInv` |
| | `MemContractTheorem` | `MemDb` implements `Store`, without re-added outputs and late failures | `MemInv`, `UtxoInv`, `ContractInv` |
| `DcrdConnProofs` | `ConnTypeCorrect`, `StatusTheorem`, `EventsTheorem` | `TypeOK`, `StatusSettles`, `EventsMatchNtfns` | `ConnInv` |
| `ProcessProofs` | `NoOrphanTheorem`, `DbClosedTheorem` | `NoOrphanDcrd`, `DbClosedAtExit` | `ProcessInv` |
| `ConstructionProofs` | `SignaturesTheorem` | `SignaturesVerify`, for a client that keeps the order | `ConstructInv` |
| | `IntentTheorem` | `IntentSurvives` | `IntentInv` |
| | `FeeTheorem` | `FeeCoversSigned`, when scripts fit the size the code counts | `FeeInv` |
| | `AnswerTheorem` | `AnswerIsTrue` | `SubmitInv` |

### Assumptions

`BlockTreeAssumption`: parents and heights form a tree rooted in genesis.
`SyncAssumption`: a block has a sequence of operations, which depend on the
previous block only when the block disapproves it (`IterateBlockOps` has that
shape). `UpdatesAssumption`: the types of what the server passes to a store.
`BadgerAssumption`: an account is a non-empty string of letters, so that the `/`
after it in a key ends it; an outpoint is one byte string of fixed length;
heights fit the fixed width of their encoding. `MemDbAssumption`: the limit of
`fewUtxos` is positive (12 in the code). `IntentsAssumption`: an intent is a
finite list of operations, and an account given with a version is a standard or a
raw address. `ConstructionAssumption`: a signature script is not empty.
`QueryAssumption`: requests are about accounts of the model.
`ConsensusAssumption` is what dcrd's validation gives: the type of a transaction
and its place in a block go together, an output is spent once and only by a
transaction in force with it, and no transaction is mined again while it is in
force; one that was reversed may be. `LedgerAssumption` says that the operations
`Sync` works on are those of `IterateBlockOps`. TLC evaluates each on every run
of its module.

Some theorems have a hypothesis without which the property fails, and a
configuration that shows it:

- `SignaturesTheorem`: `~Reorders` (`MCConstructionOrder.cfg`). `IntentTheorem`
  does without.
- `UtxoTheorem`, `CoinsTheorem`, `SumOfCoinsTheorem`: coins are `PlainCoin`, that
  is, no block has two operations on one, and no operation on it is worthless or
  without an outpoint. `rollbackTip` inverts the operations of a block in the
  order they were applied, so an output that a block reverses and mines again, or
  creates and spends, ends up wrong (finding 1, `MCSyncRemined.cfg`); the null
  outpoint of a treasury spend is the other case (`MCSyncTSpend.cfg`).
  Every coin of `MCSync.cfg` is plain. `PlainCoinTheorem` needs it only of the
  coin it is about, so the other coins may be anything; `LedgerTheorem` and
  `BalanceAnswerTheorem` need nothing of the kind.
- `FeeTheorem`: `ScriptsFit`, a signature is no longer than the 108 bytes that
  `ConstructionPreprocess` counts, and than the script an intent gave for an
  input that is signed. `MCConstruction` evaluates it.
- `BucketTheorem`: `~ReAdds` (`MCMemDbReAdd.cfg`); `MemContractTheorem`: that and
  `~LateAborts` (`MCMemDbFail.cfg`).

### Arguments

*Chain.* `ProcessedIsChain` alone is not inductive: that a connected block
extends the tip depends on how the missing blocks were collected. `ReorgInv`
adds that they lead from the target down to the cursor, each the parent of the
one before; that the cursor is the parent of the block to be connected next;
and that while connecting, that block extends the tip and `prev` is the tip.
`IndInv` is the conjunction; there is one lemma per group of actions and one
step per action. `BalanceInv` adds the history of `db` and of the open `wtx`. It
rests on two facts about `Balance`: it depends only on records at or below its
height, so a rollback does not disturb it, and an account without a record at
the new height is one whose operations sum to zero.

*Rollback.* What an open rollback commits depends on all its earlier steps, made
while dcrd's own chain may move. `ForkInv` says of every state in between: the
copy is the committed chain up to some height, the cursor is an ancestor of the
target, and no block taken off so far is one. At the end copy and cursor meet,
and what is left is the target's branch. That the copy is a prefix of `db` also
gives the refinement of `ProcessedChain`. `Ancestors` is a recursive function;
its defining equation is proved first, from the closed sets it is the least of.

*Ledger.* Reference and code differ in shape: the ledger is a set of transactions
in force, the code walks operations. `PlainCoinStep` relates them one coin at a
time: of all the operations of a block at most one is about the coin, so
connecting the block changes the coin as that operation says, rolling it back
undoes it, and the ledgers of the block and its parent differ by the same. What
consensus forbids is used here: an output created or spent that was already.
`LedgerInv` keeps the agreement with the processed tip for `db` and for the open
`wtx`, whose tip no client sees. Balances do not need plain coins, since amounts
of two operations add up in any order: the operations of a transaction sum to
what it pays and takes (`TxOps` in either status), those of a block to the
difference of two sets of transactions, and by induction over the tree the sums
along a branch to `LedgerBalance`; `BalancesAddUp` does the rest.
`SumOfCoinsTheorem` follows one block through its operations, each of which
changes the total of the coins by its amount. The endpoints add a request to
`Sync`; `CallInv` says only which account it is about, as their answers follow
from the invariants of the database at the view in which they are read.

*Badger.* The code finds records by prefix iterations, so the invariant is about
bytes. The key lemmas show that the tables do not overlap, that keys determine
their account, height and outpoint, that fixed-width heights sort as numbers, and
that the prefix of an account selects no other account's keys. `LaidOut` says
which keys a map has: known keys only, processed blocks exactly up to the tip,
and for each balance record its entry in the list of its block. It is kept by
`kv` and by `txn`, through every write; reads of a map that is `LaidOut` are those
of the contract's record, which gives `LatestTheorem` and, with one lemma per
call, `ContractTheorem`.

*Memory.* `MemBalance` searches either the journal or the tables, never both.
`MemInv` says why that is enough: the tables are strictly increasing in height up
to a tip that an open rollback lowers at once, the journal holds at most one
entry per account, at the new tip, and every record is owned by a processed block
that lists its account, so a rollback misses none. It holds with `ReAdds` and
`LateAborts` too.

`UtxoInv` is about the buckets: an account is in one of four states, and
`fewUtxos`, a bag, holds each of its outputs once. The deletions of a commit are
a loop over a set; any order ends in the same state, as each deletion moves an
account from one of the states to another. Additions keep the bag free of
duplicates only because what the journal adds is not stored yet. That is a fact
about the caller, and the invariant states it through `before`, which names
exactly the stored outputs while an `Update` is open. `ContractInv` adds what
makes an `Update` droppable: the table of processed blocks has no gap, and until
the first `RollbackTip` what the tables show is still what was shown before. With
one lemma per call, `MemContractTheorem` follows.

*Connection.* `StatusSettles` is about a check that several nodes may have
answered in turn. `StatusInv` adds that with no handler waiting, every answer the
running check got so far is one the current node would give; a node that arrived
since brings a handler of its own. `BoundsInv` ties the queue bounds together.

*Process.* `ProcessInv`: a child has a watcher that leaves only a dead one, the
database is open exactly while `Run` runs, and `_main` ends only after the wait
group saw both gone.

*Construction.* `AnswerTheorem` needs that a transaction the node refused stays
refused, as its text no longer changes (`Refused`). `SignaturesTheorem` follows
the text: `serialize` counts the previous outputs, so a transaction it accepts
spends as many different outputs as it has inputs (the argument is on
cardinalities); therefore positions determine them, `deserialize` gives each
input its own back, no input went without a payload, and the i-th signature meets
the i-th input. `CallsInv` records what the client holds between the calls, and
is the part that `ConstructInv`, `IntentInv` and `FeeInv` share. `IntentTheorem`
compares what is parsed from the text with the operations the client sent: debits
and credits are picked from the operations, written as inputs and outputs, and
read back with worthless outputs left out. `PaymentAccount` and `ScriptAccount`
are what the conversions contribute: the script of an account that is not refused
has the account that `Account` gives, by cases over the classes of scripts, and
the scripts of previous outputs are those of standard addresses, which come back
as they are. Both sides are joined from sequences of at most one element, and
`FlattenMapped` shows that picking twice is picking once by both conditions;
debits correspond by position. `FeeTheorem` compares two sums over the inputs,
the size counted before signing and the size signed, input by input.

A loop is a recursive function or a fold. `Iteration` shows, from the
least-number principle, that iterating functions on a set yields a sequence of
results in that set; the fold lemmas of `SyncProofs` apply it to `NetAmount`,
`UtxosConnected` and `UtxosRolledBack`, `FlattenSteps` to `FlattenSeq`.

### Only model-checked

- Liveness, which is out of the prover's reach: `StartupEnds`,
  `ReachesAnnouncedTip`, `StartupWaitsEnd`, and the liveness of the client and of
  the process.
- `ClientReconciles`, `TxIdsUnique` and `MempoolMatchesBlock` of `BlockApi`. They
  are about all the transactions `WireBlockToRosetta` shows for a block, with a
  disapproved parent's among them, and about a client that adds up and takes back
  whole blocks: the results on `IterateBlockOps` in `LedgerProofs` are about
  operations and would have to be redone for the transactions of `RosettaBlock`.

## Not modelled

- Configuration (`config.go`), logging, version and the error table
  (`types/errors.go`): parsing and text without state the properties are about.
- The progress shown in `syncStatus`, and metadata of blocks and transactions
  that no property is about.
- `NetworkList`, `NetworkOptions`, `Mempool`, `BlockTransaction` and
  `ConstructionHash`: constants, or one RPC result or hash passed on.
- The fee of an intent that carries a short signature script for an input that
  is signed again, and decoding errors of addresses and hex strings.
- A single RPC of `checkDcrd` that fails on a node that is otherwise suitable: the
  model makes a node pass a check always or never.
- The internals of badger, of the RPC client, of dcrd and of the Rosetta SDK,
  modelled only by what the code relies on.
- The end-to-end harness and the store test suite, which are test code.

## What could come next

- The client of `BlockApi`: that the operations of `WireBlockToRosetta` are those
  of `IterateBlockOps` grouped by transaction, from which `ClientReconciles`
  follows along the argument of `LedgerTheorem`.
- A `rollbackTip` that walks the operations backwards: with it `UtxoTheorem`
  should need no hypothesis on coins but the one on treasury spends.
