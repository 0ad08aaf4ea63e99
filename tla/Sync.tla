-------------------------------- MODULE Sync ---------------------------------
(***************************************************************************)
(* How the server keeps its database in step with dcrd's main chain: the   *)
(* startup pass (preProcessAccounts and the prefetching workers of         *)
(* processSequentialBlocks), the event loop of Run, the two notification   *)
(* handlers, and the reorg machinery below them (switchChainTo,            *)
(* reorgToParentOf, rollbackDbChain, rollbackTip, preProcessAccountBlock). *)
(*                                                                         *)
(* One goroutine (Run) writes the database.  Its steps are cut where       *)
(* another actor can see or change something: every committed Update is    *)
(* one step, and an open Update works on the copy wtx.  dcrd moves its     *)
(* chain at any time; the notifications it sends are queued, or lost while *)
(* the connection is down.  Every error a handler meets (a failed RPC, a   *)
(* cancelled context) ends Run and with it the process, so errors, crashes *)
(* and shutdowns are one action: Stop.                                     *)
(***************************************************************************)
EXTENDS BackendDb

CONSTANTS
    Ops(_, _),      \* types.IterateBlockOps(b, prev): the operations of b
    Concurrency,    \* prefetching workers, one per CPU
    MaxNtfns        \* bound: block notifications queued at once

\* One types.Op, reduced to what the handlers read.
Op == [typ : {"debit", "credit"}, st : {"success", "reversed"},
       acct : Accounts, outp : Outpoints, amt : Int]

ASSUME SyncAssumption ==
    /\ Concurrency \in Nat \ {0}
    /\ MaxNtfns \in Nat \ {0}
    /\ \A b \in Blocks \ {Genesis} :
        /\ Ops(b, Parent[b]) \in Seq(Op)
        \* prev is only read when b disapproves its parent
        /\ Approves[b] => \A p \in Blocks \cup {NoBlock} : Ops(b, p) = Ops(b, Parent[b])

VARIABLES
    tip,         \* dcrd: the tip of its main chain
    linkUp,      \* connected to a suitable dcrd (dcrdActiveErr is nil)
    subscribed,  \* NotifyBlocks was called on this run
    ntfns,       \* s.blockNtfns: notifications not yet handled
    pc,          \* where Run is
    next,        \* processSequentialBlocks: the height it waits for
    fetched,     \* ... and what its workers have ready, by height
    job,         \* locals of the switchChainTo in progress
    wtx,         \* the copy an open rollback Update works on
    db           \* the committed database

vars == <<tip, linkUp, subscribed, ntfns, pc, next, fetched, job, wtx, db>>
dcrdVars == <<tip, linkUp>>
fetchVars == <<next, fetched>>

AfterTip == NoBlock     \* a worker's types.ErrBlockIndexAfterTip reply

\* Where Run is: not running, starting preProcessAccounts, about to launch its
\* workers, in its sequential loop, about to subscribe, in the event loop, or
\* inside switchChainTo (rolling back in one Update, then connecting block by
\* block).
PCs == {"down", "startup", "launch", "sync", "subscribe", "idle", "rollback", "connect"}

\* target: the block being switched to.  cursor: rollbackDbChain's targetHash.
\* missing: its missingBlocks, newest first.  prev: the block last processed,
\* as reorgToParentOf tracks it.  ret: where Run continues afterwards.
Job == [target : Blocks \ {Genesis}, cursor : Blocks, missing : Seq(Blocks \ {Genesis}),
        prev : Blocks \cup {NoBlock}, ret : {"launch", "sync", "idle"}]

NoJob == [none |-> TRUE]

NoTx == EmptyDb     \* no Update is open

Ntfn == [type : {"connected", "disconnected"}, block : Blocks \ {Genesis}]

InJob == pc \in {"rollback", "connect"}

-----------------------------------------------------------------------------
(* What a block does to the database.                                      *)

\* Mutant: the status of the operation is not looked at.
CreatesIgnoresStatus(op) == op.typ = "credit"

\* The unspent outputs an operation creates when its block is connected; the
\* other operations remove theirs.
Creates(op) == \/ op.typ = "credit" /\ op.st = "success"
               \/ op.typ = "debit" /\ op.st = "reversed"

ApplyOp(u, op) ==
    IF Creates(op) THEN AddUtxo(u, <<op.acct, op.outp>>, op.amt)
    ELSE DelUtxo(u, <<op.acct, op.outp>>)

\* Mutant: the restored amount keeps the sign of the debit.
UnapplyOpKeepsSign(u, op) ==
    IF Creates(op) THEN DelUtxo(u, <<op.acct, op.outp>>)
    ELSE AddUtxo(u, <<op.acct, op.outp>>, op.amt)

\* rollbackTip's applyOp: removes what connecting added, adds what it removed,
\* with the amount negated.
UnapplyOp(u, op) ==
    IF Creates(op) THEN DelUtxo(u, <<op.acct, op.outp>>)
    ELSE AddUtxo(u, <<op.acct, op.outp>>, -op.amt)

\* Both directions walk the operations in the order IterateBlockOps gives.
UtxosConnected(u, ops) ==
    LET after[i \in 0..Len(ops)] ==
            IF i = 0 THEN u ELSE ApplyOp(after[i - 1], ops[i])
    IN  after[Len(ops)]

UtxosRolledBack(u, ops) ==
    LET after[i \in 0..Len(ops)] ==
            IF i = 0 THEN u ELSE UnapplyOp(after[i - 1], ops[i])
    IN  after[Len(ops)]

\* The sum of the operations on account a.
NetAmount(ops, a) ==
    LET sum[i \in 0..Len(ops)] ==
            IF i = 0 THEN 0
            ELSE sum[i - 1] + (IF ops[i].acct = a THEN ops[i].amt ELSE 0)
    IN  sum[Len(ops)]

Touched(ops) == {ops[i].acct : i \in DOMAIN ops}

\* Mutant: reads the balances one block too low.
NewBalancesTooLow(d, ops) ==
    [a \in Touched(ops) |-> Balance(d, a, LastHeight(d) - 1) + NetAmount(ops, a)]

\* newBalances: the touched accounts' balances below the block plus its
\* operations.
NewBalances(d, ops) ==
    [a \in Touched(ops) |-> Balance(d, a, LastHeight(d)) + NetAmount(ops, a)]

\* Block b extends the last processed block.
ExtendsTip(d, b) ==
    LastHeight(d) = Height[b] - 1 /\ LastProcessedBlock(d) = Parent[b]

\* preProcessAccountBlock: the whole Update that connects b.
ConnectBlock(d, b, prev) ==
    LET ops == Ops(b, prev)
    IN  StoreBalances([d EXCEPT !.utxos = UtxosConnected(@, ops)], b, NewBalances(d, ops))

\* rollbackTip: undo the utxo changes of the tip block, then drop it.  The
\* parent is fetched when the tip disapproves it.
UndoTip(d) ==
    LET b == LastProcessedBlock(d)
    IN  RollbackTip([d EXCEPT !.utxos = UtxosRolledBack(@, Ops(b, Parent[b]))])

-----------------------------------------------------------------------------
Init ==
    /\ tip \in Blocks
    /\ linkUp = TRUE
    /\ subscribed = FALSE
    /\ ntfns = << >>
    /\ pc = "down"
    /\ next = 1
    /\ fetched = << >>
    /\ job = NoJob
    /\ wtx = NoTx
    /\ db = EmptyDb

(***************************************************************************)
(* dcrd and the connection to it.                                          *)
(***************************************************************************)

\* A block notification reaches the queue when the server has subscribed and
\* the connection is up; otherwise nobody hears it.
Notify(type, b) ==
    IF subscribed /\ linkUp
    THEN /\ Len(ntfns) < MaxNtfns
         /\ ntfns' = Append(ntfns, [type |-> type, block |-> b])
    ELSE UNCHANGED ntfns

\* dcrd connects a block to its main chain.
ChainConnect(b) ==
    /\ Parent[b] = tip
    /\ tip' = b
    /\ Notify("connected", b)
    /\ UNCHANGED <<linkUp, subscribed, pc, fetchVars, job, wtx, db>>

\* dcrd disconnects its tip: the first half of a reorg (or an invalidation).
ChainDisconnect ==
    /\ tip # Genesis
    /\ tip' = Parent[tip]
    /\ Notify("disconnected", tip)
    /\ UNCHANGED <<linkUp, subscribed, pc, fetchVars, job, wtx, db>>

\* The websocket drops and comes back; rpcclient re-registers by itself.
LinkChange ==
    /\ linkUp' = ~linkUp
    /\ UNCHANGED <<tip, subscribed, ntfns, pc, fetchVars, job, wtx, db>>

(***************************************************************************)
(* Startup: preProcessAccounts.                                            *)
(***************************************************************************)

\* A new process on the database the last one left.
Start ==
    /\ pc = "down"
    /\ pc' = "startup"
    /\ UNCHANGED <<dcrdVars, subscribed, ntfns, fetchVars, job, wtx, db>>

\* switchChainTo(b): reorgToParentOf opens its Update and starts rolling back
\* towards b's parent.
SwitchChainTo(b, ret) ==
    /\ pc' = "rollback"
    /\ wtx' = db
    /\ job' = [target |-> b, cursor |-> Parent[b], missing |-> << >>,
               prev |-> NoBlock, ret |-> ret]

\* The last processed block is still on dcrd's main chain (or nothing was
\* processed yet).
StartOnMainChain ==
    /\ pc = "startup"
    /\ \/ LastHeight(db) = 0
       \/ LastProcessedBlock(db) \in MainChainAt(tip, LastHeight(db))
    /\ pc' = "launch"
    /\ UNCHANGED <<dcrdVars, subscribed, ntfns, fetchVars, job, wtx, db>>

\* A reorg happened while the server was off: switch to the block that is now
\* at the height of the last processed one.
StartReorged ==
    /\ pc = "startup"
    /\ LastHeight(db) > 0
    /\ \E b \in Blocks \ {Genesis} :
        /\ b \in MainChainAt(tip, LastHeight(db))
        /\ b # LastProcessedBlock(db)
        /\ SwitchChainTo(b, "launch")
    /\ UNCHANGED <<dcrdVars, subscribed, ntfns, fetchVars, db>>

\* Mutant: starts at the last processed height, not at the one after it.
LaunchWorkersAgain ==
    /\ pc = "launch"
    /\ pc' = "sync"
    /\ next' = LastHeight(db)
    /\ UNCHANGED <<dcrdVars, subscribed, ntfns, fetched, job, wtx, db>>

\* The workers start at the height after the last processed one.
LaunchWorkers ==
    /\ pc = "launch"
    /\ pc' = "sync"
    /\ next' = LastHeight(db) + 1
    /\ UNCHANGED <<dcrdVars, subscribed, ntfns, fetched, job, wtx, db>>

\* A worker of processSequentialBlocks asks dcrd for its next height.  Workers
\* run while the consumer is still processing earlier blocks, and each holds
\* one reply until it is taken.
FetchBlock(h) ==
    /\ pc = "sync" \/ (InJob /\ job.ret = "sync")
    /\ h \in next..(next + Concurrency - 1)
    /\ h \notin DOMAIN fetched
    /\ \E r \in Blocks \cup {AfterTip} :
        /\ IF MainChainAt(tip, h) = {} THEN r = AfterTip ELSE r \in MainChainAt(tip, h)
        /\ fetched' = [k \in DOMAIN fetched \cup {h} |-> IF k = h THEN r ELSE fetched[k]]
    /\ UNCHANGED <<dcrdVars, subscribed, ntfns, pc, next, job, wtx, db>>

\* The consumer takes the reply for the height it waits for and switches to
\* that block; the worker that held it goes on to its next height.
TakeFetched ==
    /\ pc = "sync"
    /\ next \in DOMAIN fetched
    /\ fetched[next] # AfterTip
    /\ SwitchChainTo(fetched[next], "sync")
    /\ next' = next + 1
    /\ fetched' = [k \in DOMAIN fetched \ {next} |-> fetched[k]]
    /\ UNCHANGED <<dcrdVars, subscribed, ntfns, db>>

\* Mutant: asks for the height past the tip again instead of stopping.
ReachTipPolls ==
    /\ pc = "sync"
    /\ next \in DOMAIN fetched
    /\ fetched[next] = AfterTip
    /\ fetched' = [k \in DOMAIN fetched \ {next} |-> fetched[k]]
    /\ UNCHANGED <<dcrdVars, subscribed, ntfns, pc, next, job, wtx, db>>

\* The consumer reaches the end of the chain and cancels the workers.
ReachTip ==
    /\ pc = "sync"
    /\ next \in DOMAIN fetched
    /\ fetched[next] = AfterTip
    /\ pc' = "subscribe"
    /\ fetched' = << >>
    /\ UNCHANGED <<dcrdVars, subscribed, ntfns, next, job, wtx, db>>

\* Only now does Run ask for block notifications: what happened since the
\* workers' last replies is not announced again.
NotifyBlocks ==
    /\ pc = "subscribe"
    /\ subscribed' = TRUE
    /\ pc' = "idle"
    /\ UNCHANGED <<dcrdVars, ntfns, fetchVars, job, wtx, db>>

(***************************************************************************)
(* The event loop.                                                         *)
(***************************************************************************)

\* Mutant: also ignores a block at the height of the processed tip.
IgnoreConnectedAtTip ==
    /\ pc = "idle" /\ ntfns # << >> /\ Head(ntfns).type = "connected"
    /\ Height[Head(ntfns).block] <= LastHeight(db)
    /\ ntfns' = Tail(ntfns)
    /\ UNCHANGED <<dcrdVars, subscribed, pc, fetchVars, job, wtx, db>>

\* handleBlockConnected for a block below the processed tip: ignored.
IgnoreConnected ==
    /\ pc = "idle" /\ ntfns # << >> /\ Head(ntfns).type = "connected"
    /\ Height[Head(ntfns).block] < LastHeight(db)
    /\ ntfns' = Tail(ntfns)
    /\ UNCHANGED <<dcrdVars, subscribed, pc, fetchVars, job, wtx, db>>

HandleBlockConnected ==
    /\ pc = "idle" /\ ntfns # << >> /\ Head(ntfns).type = "connected"
    /\ Height[Head(ntfns).block] >= LastHeight(db)
    /\ SwitchChainTo(Head(ntfns).block, "idle")
    /\ ntfns' = Tail(ntfns)
    /\ UNCHANGED <<dcrdVars, subscribed, fetchVars, db>>

\* handleBlockDisconnected: roll back the tip if it is the disconnected block,
\* otherwise leave it to the next connected block.
HandleBlockDisconnected ==
    /\ pc = "idle" /\ ntfns # << >> /\ Head(ntfns).type = "disconnected"
    /\ IF Head(ntfns).block = LastProcessedBlock(db)
       THEN CanRollbackTip(db) /\ db' = UndoTip(db)
       ELSE UNCHANGED db
    /\ ntfns' = Tail(ntfns)
    /\ UNCHANGED <<dcrdVars, subscribed, pc, fetchVars, job, wtx>>

(***************************************************************************)
(* switchChainTo.  The first three actions are the three loops of          *)
(* rollbackDbChain, inside one Update.                                     *)
(***************************************************************************)

\* Mutant: rolls back one block too many.
RewindTipTooFar ==
    /\ pc = "rollback"
    /\ LastHeight(wtx) >= Height[job.cursor]
    /\ CanRollbackTip(wtx)
    /\ wtx' = UndoTip(wtx)
    /\ UNCHANGED <<dcrdVars, subscribed, ntfns, pc, fetchVars, job, db>>

\* The processed tip is above the cursor: roll it back.
RewindTip ==
    /\ pc = "rollback"
    /\ LastHeight(wtx) > Height[job.cursor]
    /\ CanRollbackTip(wtx)
    /\ wtx' = UndoTip(wtx)
    /\ UNCHANGED <<dcrdVars, subscribed, ntfns, pc, fetchVars, job, db>>

\* The cursor is above the processed tip: that block was missed.
CollectMissing ==
    /\ pc = "rollback"
    /\ Height[job.cursor] > LastHeight(wtx)
    /\ job' = [job EXCEPT !.missing = Append(@, job.cursor), !.cursor = Parent[@]]
    /\ UNCHANGED <<dcrdVars, subscribed, ntfns, pc, fetchVars, wtx, db>>

\* Same height, different blocks: roll one back and note the other as missing.
UnwindTip ==
    /\ pc = "rollback"
    /\ Height[job.cursor] = LastHeight(wtx)
    /\ LastHeight(wtx) > 0 /\ job.cursor # LastProcessedBlock(wtx)
    /\ CanRollbackTip(wtx)
    /\ wtx' = UndoTip(wtx)
    /\ job' = [job EXCEPT !.missing = Append(@, job.cursor), !.cursor = Parent[@]]
    /\ UNCHANGED <<dcrdVars, subscribed, ntfns, pc, fetchVars, db>>

\* Mutant: stops at the first common height, not at the common block.
CommitRollbackAtHeight ==
    /\ pc = "rollback"
    /\ Height[job.cursor] = LastHeight(wtx)
    /\ db' = wtx
    /\ job' = [job EXCEPT !.prev = IF LastHeight(wtx) > 0 THEN LastProcessedBlock(wtx)
                                   ELSE NoBlock]
    /\ wtx' = NoTx
    /\ pc' = "connect"
    /\ UNCHANGED <<dcrdVars, subscribed, ntfns, fetchVars>>

\* The common block is found: commit the rollback.  prev is the block fetched
\* for the new tip, nil at height 0.
CommitRollback ==
    /\ pc = "rollback"
    /\ Height[job.cursor] = LastHeight(wtx)
    /\ LastHeight(wtx) = 0 \/ job.cursor = LastProcessedBlock(wtx)
    /\ db' = wtx
    /\ job' = [job EXCEPT !.prev = IF LastHeight(wtx) > 0 THEN LastProcessedBlock(wtx)
                                   ELSE NoBlock]
    /\ wtx' = NoTx
    /\ pc' = "connect"
    /\ UNCHANGED <<dcrdVars, subscribed, ntfns, fetchVars>>

\* Connect the oldest missing block, in an Update of its own.  An error of
\* preProcessAccountBlock (the block does not extend the tip, or disapproves a
\* parent that was not passed) leaves only Stop.
ConnectMissing ==
    /\ pc = "connect"
    /\ job.missing # << >>
    /\ LET b == job.missing[Len(job.missing)]
       IN  /\ ExtendsTip(db, b)
           /\ Approves[b] \/ job.prev # NoBlock
           /\ db' = ConnectBlock(db, b, job.prev)
           /\ job' = [job EXCEPT !.missing = SubSeq(@, 1, Len(@) - 1), !.prev = b]
    /\ UNCHANGED <<dcrdVars, subscribed, ntfns, pc, fetchVars, wtx>>

\* Connect the target itself and return to the caller.
ConnectTarget ==
    /\ pc = "connect"
    /\ job.missing = << >>
    /\ ExtendsTip(db, job.target)
    /\ Approves[job.target] \/ job.prev # NoBlock
    /\ db' = ConnectBlock(db, job.target, job.prev)
    /\ pc' = job.ret
    /\ job' = NoJob
    /\ UNCHANGED <<dcrdVars, subscribed, ntfns, fetchVars, wtx>>

(***************************************************************************)
(* The end of a run.                                                       *)
(***************************************************************************)

\* Everything but the committed database is gone; an open Update is dropped.
Terminate ==
    /\ pc' = "down"
    /\ subscribed' = FALSE
    /\ ntfns' = << >>
    /\ next' = 1
    /\ fetched' = << >>
    /\ job' = NoJob
    /\ wtx' = NoTx
    /\ UNCHANGED <<dcrdVars, db>>

\* preProcessAccounts fails when dcrd's chain does not reach the height of the
\* last processed block.
StartPastChain ==
    /\ pc = "startup"
    /\ LastHeight(db) > 0
    /\ MainChainAt(tip, LastHeight(db)) = {}
    /\ Terminate

\* A rollback has to drop block 1 and the store cannot: rollbackDbChain's
\* loops, or handleBlockDisconnected, end Run.
RollbackFails ==
    /\ \/ /\ pc = "rollback"
          /\ ~CanRollbackTip(wtx) /\ LastHeight(wtx) > 0
          /\ \/ LastHeight(wtx) > Height[job.cursor]
             \/ LastHeight(wtx) = Height[job.cursor] /\ job.cursor # LastProcessedBlock(wtx)
       \/ /\ pc = "idle" /\ ntfns # << >> /\ Head(ntfns).type = "disconnected"
          /\ Head(ntfns).block = LastProcessedBlock(db) /\ ~CanRollbackTip(db)
    /\ Terminate

\* Any RPC may fail and the process may be killed or shut down at any time.
Stop == pc # "down" /\ Terminate

-----------------------------------------------------------------------------
RollbackStep == RewindTip \/ CollectMissing \/ UnwindTip \/ CommitRollback \/ RollbackFails
ConnectStep == ConnectMissing \/ ConnectTarget
StartupStep ==
    \/ StartOnMainChain \/ StartReorged \/ LaunchWorkers
    \/ \E h \in next..(next + Concurrency - 1) : FetchBlock(h)
    \/ TakeFetched \/ ReachTip \/ NotifyBlocks \/ StartPastChain
EventStep == IgnoreConnected \/ HandleBlockConnected \/ HandleBlockDisconnected

RunStep == StartupStep \/ EventStep \/ RollbackStep \/ ConnectStep

DcrdStep ==
    \/ \E b \in Blocks \ {Genesis} : ChainConnect(b)
    \/ ChainDisconnect
    \/ LinkChange

Next == DcrdStep \/ Start \/ RunStep \/ Stop

Spec == Init /\ [][Next]_vars

\* The Run goroutine and its workers keep running and dcrd answers them;
\* nothing is assumed of dcrd's chain, of the connection or of Stop.
FairSpec == Spec /\ WF_vars(RunStep)

-----------------------------------------------------------------------------
(***************************************************************************)
(* Properties.                                                             *)
(***************************************************************************)

TypeOK ==
    /\ tip \in Blocks
    /\ linkUp \in BOOLEAN /\ subscribed \in BOOLEAN
    /\ ntfns \in Seq(Ntfn)
    /\ pc \in PCs
    /\ next \in Nat \ {0}
    /\ IsPartialFcn(fetched, Nat \ {0}, (Blocks \ {Genesis}) \cup {AfterTip})
    /\ IF InJob THEN job \in Job ELSE job = NoJob
    /\ IsDb(wtx) /\ IsDb(db)

\* The processed blocks form one chain from genesis, each the child of the one
\* below, and every height has its balances.
Linked(d) ==
    /\ Len(d.balances) = Len(d.processed)
    /\ \A h \in DOMAIN d.processed :
        /\ Height[d.processed[h]] = h
        /\ Parent[d.processed[h]] = IF h = 1 THEN Genesis ELSE d.processed[h - 1]

\* Whatever mix of missed, duplicated and out-of-order notifications, reorgs
\* and crashes came before, the committed database and an open rollback hold
\* a prefix of one branch, never a mix of two (what ProcessedBlockHash and the
\* block queries by height rely on).
ProcessedIsChain == Linked(db) /\ Linked(wtx)

\* The block reorgToParentOf or switchChainTo connects next.
NextToConnect ==
    IF job.missing = << >> THEN job.target ELSE job.missing[Len(job.missing)]

\* The missing blocks rollbackDbChain collected always continue the tip it
\* rolled back to: the "does not extend tip" error of preProcessAccountBlock
\* and ErrNeedsPreviousBlock are unreachable, and the transactions a
\* disapproving block reverses are those of its own parent.
ConnectsInOrder ==
    pc = "connect" =>
        /\ ExtendsTip(db, NextToConnect)
        /\ ~Approves[NextToConnect] => job.prev = Parent[NextToConnect]

\* The inductive strengthening of the two: during a rollback the missing blocks
\* lead from the target down to the cursor, and while connecting prev is the
\* processed tip.
MissingLeadDown ==
    \A i \in DOMAIN job.missing :
        job.missing[i] = Parent[IF i = 1 THEN job.target ELSE job.missing[i - 1]]

ReorgInv ==
    /\ pc # "rollback" => wtx = NoTx
    /\ InJob => MissingLeadDown
    /\ pc = "rollback" => job.cursor = Parent[NextToConnect]
    /\ pc = "connect" =>
        /\ ExtendsTip(db, NextToConnect)
        /\ job.prev = IF LastHeight(db) = 0 THEN NoBlock ELSE LastProcessedBlock(db)

\* The balance history: at every processed height each account's balance is
\* its balance one block earlier plus the operations of that block, although
\* only touched accounts are recorded and rollbacks drop records.
BalancesAddUp ==
    \A a \in Accounts : \A h \in 1..LastHeight(db) :
        Balance(db, a, h) = Balance(db, a, h - 1)
                            + NetAmount(Ops(db.processed[h], Parent[db.processed[h]]), a)

\* A committed rollback drops exactly the processed blocks that are not on the
\* chain of the target's parent: it neither keeps a block of the old branch
\* nor drops one the two branches share.
RollbackStopsAtFork ==
    [][pc = "rollback" /\ pc' = "connect" =>
        Range(db'.processed) = Range(db.processed) \cap Ancestors[Parent[job.target]]]_vars

\* Every step of the handlers and workers, crashes and restarts included, is a
\* step of the processed chain the API reads: it is extended by one child of
\* its tip or cut, and never seen between two branches.
Processed == INSTANCE ProcessedChain WITH chain <- db.processed
KeepsChain == Processed!ChainSpec

\* The startup pass comes to an end whatever dcrd's chain does meanwhile: Run
\* reaches its event loop or fails.
StartupEnds == pc = "startup" ~> pc \in {"idle", "down"}

\* A queued notification of a block that stays dcrd's tip, and that no other
\* block exceeds in height, makes that block the processed tip even when the
\* notifications around it were lost (lower blocks may be ignored, as
\* handleBlockConnected says).
ReachesAnnouncedTip ==
    \A b \in {b \in Blocks \ {Genesis} : \A c \in Blocks : Height[c] <= Height[b]} :
        (tip = b /\ [type |-> "connected", block |-> b] \in Range(ntfns))
            ~> (LastProcessedBlock(db) = b \/ tip # b \/ pc = "down")

=============================================================================
