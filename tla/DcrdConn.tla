------------------------------ MODULE DcrdConn -------------------------------
(***************************************************************************)
(* The connection to dcrd: who holds the server mutex, what the server     *)
(* believes of the node at the other end, the waits at the start of Run,   *)
(* and the hand-over of block notifications to it.                         *)
(*                                                                         *)
(* The RPC client is external.  As server.go uses it: one goroutine reads  *)
(* each connection and calls the block callbacks itself, so while it is    *)
(* in a callback no reply is delivered on that connection; every connect   *)
(* starts a goroutine that calls onDcrdConnected; requests outstanding     *)
(* when the connection is lost, and the registration for blocks, are sent  *)
(* again on the next.  The node behind the address may change with it.     *)
(* An RPC of Run that fails ends Run and the process (Sync, Process).  One *)
(* of checkDcrd that fails makes the node unsuitable, as a wrong answer    *)
(* does: Passes says whether the node answers and answers right.           *)
(***************************************************************************)
EXTENDS Naturals, FiniteSets

CONSTANTS
    Nodes,            \* the dcrd nodes that may answer
    Passes(_, _),     \* node n passes the i-th check of checkDcrd: no error, right answer
    Infos,            \* answers of GetBlockChainInfo
    BestHeight,       \* the height of the last processed block
    KnownOffline,     \* the server was told that dcrd has no peers
    MaxHandlers,      \* bound: connections not yet checked
    MaxNtfns          \* bound: block notifications under way

\* The RPCs of checkDcrd: chain name, transaction index, versions.
Checks == 1..3
Suitable(n) == \A i \in Checks : Passes(n, i)

ASSUME ConnAssumption ==
    /\ \A n \in Nodes, i \in Checks : Passes(n, i) \in BOOLEAN
    /\ Infos \subseteq [syncHeight : Nat, blocks : Nat, ibd : BOOLEAN]
    /\ BestHeight \in Nat /\ KnownOffline \in BOOLEAN
    /\ MaxHandlers \in Nat \ {0} /\ MaxNtfns \in Nat

VARIABLES
    node,         \* the dcrd of the current connection
    chain, peers, \* what it answers of its chain and peers
    link,         \* the connection is up
    registered,   \* ... and has been asked for block notifications
    reader,       \* its reading goroutine: "reading", or "blocked" in a callback
    old,          \* readers of earlier connections still in a callback
    waiting,      \* onDcrdConnected goroutines that wait for the mutex
    check,        \* 0, or the RPC of checkDcrd made with the mutex held
    activeErr,    \* s.dcrdActiveErr
    ntfns,        \* the length of s.blockNtfns
    tokens,       \* goroutines sending to s.blockNtfnsChan
    run,          \* where Run is
    late,         \* the deadline of waitForPeers has passed
    info,         \* the answer waitForBlockchainSync looks at, and its sender
    subscribed    \* Run has called NotifyBlocks

connVars == <<node, chain, peers, link, registered, reader, old>>
ntfnVars == <<ntfns, tokens>>
runVars == <<run, late, info, subscribed>>
vars == <<connVars, waiting, check, activeErr, ntfnVars, runVars>>

RunPCs == {"connection", "peers", "askPeers", "sync", "syncCheck", "syncSleep",
           "preprocess", "events", "took"}

\* The types of the connection, of the queue and of Run's position.
TypeOK ==
    /\ node \in Nodes /\ chain \in Infos
    /\ {peers, link, registered, late, subscribed} \subseteq BOOLEAN
    /\ reader \in {"reading", "blocked"} /\ old \in 0..MaxNtfns
    /\ waiting \in 0..MaxHandlers /\ check \in {0} \cup Checks
    /\ activeErr \in {"nil", "unconnected", "unsuitable"}
    /\ ntfns \in 0..MaxNtfns /\ tokens \in 0..MaxNtfns
    /\ run \in RunPCs
    /\ info \in [from : Nodes, chain : Infos]

Init ==
    /\ node \in Nodes /\ chain \in Infos /\ peers \in BOOLEAN
    /\ link = FALSE /\ registered = FALSE
    /\ reader = "reading" /\ old = 0
    /\ waiting = 0 /\ check = 0
    /\ activeErr = "unconnected"
    /\ ntfns = 0 /\ tokens = 0
    /\ run = "connection"
    /\ late = FALSE /\ subscribed = FALSE
    /\ info = [from |-> node, chain |-> chain]

MutexFree == check = 0

\* A reply can reach its caller.
Replies == link /\ reader = "reading"

-----------------------------------------------------------------------------
(* dcrd and the RPC client.                                                *)

Connect ==
    /\ ~link
    /\ link' = TRUE
    /\ node' \in Nodes /\ chain' \in Infos
    /\ waiting' = waiting + 1
    /\ reader' = "reading"
    /\ old' = IF reader = "blocked" THEN old + 1 ELSE old
    /\ UNCHANGED <<peers, registered, check, activeErr, ntfnVars, runVars>>

\* The bound is here, for a connection that is lost comes back.
Disconnect ==
    /\ link /\ waiting < MaxHandlers
    /\ link' = FALSE /\ registered' = FALSE
    /\ UNCHANGED <<node, chain, peers, reader, old, waiting, check, activeErr, ntfnVars, runVars>>

Reregister ==
    /\ link /\ subscribed /\ ~registered
    /\ registered' = TRUE
    /\ UNCHANGED <<node, chain, peers, link, reader, old, waiting, check, activeErr,
                   ntfnVars, runVars>>

\* The node's view of its chain and peers changes.
Progress ==
    /\ link
    /\ chain' \in Infos /\ peers' \in BOOLEAN
    /\ UNCHANGED <<node, link, registered, reader, old, waiting, check, activeErr,
                   ntfnVars, runVars>>

\* A block notification is read; its callback wants the mutex.
BlockArrives ==
    /\ Replies /\ registered
    /\ ntfns + tokens + old < MaxNtfns
    /\ reader' = "blocked"
    /\ UNCHANGED <<node, chain, peers, link, registered, old, waiting, check, activeErr,
                   ntfnVars, runVars>>

-----------------------------------------------------------------------------
(* The server's callbacks.                                                 *)

\* onDcrdConnected takes the mutex and makes its first RPC.
OnDcrdConnected ==
    /\ waiting > 0 /\ MutexFree
    /\ waiting' = waiting - 1
    /\ check' = 1
    /\ UNCHANGED <<connVars, activeErr, ntfnVars, runVars>>

\* Mutant: a node that fails a check leaves the status as it was.
CheckDcrdKeepsStatus ==
    /\ check # 0 /\ Replies
    /\ IF ~Passes(node, check) THEN check' = 0 /\ UNCHANGED activeErr
       ELSE IF check < 3 THEN check' = check + 1 /\ UNCHANGED activeErr
       ELSE check' = 0 /\ activeErr' = "nil"
    /\ UNCHANGED <<connVars, waiting, ntfnVars, runVars>>

\* Mutant: one check too many.
CheckDcrdPastLast ==
    /\ check # 0 /\ Replies
    /\ IF check <= 3 THEN check' = check + 1 /\ UNCHANGED activeErr
       ELSE check' = 0 /\ activeErr' = "nil"
    /\ UNCHANGED <<connVars, waiting, ntfnVars, runVars>>

\* checkDcrd gets a reply, from whichever node is connected by then; the first
\* check that fails and the last that passes settle the status and release the
\* mutex.
CheckDcrd ==
    /\ check # 0 /\ Replies
    /\ IF ~Passes(node, check) THEN check' = 0 /\ activeErr' = "unsuitable"
       ELSE IF check < 3 THEN check' = check + 1 /\ UNCHANGED activeErr
       ELSE check' = 0 /\ activeErr' = "nil"
    /\ UNCHANGED <<connVars, waiting, ntfnVars, runVars>>

\* Mutant: the event is signalled before the status is looked at.
QueueNtfnSignalsFirst ==
    /\ MutexFree
    /\ tokens' = tokens + 1
    /\ ntfns' = IF activeErr = "nil" THEN ntfns + 1 ELSE ntfns

\* onDcrdBlockConnected and onDcrdBlockDisconnected, holding the mutex: queue
\* the block and start a goroutine that signals Run, unless the node is not
\* known to be suitable.
QueueNtfn ==
    /\ MutexFree
    /\ IF activeErr = "nil" THEN ntfns' = ntfns + 1 /\ tokens' = tokens + 1
       ELSE UNCHANGED ntfnVars

OnDcrdBlock ==
    /\ reader = "blocked"
    /\ QueueNtfn
    /\ reader' = "reading"
    /\ UNCHANGED <<node, chain, peers, link, registered, old, waiting, check, activeErr, runVars>>

\* The same for a callback of a connection that is gone.
OnDcrdBlockLate ==
    /\ old > 0
    /\ QueueNtfn
    /\ old' = old - 1
    /\ UNCHANGED <<node, chain, peers, link, registered, reader, waiting, check, activeErr,
                   runVars>>

-----------------------------------------------------------------------------
(* Run.                                                                    *)

RunOnly == UNCHANGED <<connVars, waiting, check, activeErr>>

WaitForDcrdConnection ==
    /\ run = "connection"
    /\ MutexFree /\ activeErr = "nil"
    /\ run' = IF KnownOffline THEN "sync" ELSE "peers"
    /\ UNCHANGED <<ntfnVars, late, info, subscribed>> /\ RunOnly

\* Time passes.
PeersDeadline ==
    /\ run \in {"peers", "askPeers"} /\ ~late
    /\ late' = TRUE
    /\ UNCHANGED <<ntfnVars, run, info, subscribed>> /\ RunOnly

\* The deadline is looked at between two RPCs only.
WaitForPeers ==
    /\ \/ run = "peers" /\ run' = IF late THEN "sync" ELSE "askPeers"
       \/ run = "askPeers" /\ Replies /\ run' = IF peers THEN "sync" ELSE "peers"
    /\ UNCHANGED <<ntfnVars, late, info, subscribed>> /\ RunOnly

\* Mutant: waits for more blocks than the sync target.
SyncCompleteStrict(i) ==
    i.syncHeight > 0 /\ ~i.ibd /\ i.syncHeight < i.blocks /\ i.blocks >= BestHeight

SyncComplete(i) ==
    i.syncHeight > 0 /\ ~i.ibd /\ i.syncHeight <= i.blocks /\ i.blocks >= BestHeight

\* waitForBlockchainSync: ask, then look whether the node is suitable, then look
\* at its answer; a sync height of zero is accepted after one wait.
AskChainInfo ==
    /\ run = "sync" /\ Replies
    /\ info' = [from |-> node, chain |-> chain]
    /\ run' = "syncCheck"
    /\ UNCHANGED <<ntfnVars, late, subscribed>> /\ RunOnly

CheckSynced ==
    /\ run = "syncCheck" /\ MutexFree
    /\ run' = IF activeErr # "nil" THEN "sync"
              ELSE IF SyncComplete(info.chain) THEN "preprocess" ELSE "syncSleep"
    /\ UNCHANGED <<ntfnVars, late, info, subscribed>> /\ RunOnly

SyncSleep ==
    /\ run = "syncSleep"
    /\ run' = IF info.chain.syncHeight = 0 THEN "preprocess" ELSE "sync"
    /\ UNCHANGED <<ntfnVars, late, info, subscribed>> /\ RunOnly

\* preProcessAccounts (module Sync), then NotifyBlocks.
NotifyBlocks ==
    /\ run = "preprocess" /\ Replies
    /\ registered' = TRUE /\ subscribed' = TRUE
    /\ run' = "events"
    /\ UNCHANGED <<node, chain, peers, link, reader, old, waiting, check, activeErr,
                   ntfnVars, late, info>>

\* One event, then with the mutex one notification; its handler is in Sync.
TakeEvent ==
    /\ run = "events" /\ tokens > 0
    /\ tokens' = tokens - 1
    /\ run' = "took"
    /\ UNCHANGED <<ntfns, late, info, subscribed>> /\ RunOnly

TakeNtfn ==
    /\ run = "took" /\ MutexFree
    /\ ntfns' = IF ntfns = 0 THEN 0 ELSE ntfns - 1
    /\ run' = "events"
    /\ UNCHANGED <<tokens, late, info, subscribed>> /\ RunOnly

-----------------------------------------------------------------------------
ClientStep == Connect \/ Disconnect \/ Reregister \/ Progress \/ BlockArrives
HandlerStep == OnDcrdConnected \/ CheckDcrd
BlockStep == OnDcrdBlock \/ OnDcrdBlockLate
RunStep == \/ WaitForDcrdConnection \/ WaitForPeers \/ AskChainInfo \/ CheckSynced
           \/ SyncSleep \/ NotifyBlocks \/ TakeEvent \/ TakeNtfn

Next == ClientStep \/ HandlerStep \/ BlockStep \/ RunStep \/ PeersDeadline

Spec == Init /\ [][Next]_vars

\* Goroutines that can run do, replies arrive while the connection is read, and
\* deadlines pass.  Nothing is assumed of the connection, the nodes or blocks.
FairSpec ==
    /\ Spec
    /\ WF_vars(HandlerStep) /\ WF_vars(BlockStep) /\ WF_vars(RunStep) /\ WF_vars(PeersDeadline)

-----------------------------------------------------------------------------
(***************************************************************************)
(* Properties.                                                             *)
(***************************************************************************)

\* Once every connection has been checked, the server serves requests and takes
\* block notifications exactly when the node it is connected to is suitable,
\* although a check may have been answered by several nodes in turn.
StatusSettles ==
    link /\ waiting = 0 /\ check = 0 => (activeErr = "nil" <=> Suitable(node))

\* No event without a notification, and no notification without an event: the
\* case "Shouldn't really happen unless there's a racing bug somewhere" of
\* Run's event loop does not, and no queued block waits for the next one.
EventsMatchNtfns == ntfns = tokens + (IF run = "took" THEN 1 ELSE 0)

\* Startup gets through its waits once a suitable dcrd stays connected that is
\* synced, or empty, whether or not it ever finds a peer.
StartupWaitsEnd ==
    <>[](/\ link /\ Suitable(node)
         /\ chain.syncHeight = 0 \/ (~chain.ibd /\ chain.blocks = chain.syncHeight
                                      /\ chain.blocks >= BestHeight))
        => <>(run = "events")

\* A block callback "may be called by the main rpcclient goroutine so it must
\* not block for long periods of time": it returns.
CallbackReturns == reader = "blocked" ~> reader = "reading"

\* "Verify we're connected to a suitable dcrd node": the answer that ends the
\* wait for the chain came from a suitable one.
SyncInfoFromSuitable == run = "preprocess" => Suitable(info.from)

=============================================================================
