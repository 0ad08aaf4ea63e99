---------------------------- MODULE DcrdConnProofs ---------------------------
(***************************************************************************)
(* What DcrdConn guarantees for any set of nodes, any outcome of their     *)
(* checks and any number of connections and notifications under way.       *)
(***************************************************************************)
EXTENDS DcrdConn, TLAPS

\* The notification a blocked reader is about to queue.
Held == IF reader = "blocked" THEN 1 ELSE 0

\* The queued notifications and the callbacks under way share one bound; a lost
\* connection leaves room for the handler of the next.
BoundsInv ==
    /\ ntfns + old + Held <= MaxNtfns
    /\ ~link => waiting < MaxHandlers

\* With no connection left to check, either the status is that of the current
\* node or its check is under way, and every check made so far was answered by
\* that node: had the node changed since, its own handler would be waiting.
StatusInv ==
    link /\ waiting = 0 =>
        IF check = 0 THEN activeErr = "nil" <=> Suitable(node)
        ELSE \A i \in 1..(check - 1) : Passes(node, i)

ConnInv == TypeOK /\ BoundsInv /\ EventsMatchNtfns /\ StatusInv

\* The initial state.
LEMMA ConnInit == Init => ConnInv
<1> SUFFICES ASSUME Init PROVE ConnInv
    OBVIOUS
<1>1. {peers, link, registered, late, subscribed} \subseteq BOOLEAN
    BY DEF Init
<1>2. info \in [from : Nodes, chain : Infos]
    BY DEF Init
<1>3. TypeOK
    BY <1>1, <1>2, ConnAssumption DEF Init, TypeOK, Checks, RunPCs
<1>4. BoundsInv /\ EventsMatchNtfns /\ StatusInv
    BY ConnAssumption DEF Init, BoundsInv, Held, EventsMatchNtfns, StatusInv
<1> QED BY <1>3, <1>4 DEF ConnInv

\* The connection is lost, comes back, perhaps to another node, and delivers.
LEMMA ClientStepInv == ConnInv /\ ClientStep => ConnInv'
<1> SUFFICES ASSUME ConnInv, ClientStep PROVE ConnInv'
    OBVIOUS
<1> USE ConnAssumption DEF ConnInv, TypeOK, BoundsInv, Held, EventsMatchNtfns, StatusInv, Checks, RunPCs
<1>1. CASE Connect
    BY <1>1 DEF Connect, ntfnVars, runVars
<1>2. CASE Disconnect
    BY <1>2 DEF Disconnect, ntfnVars, runVars
<1>3. CASE Reregister
    BY <1>3 DEF Reregister, ntfnVars, runVars, Suitable
<1>4. CASE Progress
    BY <1>4 DEF Progress, ntfnVars, runVars, Suitable
<1>5. CASE BlockArrives
    BY <1>5 DEF BlockArrives, Replies, ntfnVars, runVars, Suitable
<1> QED BY <1>1, <1>2, <1>3, <1>4, <1>5 DEF ClientStep

\* onDcrdConnected and the RPCs of checkDcrd.
LEMMA HandlerStepInv == ConnInv /\ HandlerStep => ConnInv'
<1> SUFFICES ASSUME ConnInv, HandlerStep PROVE ConnInv'
    OBVIOUS
<1>1. CASE OnDcrdConnected
    BY <1>1, ConnAssumption
    DEF OnDcrdConnected, ConnInv, TypeOK, BoundsInv, Held, EventsMatchNtfns, StatusInv, Checks,
        RunPCs, connVars, ntfnVars, runVars
<1>2. CASE CheckDcrd
    <2>1. TypeOK' /\ BoundsInv' /\ EventsMatchNtfns'
        BY <1>2, ConnAssumption
        DEF CheckDcrd, ConnInv, TypeOK, BoundsInv, Held, EventsMatchNtfns, Checks, RunPCs,
            connVars, ntfnVars, runVars
    <2>2. StatusInv'
        <3> SUFFICES ASSUME link, waiting = 0
                     PROVE  IF check' = 0 THEN activeErr' = "nil" <=> Suitable(node)
                            ELSE \A i \in 1..(check' - 1) : Passes(node, i)
            BY <1>2 DEF CheckDcrd, StatusInv, Suitable, connVars
        <3>1. check \in 1..3 /\ \A i \in 1..(check - 1) : Passes(node, i)
            BY <1>2 DEF CheckDcrd, ConnInv, TypeOK, StatusInv, Checks
        <3>2. CASE ~Passes(node, check)
            BY <1>2, <3>1, <3>2 DEF CheckDcrd, Suitable, Checks
        <3>3. CASE Passes(node, check) /\ check < 3
            <4>1. check' = check + 1 /\ check' # 0 BY <1>2, <3>1, <3>3 DEF CheckDcrd
            <4>2. \A i \in 1..(check' - 1) : i = check \/ i \in 1..(check - 1) BY <3>1, <4>1
            <4> QED BY <3>1, <3>3, <4>1, <4>2
        <3>4. CASE Passes(node, check) /\ check = 3
            <4>1. check' = 0 /\ activeErr' = "nil" BY <1>2, <3>4 DEF CheckDcrd
            <4>2. \A i \in 1..3 : i = check \/ i \in 1..(check - 1) BY <3>4
            <4>3. Suitable(node) BY <3>1, <3>4, <4>2 DEF Suitable, Checks
            <4> QED BY <4>1, <4>3
        <3> QED BY <3>1, <3>2, <3>3, <3>4
    <2> QED BY <2>1, <2>2 DEF ConnInv
<1> QED BY <1>1, <1>2 DEF HandlerStep

\* The block callbacks, on the current connection and on earlier ones.
LEMMA BlockStepInv == ConnInv /\ BlockStep => ConnInv'
<1> SUFFICES ASSUME ConnInv, BlockStep PROVE ConnInv'
    OBVIOUS
<1> USE ConnAssumption DEF ConnInv, TypeOK, BoundsInv, Held, EventsMatchNtfns, StatusInv, Checks, RunPCs
<1>1. CASE OnDcrdBlock
    BY <1>1 DEF OnDcrdBlock, QueueNtfn, MutexFree, ntfnVars, runVars, Suitable
<1>2. CASE OnDcrdBlockLate
    BY <1>2 DEF OnDcrdBlockLate, QueueNtfn, MutexFree, ntfnVars, runVars, Suitable
<1> QED BY <1>1, <1>2 DEF BlockStep

\* Run's waits and its event loop leave the connection and the status alone.
LEMMA RunStepInv == ConnInv /\ (RunStep \/ PeersDeadline) => ConnInv'
<1> SUFFICES ASSUME ConnInv, RunStep \/ PeersDeadline PROVE ConnInv'
    OBVIOUS
<1>1. StatusInv'
    BY DEF RunStep, WaitForDcrdConnection, WaitForPeers, AskChainInfo, CheckSynced, SyncSleep,
           NotifyBlocks, TakeEvent, TakeNtfn, PeersDeadline, RunOnly, connVars,
           ConnInv, StatusInv, Suitable
<1> USE ConnAssumption DEF ConnInv, TypeOK, BoundsInv, Held, EventsMatchNtfns, Checks, RunPCs,
                           RunOnly, connVars, ntfnVars
<1>2. CASE WaitForDcrdConnection
    BY <1>1, <1>2 DEF WaitForDcrdConnection
<1>3. CASE WaitForPeers \/ PeersDeadline
    BY <1>1, <1>3 DEF WaitForPeers, PeersDeadline
<1>4. CASE AskChainInfo
    <2>1. info' \in [from : Nodes, chain : Infos] BY <1>4 DEF AskChainInfo
    <2> QED BY <1>1, <1>4, <2>1 DEF AskChainInfo
<1>5. CASE CheckSynced
    BY <1>1, <1>5 DEF CheckSynced
<1>6. CASE SyncSleep
    BY <1>1, <1>6 DEF SyncSleep
<1>7. CASE NotifyBlocks
    BY <1>1, <1>7 DEF NotifyBlocks
<1>8. CASE TakeEvent
    BY <1>1, <1>8 DEF TakeEvent
<1>9. CASE TakeNtfn
    BY <1>1, <1>9 DEF TakeNtfn
<1> QED BY <1>2, <1>3, <1>4, <1>5, <1>6, <1>7, <1>8, <1>9 DEF RunStep

\* The invariant holds always.
LEMMA AlwaysConn == Spec => []ConnInv
<1>1. ConnInv /\ UNCHANGED vars => ConnInv'
    BY DEF vars, connVars, ntfnVars, runVars, ConnInv, TypeOK, BoundsInv, Held,
           EventsMatchNtfns, StatusInv, Suitable
<1>2. ConnInv /\ [Next]_vars => ConnInv'
    BY <1>1, ClientStepInv, HandlerStepInv, BlockStepInv, RunStepInv DEF Next
<1> QED BY <1>2, ConnInit, PTL DEF Spec

-----------------------------------------------------------------------------
(* The theorems.                                                           *)

\* Every variable keeps its type; the queue of notifications, the goroutines
\* that signal them and the callbacks under way stay within their bounds.
THEOREM ConnTypeCorrect == Spec => []TypeOK
<1>1. ConnInv => TypeOK BY DEF ConnInv
<1> QED BY <1>1, AlwaysConn, PTL

\* When every connection has been checked, dcrdActiveErr is nil exactly when
\* the node at the other end is suitable, however often the connection moved
\* to another node while checkDcrd was making its calls.
THEOREM StatusTheorem == Spec => []StatusSettles
<1>1. ConnInv => StatusSettles BY DEF ConnInv, StatusInv, StatusSettles
<1> QED BY <1>1, AlwaysConn, PTL

\* Each event Run takes from blockNtfnsChan finds its notification in
\* blockNtfns, and each queued notification has its event: the branch of Run
\* that comments on a racing bug is dead.
THEOREM EventsTheorem == Spec => []EventsMatchNtfns
<1>1. ConnInv => EventsMatchNtfns BY DEF ConnInv
<1> QED BY <1>1, AlwaysConn, PTL

=============================================================================
