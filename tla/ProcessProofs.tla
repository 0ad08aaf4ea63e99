---------------------------- MODULE ProcessProofs ----------------------------
(***************************************************************************)
(* What holds when the process has ended, whichever step of _main failed,  *)
(* whenever the shutdown came and in whatever order the goroutines ran.    *)
(***************************************************************************)
EXTENDS Process, TLAPS

\* _main before it starts Run.
BeforeRun == {"load", "startup", "check", "server"}

\* The types of the parts of the state the two theorems are about.
ProcessTypes ==
    /\ main \in BeforeRun \cup {"listen", "serve", "shutdown", "wait", "exited"}
    /\ dcrd \in {"none", "starting", "up", "dead"}
    /\ watcher \in {"none", "watching", "closing", "done"}
    /\ run \in {"none", "running", "failed", "done"}
    /\ db \in {"none", "open", "closed"}

\* A child has a watcher from the start, and the watcher only leaves a dead one.
WatcherInv ==
    /\ main = "load" => watcher = "none"
    /\ watcher = "none" => dcrd = "none"
    /\ watcher = "done" => dcrd = "dead"

\* The database is open exactly while Run runs.
RunInv ==
    /\ main \in BeforeRun => run = "none"
    /\ db = "open" <=> run = "running"

\* _main only ends when it started no goroutine or wg.Wait saw them all done.
ExitInv == main = "exited" => watcher \in {"none", "done"} /\ run \in {"none", "done"}

ProcessInv == ProcessTypes /\ WatcherInv /\ RunInv /\ ExitInv

\* Every step keeps the invariant: _main's own, those of the child and its
\* watcher, and those of Run and the requests.
LEMMA ProcessNext == ProcessInv /\ [Next]_vars => ProcessInv'
<1> SUFFICES ASSUME ProcessInv, [Next]_vars PROVE ProcessInv'
    OBVIOUS
<1> USE DEF ProcessInv, ProcessTypes, WatcherInv, RunInv, ExitInv, BeforeRun
<1>1. CASE LoadConfig
    BY <1>1 DEF LoadConfig, httpVars
<1>2. CASE WaitStartup
    BY <1>2 DEF WaitStartup, Abandon, childVars
<1>3. CASE CheckDcrd
    BY <1>3 DEF CheckDcrd, Abandon, childVars
<1>4. CASE StartServer
    BY <1>4 DEF StartServer, Abandon, childVars
<1>5. CASE Listen
    BY <1>5 DEF Listen, Abandon, childVars
<1>6. CASE BeginShutdown \/ Shutdown
    BY <1>6 DEF BeginShutdown, Shutdown, childVars
<1>7. CASE Wait
    BY <1>7 DEF Wait, AllDone, childVars
<1>8. CASE DcrdStarts \/ DcrdCrashes \/ DcrdCloses
    BY <1>8 DEF DcrdStarts, DcrdCrashes, DcrdCloses
<1>9. CASE WatchDcrd
    BY <1>9 DEF WatchDcrd
<1>10. CASE RunReturns
    BY <1>10 DEF RunReturns, childVars
<1>11. CASE RunFailed
    BY <1>11 DEF RunFailed, childVars
<1>12. CASE Interrupt \/ ReadEvent
    BY <1>12 DEF Interrupt, ReadEvent, childVars
<1>13. CASE Accept \/ HandleRequest \/ Answer
    BY <1>13 DEF Accept, HandleRequest, Answer, childVars
<1>14. CASE Exited \/ UNCHANGED vars
    BY <1>14 DEF Exited, vars, childVars
<1> QED BY <1>1, <1>2, <1>3, <1>4, <1>5, <1>6, <1>7, <1>8, <1>9, <1>10, <1>11, <1>12, <1>13, <1>14
        DEF Next, Main

\* The invariant holds always.
LEMMA AlwaysProcess == Spec => []ProcessInv
<1>1. Init => ProcessInv
    BY DEF Init, ProcessInv, ProcessTypes, WatcherInv, RunInv, ExitInv, BeforeRun
<1> QED BY <1>1, ProcessNext, PTL DEF Spec

\* The dcrd the process started is gone when the process is: every path of
\* _main that ends after the start goes through wg.Wait, and the watcher it
\* waits for only returns once dcrd has ended.
THEOREM NoOrphanTheorem == Spec => []NoOrphanDcrd
<1>1. ProcessInv => NoOrphanDcrd
    BY DEF ProcessInv, WatcherInv, ExitInv, NoOrphanDcrd
<1> QED BY <1>1, AlwaysProcess, PTL

\* The database Run works on is closed when the process ends: Run is the only
\* one to hold it open, closes it on every return, and is waited for.
THEOREM DbClosedTheorem == Spec => []DbClosedAtExit
<1>1. ProcessInv => DbClosedAtExit
    BY DEF ProcessInv, RunInv, ExitInv, DbClosedAtExit
<1> QED BY <1>1, AlwaysProcess, PTL

=============================================================================
