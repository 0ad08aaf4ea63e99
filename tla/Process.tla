------------------------------- MODULE Process -------------------------------
(***************************************************************************)
(* The process: _main with the dcrd it may start, the goroutines it waits  *)
(* for, the shutdown listener of signal.go, and an HTTP request in flight. *)
(*                                                                         *)
(* main is where _main is.  requestShutdown hands over to the listener,    *)
(* which always receives, so a request is one step of its sender.  The     *)
(* child dcrd is external: it starts, tells so once through the pipe, ends *)
(* when its end of the pipe is closed, and may die at any time.            *)
(***************************************************************************)
EXTENDS Naturals

CONSTANT DbType   \* cfg.DBType: "mem" or "badger"

ASSUME ProcessAssumption == DbType \in {"mem", "badger"}

VARIABLES
    main,         \* the program counter of _main
    canceled,     \* the context of shutdownListener is done
    dcrd,         \* the child: "none", "starting", "up" or "dead"
    pipeClosed,   \* rosPipeTx is closed
    event,        \* the startup event: "none", "sent", "read" or "dropped"
    watcher,      \* the goroutine that handles dcrd closing
    run,          \* the goroutine of Server.Run
    db,           \* "none", "open" or "closed"
    serving,      \* the HTTP listeners accept connections
    request,      \* an HTTP request for a balance
    balance,      \* the balance it answers with
    warned        \* "Terminating process before all connections were done" was logged

childVars == <<dcrd, pipeClosed, event>>
httpVars == <<serving, request, balance, warned>>
vars == <<main, canceled, childVars, watcher, run, db, httpVars>>

\* wg.Wait: the watcher, Run and the listeners' goroutines are done.
AllDone == watcher \in {"none", "done"} /\ run \in {"none", "done"} /\ ~serving

Init ==
    /\ main = "load" /\ canceled = FALSE
    /\ dcrd = "none" /\ pipeClosed = FALSE /\ event = "none"
    /\ watcher = "none" /\ run = "none" /\ db = "none"
    /\ serving = FALSE /\ request = "none" /\ balance = "none" /\ warned = FALSE

-----------------------------------------------------------------------------
(***************************************************************************)
(* _main.                                                                  *)
(***************************************************************************)

\* Mutant: a step that fails returns without waiting for the goroutines.
AbandonAtOnce ==
    /\ main' = "exited"
    /\ canceled' = TRUE

\* A step of _main that fails asks for the shutdown and waits.
Abandon ==
    /\ main' = "wait"
    /\ canceled' = TRUE

\* loadConfig may fail, and so may the start of dcrd; or it leaves RunDcrd empty;
\* or dcrd is started, with its watcher.
LoadConfig ==
    /\ main = "load"
    /\ \/ main' = "exited" /\ UNCHANGED <<dcrd, watcher>>
       \/ main' = "check" /\ UNCHANGED <<dcrd, watcher>>
       \/ main' = "startup" /\ dcrd' = "starting" /\ watcher' = "watching"
    /\ UNCHANGED <<canceled, pipeClosed, event, run, db, httpVars>>

\* The wait for dcrd's startup event or a shutdown.
WaitStartup ==
    /\ main = "startup"
    /\ \/ canceled /\ Abandon
       \/ event = "read" /\ main' = "check" /\ UNCHANGED canceled
    /\ UNCHANGED <<childVars, watcher, run, db, httpVars>>

\* serverConfig and CheckDcrd, which connects to the node and tries it; its
\* answers may come before it notices a shutdown.
CheckDcrd ==
    /\ main = "check"
    /\ \/ Abandon
       \/ main' = "server" /\ UNCHANGED canceled
    /\ UNCHANGED <<childVars, watcher, run, db, httpVars>>

\* NewServer opens the database; then Run starts.
StartServer ==
    /\ main = "server"
    /\ \/ Abandon /\ UNCHANGED <<run, db>>
       \/ main' = "listen" /\ run' = "running" /\ db' = "open" /\ UNCHANGED canceled
    /\ UNCHANGED <<childVars, watcher, httpVars>>

Listen ==
    /\ main = "listen"
    /\ \/ Abandon /\ UNCHANGED serving
       \/ main' = "serve" /\ serving' = TRUE /\ UNCHANGED canceled
    /\ UNCHANGED <<childVars, watcher, run, db, request, balance, warned>>

\* svr.Shutdown closes the listeners and waits for the connections ...
BeginShutdown ==
    /\ main = "serve" /\ canceled
    /\ main' = "shutdown" /\ serving' = FALSE
    /\ UNCHANGED <<canceled, childVars, watcher, run, db, request, balance, warned>>

\* Mutant: the wait for the connections has no limit.
ShutdownNoTimeout ==
    /\ main = "shutdown" /\ request = "none"
    /\ main' = "wait"
    /\ UNCHANGED <<canceled, childVars, watcher, run, db, httpVars>>

\* ... until they are idle or five seconds have passed, in which case it returns
\* the error of its own context: DeadlineExceeded.
Shutdown ==
    /\ main = "shutdown"
    /\ \E err \in IF request = "none" THEN {"nil"} ELSE {"DeadlineExceeded"} :
            warned' = (err = "Canceled")
    /\ main' = "wait"
    /\ UNCHANGED <<canceled, childVars, watcher, run, db, serving, request, balance>>

Wait ==
    /\ main = "wait" /\ AllDone
    /\ main' = "exited"
    /\ UNCHANGED <<canceled, childVars, watcher, run, db, httpVars>>

\* os.Interrupt, or a profiling server that cannot listen.
Interrupt ==
    /\ ~canceled /\ main # "exited"
    /\ canceled' = TRUE
    /\ UNCHANGED <<main, childVars, watcher, run, db, httpVars>>

-----------------------------------------------------------------------------
(***************************************************************************)
(* The child.                                                              *)
(***************************************************************************)

DcrdStarts ==
    /\ dcrd = "starting"
    /\ dcrd' = "up" /\ event' = "sent"
    /\ UNCHANGED <<main, canceled, pipeClosed, watcher, run, db, httpVars>>

DcrdCrashes ==
    /\ dcrd \in {"starting", "up"} /\ dcrd' = "dead"
    /\ UNCHANGED <<main, canceled, pipeClosed, event, watcher, run, db, httpVars>>

DcrdCloses ==
    /\ dcrd \in {"starting", "up"} /\ pipeClosed /\ dcrd' = "dead"
    /\ UNCHANGED <<main, canceled, pipeClosed, event, watcher, run, db, httpVars>>

\* The goroutine that drains the pipe.  A read that returns less than the whole
\* event is skipped, and so is the rest of the event when it comes.
ReadEvent ==
    /\ event = "sent" /\ main # "exited"
    /\ event' \in {"read", "dropped"}
    /\ UNCHANGED <<main, canceled, dcrd, pipeClosed, watcher, run, db, httpVars>>

\* Mutant: on a shutdown the watcher ends without waiting for dcrd.
WatchDcrdNoWait ==
    /\ \/ /\ watcher = "watching" /\ canceled
          /\ pipeClosed' = TRUE /\ watcher' = "done" /\ UNCHANGED canceled
       \/ /\ watcher = "watching" /\ dcrd = "dead"
          /\ canceled' = TRUE /\ watcher' = "done" /\ UNCHANGED pipeClosed
    /\ UNCHANGED <<main, dcrd, event, run, db, httpVars>>

\* The watcher: on a shutdown it closes the pipe and waits for dcrd; when dcrd
\* ends first it asks for the shutdown.
WatchDcrd ==
    /\ \/ /\ watcher = "watching" /\ canceled
          /\ pipeClosed' = TRUE /\ watcher' = "closing" /\ UNCHANGED canceled
       \/ /\ watcher = "closing" /\ dcrd = "dead"
          /\ watcher' = "done" /\ UNCHANGED <<canceled, pipeClosed>>
       \/ /\ watcher = "watching" /\ dcrd = "dead"
          /\ canceled' = TRUE /\ watcher' = "done" /\ UNCHANGED pipeClosed
    /\ UNCHANGED <<main, dcrd, event, run, db, httpVars>>

-----------------------------------------------------------------------------
(***************************************************************************)
(* Run and a request.                                                      *)
(***************************************************************************)

\* Run returns on an error of its own, or because of the shutdown; its deferred
\* function closes the database.
RunReturns ==
    /\ run = "running"
    /\ run' \in {"failed"} \cup (IF canceled THEN {"done"} ELSE {})
    /\ db' = "closed"
    /\ UNCHANGED <<main, canceled, childVars, watcher, httpVars>>

\* Mutant: an error of Run is logged only.
RunFailedLogs ==
    /\ run = "failed"
    /\ run' = "done"
    /\ UNCHANGED <<main, canceled, childVars, watcher, db, httpVars>>

\* The goroutine that called Run asks for the shutdown.
RunFailed ==
    /\ run = "failed"
    /\ canceled' = TRUE /\ run' = "done"
    /\ UNCHANGED <<main, childVars, watcher, db, httpVars>>

\* A request is accepted while the listeners are open; its handler goes on
\* after svr.Shutdown, until the process ends.  MemDB.Close drops the balances
\* and nothing else, so Balance finds none; badger refuses the transaction.
Accept ==
    /\ serving /\ request = "none"
    /\ request' = "open"
    /\ UNCHANGED <<main, canceled, childVars, watcher, run, db, serving, balance, warned>>

HandleRequest ==
    /\ request = "open" /\ main # "exited"
    /\ request' = "read"
    /\ balance' = CASE db = "open"    -> "recorded"
                    [] DbType = "mem" -> "zero"
                    [] OTHER          -> "error"
    /\ UNCHANGED <<main, canceled, childVars, watcher, run, db, serving, warned>>

Answer ==
    /\ request = "read" /\ main # "exited"
    /\ request' = "none" /\ balance' = "none"
    /\ UNCHANGED <<main, canceled, childVars, watcher, run, db, serving, warned>>

Exited ==
    /\ main = "exited"
    /\ UNCHANGED vars

Main ==
    \/ LoadConfig \/ WaitStartup \/ CheckDcrd \/ StartServer \/ Listen
    \/ BeginShutdown \/ Shutdown \/ Wait

Next ==
    \/ Main \/ Interrupt
    \/ DcrdStarts \/ DcrdCrashes \/ DcrdCloses \/ ReadEvent \/ WatchDcrd
    \/ RunReturns \/ RunFailed \/ Accept \/ HandleRequest \/ Answer
    \/ Exited

Spec == Init /\ [][Next]_vars

\* The goroutines of the process run.  dcrd ends when the pipe is closed, and
\* Run, whose waits and RPCs all watch the context, returns when it is done.
\* Nothing is assumed of the requests, of a start of dcrd that takes for ever,
\* or of failures.
FairSpec ==
    /\ Spec
    /\ WF_vars(Main) /\ WF_vars(ReadEvent) /\ WF_vars(WatchDcrd) /\ WF_vars(DcrdCloses)
    /\ WF_vars(RunReturns /\ canceled) /\ WF_vars(RunFailed)

-----------------------------------------------------------------------------
(***************************************************************************)
(* Properties.                                                             *)
(***************************************************************************)

\* The process never leaves the dcrd it started behind, whichever step of
\* _main failed and whenever the shutdown came.
NoOrphanDcrd == main = "exited" => dcrd \in {"none", "dead"}

\* The process never ends with the database open: what Run committed is
\* flushed by Close.
DbClosedAtExit == main = "exited" => db # "open"

\* A shutdown that was asked for, by the user or by a goroutine that failed,
\* ends the process: nobody waits for somebody who waits for it, and a request
\* that never ends cannot hold it.
ShutdownEnds == canceled ~> main = "exited"

\* The death of dcrd and a fatal error of Run end the process, whatever _main
\* is waiting for.
FailureEnds == dcrd = "dead" \/ run = "failed" ~> main = "exited"

\* ReadTx.Balance's contract holds for every request that is answered: zero is
\* for accounts without a balance, not for a database that was closed.
AnswersRecordedBalance == balance # "zero"

\* The comment on dcrdStartupDoneChan: it is signalled when dcrd's startup is
\* done; so _main goes on once dcrd is up.
StartupSeen == event = "sent" ~> main # "startup"

\* The message of _main: it is logged when the process ends before all
\* connections were done.
TruncationReported == main = "exited" /\ db = "closed" /\ request # "none" => warned
=============================================================================
