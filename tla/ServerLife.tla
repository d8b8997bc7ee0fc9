------------------------------ MODULE ServerLife ------------------------------
(***************************************************************************)
(* The server as a whole: the goroutine of Server.Start, the Worker, the   *)
(* handler of each connection with the limit on their number, and          *)
(* Server.Shutdown, called by the serve command when it gets a signal.     *)
(*                                                                         *)
(* A connection brings at most one task, so a task is named by its         *)
(* connection. The queue is that of TaskQueue without its messages; what a *)
(* session does with the connection is SessionLife's, and what a run does  *)
(* is the Executor's, but for what they do to qm.mu: FeedInput and the     *)
(* wait for the health goroutine may keep it for ever. The panics that end *)
(* the whole process (SessionLife) are left out.                           *)
(***************************************************************************)
EXTENDS Integers, Sequences, FiniteSets, SequencesExt

CONSTANTS
  Conns,    \* the connections clients make
  MaxConn,  \* TaskHandler.maxConn
  NoConn    \* no task is active

ASSUME ServerConstantsOK ==
  /\ IsFiniteSet(Conns)
  /\ MaxConn \in Int
  /\ NoConn \notin Conns

VARIABLES
  start,      \* where the goroutine that called Server.Start is
  main,       \* where the serve command, then Server.Shutdown, is
  seenSrv,    \* whether Shutdown found s.srv assigned
  expired,    \* whether the context of Shutdown has expired
  err,        \* the error Shutdown returns is not nil
  inShutdown, \* http.Server.inShutdown
  ctxDone,    \* whether the Worker's context has been cancelled
  conn,       \* where each connection, then its handler, is
  activeConn, \* TaskHandler.activeConn
  peak,       \* history: most handlers there were between Load and Add at a time
  worker,     \* where the Worker is
  queue,      \* qm.queue
  active,     \* qm.activeTask
  cancelled,  \* the tasks whose context has been cancelled
  ended,      \* the tasks whose channel has been closed
  mu,         \* qm.mu: free, or held by the Worker or the handler of a connection
  stdin,      \* Task.StdInWriter of the active task: nil, or the write end of a pipe
  hung        \* whether the health goroutine of its session waits for its own end

shutVars == <<main, seenSrv, expired, err, inShutdown>>
connVars == <<conn, activeConn, peak>>
queueVars == <<queue, active, cancelled, ended>>
lockVars == <<mu, stdin, hung>>
taskVars == <<queueVars, lockVars>>
vars == <<start, shutVars, ctxDone, connVars, worker, taskVars>>

\* The connections that the HTTP server still knows; an upgrade hijacks them.
Plain == {"accepted", "load", "add", "upgrade", "failed"}

\* The handlers that have been counted and will be discounted.
Counted == {"upgrade", "failed", "handshake", "enqueue", "route", "unregister", "release"}

At(places) == {c \in Conns : conn[c] \in places}
Move(c, from, to) == conn[c] = from /\ conn' = [conn EXCEPT ![c] = to]

Larger(a, b) == IF a > b THEN a ELSE b

-----------------------------------------------------------------------------
Init ==
  /\ start = "worker"
  /\ main = "signal"
  /\ seenSrv = FALSE
  /\ expired = FALSE
  /\ err = FALSE
  /\ inShutdown = FALSE
  /\ ctxDone = FALSE
  /\ conn = [c \in Conns |-> "out"]
  /\ activeConn = 0
  /\ peak = 0
  /\ worker = "none"
  /\ queue = <<>>
  /\ active = NoConn
  /\ cancelled = {}
  /\ ended = {}
  /\ mu = "free"
  /\ stdin = "nil"
  /\ hung = FALSE

-----------------------------------------------------------------------------
(* Server.Start. *)

\* Mutant: the Worker is started after the server has been assigned.
startWorkerLast ==
  /\ \/ start = "worker" /\ start' = "assign" /\ UNCHANGED worker
     \/ start = "accept" /\ worker = "none" /\ worker' = "dequeue" /\ UNCHANGED start
  /\ UNCHANGED <<shutVars, ctxDone, connVars, taskVars>>

startWorker ==
  /\ start = "worker"
  /\ start' = "assign"
  /\ worker' = "dequeue"
  /\ UNCHANGED <<shutVars, ctxDone, connVars, taskVars>>

AssignServer ==
  /\ start = "assign"
  /\ start' = "listen"
  /\ UNCHANGED <<shutVars, ctxDone, connVars, worker, taskVars>>

\* A server that was shut down before it listens does not listen any more.
Listen ==
  /\ start = "listen"
  /\ start' = IF inShutdown THEN "returned" ELSE "accept"
  /\ UNCHANGED <<shutVars, ctxDone, connVars, worker, taskVars>>

ServerClosed ==
  /\ start = "accept"
  /\ inShutdown
  /\ start' = "returned"
  /\ UNCHANGED <<shutVars, ctxDone, connVars, worker, taskVars>>

\* Any other error of ListenAndServe ends the process: log.Fatalf.
ListenFails ==
  /\ start \in {"listen", "accept"}
  /\ ~inShutdown
  /\ start' = "returned"
  /\ main' = "fatal"
  /\ UNCHANGED <<seenSrv, expired, err, inShutdown, ctxDone, connVars, worker, taskVars>>

-----------------------------------------------------------------------------
(* WebSocketHandler and processConnection. *)

Accept(c) ==
  /\ start = "accept"
  /\ ~inShutdown
  /\ Move(c, "out", "accepted")
  /\ UNCHANGED <<start, shutVars, ctxDone, activeConn, peak, worker, taskVars>>

\* The client sends its request, also when the listener is closed by now.
Request(c) ==
  /\ Move(c, "accepted", "load")
  /\ UNCHANGED <<start, shutVars, ctxDone, activeConn, peak, worker, taskVars>>

\* Mutant: one too many.
LoadOffByOne(c) ==
  /\ activeConn <= MaxConn
  /\ Move(c, "load", "add")
  /\ peak' = Larger(peak, Cardinality(At({"add"})) + 1)
  /\ UNCHANGED <<start, shutVars, ctxDone, activeConn, worker, taskVars>>

\* The limit is looked at here ...
Load(c) ==
  /\ activeConn < MaxConn
  /\ Move(c, "load", "add")
  /\ peak' = Larger(peak, Cardinality(At({"add"})) + 1)
  /\ UNCHANGED <<start, shutVars, ctxDone, activeConn, worker, taskVars>>

Refuse(c) ==
  /\ activeConn >= MaxConn
  /\ Move(c, "load", "done")
  /\ UNCHANGED <<start, shutVars, ctxDone, activeConn, peak, worker, taskVars>>

\* ... and the handler is counted here.
Add(c) ==
  /\ Move(c, "add", "upgrade")
  /\ activeConn' = activeConn + 1
  /\ UNCHANGED <<start, shutVars, ctxDone, peak, worker, taskVars>>

Upgrade(c) ==
  /\ Move(c, "upgrade", "handshake")
  /\ UNCHANGED <<start, shutVars, ctxDone, activeConn, peak, worker, taskVars>>

\* Mutant: the decrement is deferred after the upgrade.
UpgradeFailsUncounted(c) ==
  /\ Move(c, "upgrade", "done")
  /\ UNCHANGED <<start, shutVars, ctxDone, activeConn, peak, worker, taskVars>>

UpgradeFails(c) ==
  /\ Move(c, "upgrade", "failed")
  /\ UNCHANGED <<start, shutVars, ctxDone, activeConn, peak, worker, taskVars>>

\* The first message must be an execute command, and come within ten minutes.
Handshake(c) ==
  /\ Move(c, "handshake", "enqueue")
  /\ UNCHANGED <<start, shutVars, ctxDone, activeConn, peak, worker, taskVars>>

HandshakeFails(c) ==
  /\ Move(c, "handshake", "release")
  /\ UNCHANGED <<start, shutVars, ctxDone, activeConn, peak, worker, taskVars>>

\* Nothing tells the handler that the server is shutting down, or has been.
Enqueue(c) ==
  /\ mu = "free"
  /\ Move(c, "enqueue", "route")
  /\ queue' = Append(queue, c)
  /\ UNCHANGED <<start, shutVars, ctxDone, activeConn, peak, worker, active, cancelled, ended,
                 lockVars>>

\* The router feeds the active task, and keeps the mutex while it writes ...
FeedInput(c) ==
  /\ conn[c] = "route"
  /\ active = c
  /\ stdin # "nil"
  /\ mu = "free"
  /\ mu' = c
  /\ UNCHANGED <<start, shutVars, ctxDone, connVars, worker, queueVars, stdin, hung>>

FeedReturns(c) ==
  /\ conn[c] = "route"
  /\ mu = c
  /\ mu' = "free"
  /\ UNCHANGED <<start, shutVars, ctxDone, connVars, worker, queueVars, stdin, hung>>

\* ... until a command that has been started takes the input, or the pipe is closed.
FeedTaken(c) == stdin = "open" /\ worker \in {"startHealth", "run"} /\ FeedReturns(c)
FeedFails(c) == stdin = "closed" /\ FeedReturns(c)

\* The task has ended and its client was told, or the client has gone.
RouterEnds(c) ==
  /\ mu # c
  /\ Move(c, "route", "unregister")
  /\ UNCHANGED <<start, shutVars, ctxDone, activeConn, peak, worker, taskVars>>

\* UnregisterSession drops a waiting task and cancels the active one.
UnregisterWaiting(c) ==
  /\ mu = "free"
  /\ Move(c, "unregister", "release")
  /\ \E i \in DOMAIN queue : queue[i] = c /\ queue' = RemoveAt(queue, i)
  /\ ended' = ended \cup {c}
  /\ cancelled' = cancelled \cup {c}
  /\ UNCHANGED <<start, shutVars, ctxDone, activeConn, peak, worker, active, lockVars>>

UnregisterStarted(c) ==
  /\ mu = "free"
  /\ ~(hung /\ active = c)
  /\ Move(c, "unregister", "release")
  /\ c \notin ToSet(queue)
  /\ cancelled' = IF active = c THEN cancelled \cup {c} ELSE cancelled
  /\ UNCHANGED <<start, shutVars, ctxDone, activeConn, peak, worker, queue, active, ended,
                 lockVars>>

\* It first waits for the health goroutine, with the mutex held.
UnregisterHangs(c) ==
  /\ conn[c] = "unregister"
  /\ mu = "free"
  /\ hung /\ active = c
  /\ mu' = c
  /\ UNCHANGED <<start, shutVars, ctxDone, connVars, worker, queueVars, stdin, hung>>

\* The deferred decrement.
Release(c) ==
  /\ Move(c, "release", "done") \/ Move(c, "failed", "done")
  /\ activeConn' = activeConn - 1
  /\ UNCHANGED <<start, shutVars, ctxDone, peak, worker, taskVars>>

-----------------------------------------------------------------------------
(* The Worker. *)

Dequeue ==
  /\ worker = "dequeue"
  /\ mu = "free"
  /\ queue # <<>>
  /\ active' = Head(queue)
  /\ queue' = Tail(queue)
  /\ worker' = "prepare"
  /\ UNCHANGED <<start, shutVars, ctxDone, connVars, cancelled, ended, lockVars>>

DequeueEmpty ==
  /\ worker = "dequeue"
  /\ mu = "free"
  /\ queue = <<>>
  /\ worker' = "wait"
  /\ UNCHANGED <<start, shutVars, ctxDone, connVars, taskVars>>

\* No wake-up is lost (TaskQueue); a needless one only repeats DequeueEmpty.
DequeueWake ==
  /\ worker = "wait"
  /\ queue # <<>>
  /\ worker' = "dequeue"
  /\ UNCHANGED <<start, shutVars, ctxDone, connVars, taskVars>>

\* The Worker is in Run from here to CloseMsgChan; an interactive task gets a pipe.
prepareCommand ==
  /\ worker = "prepare"
  /\ stdin' \in {"nil", "open"}
  /\ worker' = "start"
  /\ UNCHANGED <<start, shutVars, ctxDone, connVars, queueVars, mu, hung>>

StartCommand ==
  /\ worker = "start"
  /\ active \notin cancelled
  /\ worker' = "startHealth"
  /\ UNCHANGED <<start, shutVars, ctxDone, connVars, taskVars>>

\* Run returns without a command, and leaves the pipe open. (If FeedInput is stuck in
\* it, the error message may also find the outbox full: SessionLife.)
StartFails ==
  /\ worker \in {"prepare", "start"}
  /\ worker' = "close"
  /\ UNCHANGED <<start, shutVars, ctxDone, connVars, taskVars>>

startHealthCheck ==
  /\ worker = "startHealth"
  /\ mu = "free"
  /\ worker' = "run"
  /\ UNCHANGED <<start, shutVars, ctxDone, connVars, taskVars>>

\* The command has ended, its output has been read and its pipe is closed.
CommandEnds ==
  /\ worker = "run"
  /\ stdin' = IF stdin = "open" THEN "closed" ELSE stdin
  /\ worker' = "stop"
  /\ UNCHANGED <<start, shutVars, ctxDone, connVars, queueVars, mu, hung>>

\* Run waits for the health goroutine with the mutex held, and returns.
StopHealthCheck ==
  /\ worker = "stop"
  /\ mu = "free"
  /\ mu' = "worker"
  /\ worker' = "stopping"
  /\ UNCHANGED <<start, shutVars, ctxDone, connVars, queueVars, stdin, hung>>

StopHealthReturns ==
  /\ worker = "stopping"
  /\ ~hung
  /\ mu' = "free"
  /\ worker' = "close"
  /\ UNCHANGED <<start, shutVars, ctxDone, connVars, queueVars, stdin, hung>>

\* A ping has failed: the goroutine is in Session.Close and waits there for itself.
HealthHangs ==
  /\ worker \in {"run", "stop", "stopping"}
  /\ conn[active] \in {"route", "unregister"}
  /\ ~hung
  /\ hung' = TRUE
  /\ UNCHANGED <<start, shutVars, ctxDone, connVars, worker, queueVars, mu, stdin>>

\* Mutant: the channel is not closed after the run.
CloseMsgChanNever ==
  /\ worker = "close"
  /\ worker' = "complete"
  /\ UNCHANGED <<start, shutVars, ctxDone, connVars, taskVars>>

CloseMsgChan ==
  /\ worker = "close"
  /\ worker' = "complete"
  /\ ended' = ended \cup {active}
  /\ UNCHANGED <<start, shutVars, ctxDone, connVars, queue, active, cancelled, lockVars>>

CompleteActive ==
  /\ worker = "complete"
  /\ mu = "free"
  /\ active' = NoConn
  /\ stdin' = "nil"
  /\ worker' = "delay"
  /\ UNCHANGED <<start, shutVars, ctxDone, connVars, queue, cancelled, ended, mu, hung>>

\* Also when the context is done: select chooses at random.
DelayOver ==
  /\ worker = "delay"
  /\ worker' = "dequeue"
  /\ UNCHANGED <<start, shutVars, ctxDone, connVars, taskVars>>

WorkerExit ==
  /\ worker \in {"wait", "delay"}
  /\ ctxDone
  /\ worker' = "exited"
  /\ UNCHANGED <<start, shutVars, ctxDone, connVars, taskVars>>

-----------------------------------------------------------------------------
(* The serve command and Server.Shutdown. *)

\* After a signal; s.srv is read without a lock while Start may assign it.
Signal ==
  /\ main = "signal"
  /\ seenSrv' = (start \notin {"worker", "assign"})
  /\ inShutdown' = seenSrv'
  /\ main' = IF seenSrv' THEN "http" ELSE "cancel"
  /\ UNCHANGED <<start, expired, err, ctxDone, connVars, worker, taskVars>>

Expire ==
  /\ main \notin {"signal", "fatal", "returned"}
  /\ ~expired
  /\ expired' = TRUE
  /\ UNCHANGED <<start, main, seenSrv, err, inShutdown, ctxDone, connVars, worker, taskVars>>

\* http.Server.Shutdown closes connections that have been idle for a while ...
CloseIdle(c) ==
  /\ main = "http"
  /\ Move(c, "accepted", "done")
  /\ UNCHANGED <<start, shutVars, ctxDone, activeConn, peak, worker, taskVars>>

\* ... and returns when there are no others, hijacked ones not counted ...
HTTPShutdown ==
  /\ main = "http"
  /\ At(Plain) = {}
  /\ main' = "cancel"
  /\ UNCHANGED <<start, seenSrv, expired, err, inShutdown, ctxDone, connVars, worker, taskVars>>

\* ... or with an error when the context has expired.
HTTPShutdownFails ==
  /\ main = "http"
  /\ expired
  /\ err' = TRUE
  /\ main' = "cancel"
  /\ UNCHANGED <<start, seenSrv, expired, inShutdown, ctxDone, connVars, worker, taskVars>>

\* Mutant: the Worker is not told.
CancelNothing ==
  /\ main = "cancel"
  /\ main' = "wait"
  /\ UNCHANGED <<start, seenSrv, expired, err, inShutdown, ctxDone, connVars, worker, taskVars>>

Cancel ==
  /\ main = "cancel"
  /\ ctxDone' = TRUE
  /\ main' = "wait"
  /\ UNCHANGED <<start, seenSrv, expired, err, inShutdown, connVars, worker, taskVars>>

\* Mutant: the wait ends with the context.
WaitOrExpire ==
  /\ main = "wait"
  /\ worker \in {"none", "exited"} \/ expired
  /\ main' = "queue"
  /\ UNCHANGED <<start, seenSrv, expired, err, inShutdown, ctxDone, connVars, worker, taskVars>>

\* wg.Wait, which knows no context: the Worker has exited or was not started yet.
Wait ==
  /\ main = "wait"
  /\ worker \in {"none", "exited"}
  /\ main' = "queue"
  /\ UNCHANGED <<start, seenSrv, expired, err, inShutdown, ctxDone, connVars, worker, taskVars>>

QueueShutdown ==
  /\ main = "queue"
  /\ mu = "free"
  /\ main' = "returned"
  /\ cancelled' = cancelled \cup ToSet(queue) \cup ({active} \ {NoConn})
  /\ ended' = ended \cup ToSet(queue)
  /\ queue' = <<>>
  /\ UNCHANGED <<start, seenSrv, expired, err, inShutdown, ctxDone, connVars, worker, active,
                 lockVars>>

-----------------------------------------------------------------------------
Start == startWorker \/ AssignServer \/ Listen \/ ServerClosed

processConnection(c) ==
  \/ Enqueue(c) \/ FeedFails(c)
  \/ UnregisterWaiting(c) \/ UnregisterStarted(c) \/ UnregisterHangs(c) \/ Release(c)

WebSocketHandler(c) ==
  \/ Load(c) \/ Refuse(c) \/ Add(c)
  \/ Upgrade(c) \/ UpgradeFails(c)
  \/ Handshake(c) \/ HandshakeFails(c)
  \/ processConnection(c)

Run ==
  \/ prepareCommand \/ StartCommand \/ StartFails \/ startHealthCheck
  \/ StopHealthCheck \/ StopHealthReturns

Worker ==
  \/ Dequeue \/ DequeueEmpty \/ DequeueWake
  \/ Run \/ CloseMsgChan \/ CompleteActive
  \/ DelayOver \/ WorkerExit

Shutdown ==
  \/ \E c \in Conns : CloseIdle(c)
  \/ HTTPShutdown \/ HTTPShutdownFails \/ Cancel \/ Wait \/ QueueShutdown

Client(c) == Accept(c) \/ Request(c) \/ FeedInput(c) \/ FeedTaken(c) \/ RouterEnds(c)

Next ==
  /\ main # "fatal"
  /\ \/ Start \/ ListenFails
     \/ \E c \in Conns : Client(c) \/ WebSocketHandler(c)
     \/ Worker \/ CommandEnds \/ HealthHangs
     \/ Signal \/ Expire \/ Shutdown

Spec == Init /\ [][Next]_vars

(* Fairness. Goroutines go on when they can, the Worker also when others     *)
(* keep taking the mutex, and the five seconds of Shutdown pass. The         *)
(* handshake has a deadline. The client of a task that ended is told and its *)
(* handler goes on, unless the queue manager cancelled the task: then the    *)
(* handler may linger (SessionLife). A cancelled command is killed; a        *)
(* command need not end by itself nor read its input, and no signal need     *)
(* come.                                                                     *)
FairSpec ==
  /\ Spec
  /\ WF_vars(main # "fatal" /\ Start)
  /\ \A c \in Conns : WF_vars(main # "fatal" /\ WebSocketHandler(c))
  /\ \A c \in Conns : WF_vars(main # "fatal" /\ c \in ended \ cancelled /\ RouterEnds(c))
  /\ SF_vars(main # "fatal" /\ Worker)
  /\ WF_vars(main # "fatal" /\ active \in cancelled /\ CommandEnds)
  /\ WF_vars(Expire)
  /\ WF_vars(Shutdown)

-----------------------------------------------------------------------------
(* Properties. *)

ShutdownTypes ==
  /\ start \in {"worker", "assign", "listen", "accept", "returned"}
  /\ main \in {"signal", "http", "cancel", "wait", "queue", "returned", "fatal"}
  /\ seenSrv \in BOOLEAN /\ expired \in BOOLEAN /\ err \in BOOLEAN
  /\ inShutdown \in BOOLEAN /\ ctxDone \in BOOLEAN

TaskTypes ==
  /\ worker \in {"none", "dequeue", "wait", "prepare", "start", "startHealth", "run", "stop",
                "stopping", "close", "complete", "delay", "exited"}
  /\ queue \in Seq(Conns)
  /\ active \in Conns \cup {NoConn}
  /\ cancelled \subseteq Conns
  /\ ended \subseteq Conns
  /\ mu \in {"free", "worker"} \cup Conns
  /\ stdin \in {"nil", "open", "closed"}
  /\ hung \in BOOLEAN

\* The type invariant; the counter of connections never goes below zero.
TypeOK ==
  /\ ShutdownTypes
  /\ TaskTypes
  /\ conn \in [Conns -> {"out", "accepted", "load", "add", "done"} \cup Counted]
  /\ activeConn \in Nat
  /\ peak \in Nat

\* However a connection ends (refused, not upgraded, no execute command, client
\* gone, task ended), its handler is counted once and discounted once: slots are
\* neither lost nor gained.
CountExact == activeConn = Cardinality(At(Counted))

\* Load and Add are two steps, so the limit can be exceeded; but only by handlers
\* that were between the two at the same time, all but one of them.
AdmissionBound ==
  LET admitted == activeConn + Cardinality(At({"add"})) IN
  admitted > 0 => admitted < MaxConn + peak

\* When Shutdown has returned the Worker is gone and will not come back, unless
\* Shutdown came before Start had assigned s.srv.
NoWorkAfterShutdown == main = "returned" /\ seenSrv => worker = "exited"

\* When a Shutdown that found s.srv assigned returns every task that was enqueued has
\* ended: handed to the Worker and run, or dropped by its own client, or closed by the
\* queue manager. (One that did not find it, since Start had only just been called, does
\* not wait for a Worker that comes later.)
ShutdownEndsTasks ==
  [][main' = "returned" /\ main # "returned" /\ seenSrv =>
       \A c \in Conns : conn[c] \in {"route", "unregister"} => c \in ended']_vars

\* The task the Worker runs: until it closes its channel.
Serving ==
  IF worker \in {"prepare", "start", "startHealth", "run", "stop", "stopping", "close"}
  THEN active
  ELSE NoConn

Lifecycle == INSTANCE TaskLifecycle WITH
  Tasks <- Conns, NoTask <- NoConn, line <- queue, current <- Serving

\* A Shutdown that did not find the server ends the queue while a Worker that was
\* started since runs a task.
EndsUnderWorker ==
  ~seenSrv /\ main = "queue" /\ main' = "returned" /\ Serving # NoConn

\* But for that, the server keeps the promise of the task queue, whatever handlers,
\* clients and Shutdown do: first come, first served, one at a time, none twice, none
\* forgotten, and nobody is being served when the queue ends.
ImplementsLifecycle ==
  /\ Lifecycle!Init
  /\ [][EndsUnderWorker \/ Lifecycle!Next]_(Lifecycle!vars)

\* "If the HTTP server shutdown fails, the error is returned" (server.go:97): nil
\* means that every request was answered or its connection upgraded.
NilMeansAnswered == main = "returned" /\ seenSrv /\ ~err => At(Plain) = {}

\* FeedInput writes, with the mutex held, into a pipe that the Worker has left open, or
\* would close only after it has taken the mutex.
StuckFeeder ==
  /\ mu = active /\ conn[active] = "route"
  /\ stdin = "open"
  /\ worker \in {"startHealth", "complete"}

\* If commands end and their output can be read to the end (not so when input and output
\* wait for each other: InputMeetsOutput of Executor), Shutdown returns, although clients
\* go on shaking hands and enqueueing tasks, and the Worker may go on for some tasks
\* after it was cancelled. It does not if FeedInput is stuck with the mutex, or if a
\* health goroutine waits for itself, since the Worker then waits for ever.
ShutdownReturns ==
  WF_vars(CommandEnds) =>
    \/ main \notin {"signal", "fatal"} ~> main \in {"returned", "fatal"}
    \/ <>[]StuckFeeder
    \/ <>[]hung

\* The connection waits for a task that was enqueued after, or ended by, Shutdown.
LeftBehind(c) == conn[c] = "route" /\ main = "returned"

\* On the same premise every handler that was counted ends, whatever its client does,
\* unless it is left behind by Shutdown: slots come back. They do not if a FeedInput or
\* a health goroutine is stuck, be it that of another client.
SlotsComeBack ==
  WF_vars(CommandEnds) =>
    \/ \A c \in Conns : conn[c] \in Counted ~> conn[c] = "done" \/ LeftBehind(c) \/ main = "fatal"
    \/ <>[]StuckFeeder
    \/ <>[]hung

\* "It blocks until shutdown is complete or the provided context is cancelled"
\* (server.go:96).
DeadlineEndsShutdown == expired ~> main \in {"returned", "fatal"}

=============================================================================
