----------------------------- MODULE SessionLife -----------------------------
(***************************************************************************)
(* The life of one connection: the handler goroutine (processConnection,   *)
(* which is also the router), the reader goroutine, the health goroutine   *)
(* that pings the client while its task runs, and the Worker as far as it  *)
(* meets them: through the outbox, the task's context and qm.mu, which it  *)
(* holds while it starts or stops the health goroutine. FeedInput holds it *)
(* while it writes to the pipe of the task's command.                      *)
(*                                                                         *)
(* Session.Close and Session.StopHealthCheck are called by several         *)
(* goroutines; where each one is in them is the value of closing and       *)
(* stopping. The outbox and the inbox are abstracted to their lengths.     *)
(***************************************************************************)
EXTENDS Naturals

CONSTANTS
  OutboxSize,  \* capacity of Router.outbox
  InboxSize,   \* capacity of Router.inbox
  MaxOutput,   \* bound: messages the run sends
  MaxInput     \* bound: commands the client sends

ASSUME SessionConstantsOK ==
  /\ OutboxSize \in Nat \ {0}
  /\ InboxSize \in Nat \ {0}
  /\ MaxOutput \in Nat
  /\ MaxInput \in Nat

Closers  == {"handler", "health"}
Stoppers == {"handler", "health", "worker"}

VARIABLES
  alive,         \* the server process has not been ended by a panic
  pc,            \* where each goroutine is: the handler, the reader, the health
                 \* goroutine; and where the session's task is with the Worker
  after,         \* where the handler goes on after Session.Close
  closing,       \* where each goroutine is in Session.Close
  stopping,      \* where each goroutine is in Session.StopHealthCheck
  once,          \* Session.once: new, who is in it, or done
  healthCancel,  \* whether Session.healthCancel is not nil
  healthDone,    \* whether the health context was cancelled
  added,         \* Session.healthWg
  cancelled,     \* Session.ctx, which is also Task.Ctx
  connOpen,      \* whether the server's end of the connection is open
  peer,          \* the client: up or gone
  mu,            \* qm.mu: free or who holds it, another session's goroutine if for ever
  registered,    \* whether the session is in qm.sessions
  outbox,        \* messages in Router.outbox
  outClosed,     \* whether it has been closed
  sent,          \* messages the run has sent
  inbox,         \* commands in Router.inbox
  commands,      \* commands the client has sent
  stdin,         \* Task.StdInWriter: nil, or the write end of a pipe
  ending         \* whether the session has a reason to end: task_finished was
                 \* written, a write failed, or the task was dropped

flags      == <<alive, ending>>
inputVars == <<peer, inbox, commands, stdin>>
queueVars  == <<mu, registered, outbox, outClosed, sent>>
healthVars == <<stopping, healthCancel, healthDone, added>>
closeVars  == <<closing, after, once, cancelled, connOpen>>
vars == <<pc, flags, inputVars, queueVars, healthVars, closeVars>>

\* A goroutine goes on from one place to another.
Go(p, from, to) == pc[p] = from /\ pc' = [pc EXCEPT ![p] = to]

Room == outbox < OutboxSize

-----------------------------------------------------------------------------
Init ==
  /\ alive = TRUE
  /\ pc = [handler |-> "handshake", reader |-> "off", health |-> "off", worker |-> "idle"]
  /\ after = "done"
  /\ closing = [a \in Closers |-> "no"]
  /\ stopping = [a \in Stoppers |-> "no"]
  /\ once = "new"
  /\ healthCancel = FALSE
  /\ healthDone = FALSE
  /\ added = FALSE
  /\ cancelled = FALSE
  /\ connOpen = TRUE
  /\ peer = "up"
  /\ mu = "free"
  /\ registered = FALSE
  /\ outbox = 0
  /\ outClosed = FALSE
  /\ sent = 0
  /\ inbox = 0
  /\ commands = 0
  /\ stdin = "nil"
  /\ ending = FALSE

-----------------------------------------------------------------------------
(* Session.StopHealthCheck and Session.Close, for every caller. *)

CallStop(a) == stopping' = [stopping EXCEPT ![a] = "check"]

\* Mutant: it waits for the goroutine without telling it to stop.
StopCheckOnly(a) ==
  /\ stopping[a] = "check"
  /\ stopping' = [stopping EXCEPT ![a] = IF healthCancel THEN "wait" ELSE "no"]
  /\ UNCHANGED <<pc, flags, healthDone, healthCancel, added, queueVars, closeVars,
                 inputVars>>

\* The test and the call read the field once.
StopCheck(a) ==
  /\ stopping[a] = "check"
  /\ stopping' = [stopping EXCEPT ![a] = IF healthCancel THEN "wait" ELSE "no"]
  /\ healthDone' = (healthDone \/ healthCancel)
  /\ UNCHANGED <<pc, flags, healthCancel, added, queueVars, closeVars, inputVars>>

\* Mutant: the goroutine is told to stop but not waited for.
StopNoWait(a) ==
  /\ stopping[a] = "wait"
  /\ stopping' = [stopping EXCEPT ![a] = "no"]
  /\ healthCancel' = FALSE
  /\ UNCHANGED <<pc, flags, healthDone, added, queueVars, closeVars, inputVars>>

StopWait(a) ==
  /\ stopping[a] = "wait"
  /\ ~added
  /\ stopping' = [stopping EXCEPT ![a] = "no"]
  /\ healthCancel' = FALSE
  /\ UNCHANGED <<pc, flags, healthDone, added, queueVars, closeVars, inputVars>>

\* once.Do: the first caller runs the function, the others wait for its end.
CloseEnter(a) ==
  /\ closing[a] = "once"
  /\ \/ /\ once = "new"
        /\ once' = a
        /\ closing' = [closing EXCEPT ![a] = "stop"]
        /\ CallStop(a)
     \/ /\ once = "done"
        /\ closing' = [closing EXCEPT ![a] = "no"]
        /\ UNCHANGED <<once, stopping>>
  /\ UNCHANGED <<pc, flags, after, healthCancel, healthDone, added, cancelled, connOpen,
                 queueVars, inputVars>>

\* Mutant: only the connection is closed.
CloseNoCancel(a) ==
  /\ closing[a] = "stop"
  /\ stopping[a] = "no"
  /\ closing' = [closing EXCEPT ![a] = "conn"]
  /\ UNCHANGED <<pc, flags, after, once, cancelled, connOpen, queueVars, healthVars,
                 inputVars>>

CloseCancel(a) ==
  /\ closing[a] = "stop"
  /\ stopping[a] = "no"
  /\ cancelled' = TRUE
  /\ closing' = [closing EXCEPT ![a] = "conn"]
  /\ UNCHANGED <<pc, flags, after, once, connOpen, queueVars, healthVars, inputVars>>

CloseConn(a) ==
  /\ closing[a] = "conn"
  /\ connOpen' = FALSE
  /\ once' = "done"
  /\ closing' = [closing EXCEPT ![a] = "no"]
  /\ UNCHANGED <<pc, flags, after, cancelled, queueVars, healthVars, inputVars>>

\* A call of Close, and where the handler goes on after it.
CallClose(a) == closing' = [closing EXCEPT ![a] = "once"]
CloseThen(next) == CallClose("handler") /\ after' = next

-----------------------------------------------------------------------------
(* The handler: processConnection ... *)

HandshakeFails ==
  /\ Go("handler", "handshake", "closing")
  /\ CloseThen("done")
  /\ ending' = TRUE
  /\ UNCHANGED <<alive, once, cancelled, connOpen, queueVars, healthVars, inputVars>>

\* setupSessionRouter starts the reader.
HandshakeDone ==
  /\ pc["handler"] = "handshake"
  /\ pc' = [pc EXCEPT !["handler"] = "register", !["reader"] = "read"]
  /\ UNCHANGED <<flags, queueVars, closeVars, healthVars, inputVars>>

RegisterSession ==
  /\ Go("handler", "register", "enqueue")
  /\ mu = "free"
  /\ registered' = TRUE
  /\ UNCHANGED <<flags, mu, outbox, outClosed, sent, closeVars, healthVars, inputVars>>

Enqueue ==
  /\ pc["handler"] = "enqueue"
  /\ mu = "free"
  /\ pc' = [pc EXCEPT !["handler"] = "route", !["worker"] = "queued"]
  /\ outbox' = 1
  /\ UNCHANGED <<flags, mu, registered, outClosed, sent, closeVars, healthVars,
                 inputVars>>

AwaitReader ==
  /\ Go("handler", "awaitReader", "unregister")
  /\ pc["reader"] = "done"
  /\ UNCHANGED <<flags, queueVars, closeVars, healthVars, inputVars>>

\* UnregisterSession stops the health check with the mutex held ...
UnregisterBegin ==
  /\ Go("handler", "unregister", "removing")
  /\ mu = "free"
  /\ mu' = "handler"
  /\ CallStop("handler")
  /\ UNCHANGED <<flags, registered, healthCancel, healthDone, added, outbox, outClosed,
                 sent, closeVars, inputVars>>

\* ... and then removes or cancels the task. The deferred Close is last.
UnregisterEnd ==
  /\ pc["handler"] = "removing"
  /\ stopping["handler"] = "no"
  /\ registered' = FALSE
  /\ mu' = "free"
  /\ pc' = [pc EXCEPT !["handler"] = "closing",
                     !["worker"] = IF @ = "queued" THEN "removed" ELSE @]
  /\ outClosed' = (outClosed \/ pc["worker"] = "queued")
  /\ cancelled' = (cancelled \/ pc["worker"] \notin {"idle", "removed", "done"})
  /\ CloseThen("done")
  /\ UNCHANGED <<flags, once, connOpen, outbox, sent, healthVars, inputVars>>

CloseReturns ==
  /\ Go("handler", "closing", after)
  /\ closing["handler"] = "no"
  /\ after' = "done"
  /\ UNCHANGED <<flags, closing, once, cancelled, connOpen, queueVars, healthVars,
                 inputVars>>

-----------------------------------------------------------------------------
(* ... and Router.Run, which the handler is in between Enqueue and AwaitReader. *)

\* The connection takes one write at a time: gorilla panics when a second one
\* begins while the first is under way, in either goroutine. net/http recovers
\* the panic of a handler, whose deferred calls run; nothing recovers that of the
\* health goroutine.
Writing == pc["handler"] \in {"write", "writeFinished"}

HandlerPanics ==
  /\ pc' = [pc EXCEPT !["handler"] = "unregister", !["health"] = "ping"]
  /\ ending' = TRUE
  /\ UNCHANGED alive

ServerPanics == alive' = FALSE /\ UNCHANGED <<pc, ending>>

BeginWrite(to) ==
  /\ pc["handler"] = "route"
  /\ IF pc["health"] = "ping"
     THEN HandlerPanics \/ ServerPanics
     ELSE Go("handler", "route", to) /\ UNCHANGED flags

RouteOutbox ==
  /\ outbox > 0
  /\ outbox' = outbox - 1
  /\ BeginWrite("write")
  /\ UNCHANGED <<mu, registered, outClosed, sent, closeVars, healthVars, inputVars>>

RouteOutboxClosed ==
  /\ outbox = 0
  /\ outClosed
  /\ BeginWrite("writeFinished")
  /\ UNCHANGED <<queueVars, closeVars, healthVars, inputVars>>

RouteInbox ==
  /\ Go("handler", "route", "feed")
  /\ inbox > 0
  /\ inbox' = inbox - 1
  /\ UNCHANGED <<flags, peer, commands, stdin, queueVars, closeVars, healthVars>>

\* FeedInput takes the mutex and keeps it while it writes to the pipe of the active
\* task ...
FeedInput ==
  /\ mu = "free"
  /\ IF stdin # "nil"
     THEN Go("handler", "feed", "feeding") /\ mu' = "handler"
     ELSE Go("handler", "feed", "route") /\ UNCHANGED mu
  /\ UNCHANGED <<flags, registered, outbox, outClosed, sent, closeVars, healthVars,
                 inputVars>>

FeedReturns ==
  /\ Go("handler", "feeding", "route")
  /\ mu' = "free"
  /\ UNCHANGED <<flags, registered, outbox, outClosed, sent, closeVars, healthVars,
                 inputVars>>

\* ... until a command that has been started takes the input, if it ever does, or the
\* Worker has closed the pipe.
FeedTaken ==
  /\ stdin = "open"
  /\ pc["worker"] \in {"startHealth", "run"}
  /\ FeedReturns

FeedFails == stdin = "closed" /\ FeedReturns

RouteCtxDone ==
  /\ Go("handler", "route", "awaitReader")
  /\ cancelled
  /\ UNCHANGED <<flags, queueVars, closeVars, healthVars, inputVars>>

WriteDone ==
  /\ Go("handler", "write", "route")
  /\ connOpen
  /\ UNCHANGED <<flags, queueVars, closeVars, healthVars, inputVars>>

\* The client is gone, or slow: the deadline of the last ping applies.
WriteFails ==
  /\ Go("handler", "write", "closing")
  /\ CloseThen("route")
  /\ ending' = TRUE
  /\ UNCHANGED <<alive, once, cancelled, connOpen, queueVars, healthVars, inputVars>>

\* Whether or not task_finished could be written, the router is done.
FinishedWritten ==
  /\ Go("handler", "writeFinished", "closing")
  /\ CloseThen("awaitReader")
  /\ ending' = TRUE
  /\ UNCHANGED <<alive, once, cancelled, connOpen, queueVars, healthVars, inputVars>>

-----------------------------------------------------------------------------
(* StartReader. *)

\* A message that has already arrived can be read although the context is done.
ReadCommand ==
  /\ Go("reader", "read", "send")
  /\ commands < MaxInput
  /\ commands' = commands + 1
  /\ UNCHANGED <<flags, peer, inbox, stdin, queueVars, closeVars, healthVars>>

\* Mutant: the reader ends the session when it cannot read.
ReadFailsCancelling ==
  /\ Go("reader", "read", "done")
  /\ cancelled' = TRUE
  /\ UNCHANGED <<flags, after, closing, once, connOpen, queueVars, healthVars,
                 inputVars>>

\* The connection was closed at either end, or nothing was heard for 90 seconds,
\* or the deadline was moved to now because the context is done.
ReadFails ==
  /\ Go("reader", "read", "done")
  /\ UNCHANGED <<flags, queueVars, closeVars, healthVars, inputVars>>

SendCommand ==
  /\ Go("reader", "send", "read")
  /\ inbox < InboxSize
  /\ inbox' = inbox + 1
  /\ UNCHANGED <<flags, peer, commands, stdin, queueVars, closeVars, healthVars>>

\* Mutant: the reader waits for the router only.
ReaderNeverCancelled ==
  /\ Go("reader", "send", "done")
  /\ inbox = 0
  /\ cancelled
  /\ UNCHANGED <<flags, queueVars, closeVars, healthVars, inputVars>>

ReaderCancelled ==
  /\ Go("reader", "send", "done")
  /\ cancelled
  /\ UNCHANGED <<flags, queueVars, closeVars, healthVars, inputVars>>

-----------------------------------------------------------------------------
(* The health goroutine. *)

HealthCtxDone ==
  /\ Go("health", "select", "gone")
  /\ healthDone \/ cancelled
  /\ added' = FALSE
  /\ UNCHANGED <<flags, stopping, healthCancel, healthDone, queueVars, closeVars,
                 inputVars>>

\* When the context is done too, select may still choose the ticker.
HealthTick ==
  /\ pc["health"] = "select"
  /\ IF Writing
     THEN HandlerPanics \/ ServerPanics
     ELSE Go("health", "select", "ping") /\ UNCHANGED flags
  /\ UNCHANGED <<queueVars, closeVars, healthVars, inputVars>>

PingDone ==
  /\ Go("health", "ping", "select")
  /\ connOpen
  /\ UNCHANGED <<flags, queueVars, closeVars, healthVars, inputVars>>

PingFails ==
  /\ Go("health", "ping", "closing")
  /\ CallClose("health")
  /\ ending' = TRUE
  /\ UNCHANGED <<alive, after, once, cancelled, connOpen, queueVars, healthVars,
                 inputVars>>

HealthReturns ==
  /\ Go("health", "closing", "gone")
  /\ closing["health"] = "no"
  /\ added' = FALSE
  /\ UNCHANGED <<flags, stopping, healthCancel, healthDone, queueVars, closeVars,
                 inputVars>>

-----------------------------------------------------------------------------
(* The queue manager and its Worker. *)

KeepAlive ==
  /\ pc["worker"] = "queued"
  /\ mu = "free"
  /\ Room
  /\ outbox' = outbox + 1
  /\ UNCHANGED <<pc, flags, mu, registered, outClosed, sent, closeVars, healthVars,
                 inputVars>>

Dequeue ==
  /\ Go("worker", "queued", "prepare")
  /\ mu = "free"
  /\ UNCHANGED <<flags, queueVars, closeVars, healthVars, inputVars>>

\* An interactive task gets a pipe; FeedInput, which looks with the mutex held, finds
\* it or does not.
prepareCommand ==
  /\ Go("worker", "prepare", "start")
  /\ stdin' \in {"nil", "open"}
  /\ UNCHANGED <<flags, peer, inbox, commands, queueVars, closeVars, healthVars>>

\* Start refuses when the context is done.
Start ==
  /\ Go("worker", "start", "startHealth")
  /\ ~cancelled
  /\ UNCHANGED <<flags, queueVars, closeVars, healthVars, inputVars>>

\* There are no arguments, or the command could not be started: the pipe is left
\* open, without a reader ...
StartFails ==
  /\ pc["worker"] \in {"prepare", "start"}
  /\ pc' = [pc EXCEPT !["worker"] = "failing"]
  /\ UNCHANGED <<flags, queueVars, closeVars, healthVars, inputVars>>

\* ... and one message says so.
SendError ==
  /\ Go("worker", "failing", "stopped")
  /\ \/ Room /\ outbox' = outbox + 1
     \/ cancelled /\ UNCHANGED outbox
  /\ UNCHANGED <<flags, mu, registered, outClosed, sent, closeVars, healthVars, inputVars>>

\* Mutant: the session is used although it is not registered any more.
StartHealthCheckAlways ==
  /\ Go("worker", "startHealth", "starting")
  /\ mu = "free"
  /\ mu' = "worker"
  /\ healthCancel' = TRUE
  /\ UNCHANGED <<flags, registered, stopping, healthDone, added, outbox, outClosed, sent,
                 closeVars, inputVars>>

\* StartHealthCheck sets the field, with qm.mu held but not against Close ...
StartHealthCheck ==
  /\ mu = "free"
  /\ IF registered
     THEN Go("worker", "startHealth", "starting") /\ mu' = "worker" /\ healthCancel' = TRUE
     ELSE Go("worker", "startHealth", "run") /\ UNCHANGED <<mu, healthCancel>>
  /\ UNCHANGED <<flags, registered, stopping, healthDone, added, outbox, outClosed, sent,
                 closeVars, inputVars>>

\* ... and then starts the goroutine.
StartHealthGo ==
  /\ pc["worker"] = "starting"
  /\ pc' = [pc EXCEPT !["worker"] = "run", !["health"] = "select"]
  /\ added' = TRUE
  /\ mu' = "free"
  /\ UNCHANGED <<flags, registered, stopping, healthCancel, healthDone, outbox, outClosed,
                 sent, closeVars, inputVars>>

RunOutput ==
  /\ pc["worker"] = "run"
  /\ Room
  /\ sent < MaxOutput
  /\ outbox' = outbox + 1
  /\ sent' = sent + 1
  /\ UNCHANGED <<pc, flags, mu, registered, outClosed, closeVars, healthVars, inputVars>>

\* The command has ended, or was killed because its context is done; its output has
\* been read and its pipe is closed.
RunEnds ==
  /\ Go("worker", "run", "stop")
  /\ stdin' = IF stdin = "open" THEN "closed" ELSE stdin
  /\ UNCHANGED <<flags, peer, inbox, commands, queueVars, closeVars, healthVars>>

\* The Worker holds qm.mu while it waits for the health goroutine.
StopHealthCheck ==
  /\ mu = "free"
  /\ IF registered
     THEN Go("worker", "stop", "stopping") /\ mu' = "worker" /\ CallStop("worker")
     ELSE Go("worker", "stop", "stopped") /\ UNCHANGED <<mu, stopping>>
  /\ UNCHANGED <<flags, registered, healthCancel, healthDone, added, outbox, outClosed,
                 sent, closeVars, inputVars>>

StopHealthReturns ==
  /\ Go("worker", "stopping", "stopped")
  /\ stopping["worker"] = "no"
  /\ mu' = "free"
  /\ UNCHANGED <<flags, registered, outbox, outClosed, sent, closeVars, healthVars,
                 inputVars>>

CloseMsgChan ==
  /\ Go("worker", "stopped", "complete")
  /\ outClosed' = TRUE
  /\ UNCHANGED <<flags, mu, registered, outbox, sent, closeVars, healthVars, inputVars>>

CompleteActive ==
  /\ Go("worker", "complete", "done")
  /\ mu = "free"
  /\ stdin' = "nil"
  /\ UNCHANGED <<flags, peer, inbox, commands, queueVars, closeVars, healthVars>>

\* Shutdown, which comes after the Worker, ends a task that still waits.
Shutdown ==
  /\ Go("worker", "queued", "removed")
  /\ mu = "free"
  /\ cancelled' = TRUE
  /\ outClosed' = TRUE
  /\ ending' = TRUE
  /\ UNCHANGED <<alive, after, mu, registered, closing, once, connOpen, outbox, sent,
                 healthVars, inputVars>>

\* While another session's task is the active one, or none is any more, that session
\* may get stuck with the mutex, as this one may.
OthersStick ==
  /\ mu = "free"
  /\ pc["worker"] \in {"idle", "queued", "removed", "done"}
  /\ mu' = "others"
  /\ UNCHANGED <<pc, flags, registered, outbox, outClosed, sent, closeVars, healthVars,
                 inputVars>>

PeerGone ==
  /\ peer = "up"
  /\ peer' = "gone"
  /\ UNCHANGED <<pc, flags, inbox, commands, stdin, queueVars, closeVars, healthVars>>

-----------------------------------------------------------------------------
Stop(a) == StopCheck(a) \/ StopWait(a)

Close(a) == CloseEnter(a) \/ CloseCancel(a) \/ CloseConn(a)

processConnection ==
  \/ HandshakeFails \/ HandshakeDone \/ RegisterSession \/ Enqueue
  \/ AwaitReader \/ UnregisterBegin \/ UnregisterEnd \/ CloseReturns

Router ==
  \/ RouteOutbox \/ RouteOutboxClosed \/ RouteInbox \/ FeedInput \/ FeedFails
  \/ RouteCtxDone \/ WriteDone \/ WriteFails \/ FinishedWritten

Handler == processConnection \/ Router \/ Close("handler") \/ Stop("handler")

Reader == ReadCommand \/ ReadFails \/ SendCommand \/ ReaderCancelled

Health ==
  \/ HealthCtxDone \/ HealthTick \/ PingDone \/ PingFails \/ HealthReturns
  \/ Close("health") \/ Stop("health")

Worker ==
  \/ Dequeue \/ prepareCommand \/ Start \/ StartFails \/ SendError
  \/ StartHealthCheck \/ StartHealthGo \/ RunOutput \/ RunEnds \/ StopHealthCheck \/ StopHealthReturns
  \/ CloseMsgChan \/ CompleteActive \/ Stop("worker")

Next ==
  /\ alive
  /\ \/ Handler \/ Reader \/ Health \/ Worker \/ KeepAlive \/ Shutdown
     \/ FeedTaken \/ PeerGone \/ OthersStick

Spec == Init /\ [][Next]_vars

(* Fairness. A goroutine that can go on does; a select whose context is done   *)
(* does not choose another case for ever; what is written to a client that is  *)
(* gone fails sooner or later, and so does what is read from it; the client    *)
(* program reads what it is sent. A cancelled command is killed, and its run   *)
(* ends, unless a child of it holds its output open (Executor); nothing makes  *)
(* another command end, or read its input, or the Worker reach the task.       *)

Lost == peer = "gone" \/ ~connOpen

HandlerRuns == Handler /\ (pc["handler"] = "handshake" => Lost)

ReaderEnds == (Lost /\ ReadFails) \/ ReaderCancelled

\* Each of these is taken at most once, so that fairness of them all is that of each.
Ends ==
  \/ RouteCtxDone
  \/ peer = "gone" /\ once = "new" /\ WriteFails
  \/ HealthCtxDone
  \/ peer = "gone" /\ PingFails

WorkerRuns ==
  \/ prepareCommand \/ Start \/ StartFails \/ SendError
  \/ StartHealthCheck \/ StartHealthGo \/ (cancelled /\ RunEnds)
  \/ StopHealthCheck \/ Stop("worker") \/ StopHealthReturns
  \/ CloseMsgChan \/ CompleteActive

FairSpec ==
  /\ Spec
  /\ WF_vars(alive /\ HandlerRuns)
  /\ WF_vars(alive /\ ReaderEnds)
  /\ WF_vars(alive /\ Health)
  /\ SF_vars(alive /\ Ends)
  /\ WF_vars(alive /\ WorkerRuns)
  /\ WF_vars(alive /\ KeepAlive)

-----------------------------------------------------------------------------
(* Properties. *)

PlacesOK ==
  /\ pc \in [handler : {"handshake", "register", "enqueue", "route", "write", "writeFinished",
                       "feed", "feeding", "awaitReader", "unregister", "removing", "closing", "done"},
            reader : {"off", "read", "send", "done"},
            health : {"off", "select", "ping", "closing", "gone"},
            worker : {"idle", "queued", "removed", "prepare", "start", "failing",
                      "startHealth", "starting", "run", "stop", "stopping", "stopped",
                      "complete", "done"}]
  /\ after \in {"route", "awaitReader", "done"}
  /\ closing \in [Closers -> {"no", "once", "stop", "conn"}]
  /\ stopping \in [Stoppers -> {"no", "check", "wait"}]
  /\ once \in {"new", "done"} \cup Closers
  /\ mu \in {"free", "handler", "worker", "others"}

ValuesOK ==
  /\ alive \in BOOLEAN /\ ending \in BOOLEAN
  /\ healthCancel \in BOOLEAN /\ healthDone \in BOOLEAN /\ added \in BOOLEAN
  /\ cancelled \in BOOLEAN /\ connOpen \in BOOLEAN
  /\ peer \in {"up", "gone"}
  /\ registered \in BOOLEAN
  /\ outbox \in 0..OutboxSize /\ outClosed \in BOOLEAN /\ sent \in 0..MaxOutput
  /\ inbox \in 0..InboxSize /\ commands \in 0..MaxInput
  /\ stdin \in {"nil", "open", "closed"}

\* The type invariant: neither channel holds more than its capacity.
TypeOK == PlacesOK /\ ValuesOK

\* Unless a write has failed or the queue manager has dropped the task, no
\* session is closed before its client was sent task_finished ("to guarantee an
\* explicit completion signal before closing the session", handler.go:210).
SignalBeforeClose == ~connOpen => ending

\* task_finished is written while no health goroutine is left that could ping: it
\* cannot meet a ping on the connection, unless somebody else is closing the
\* session already.
FinishedAlone == pc["handler"] = "writeFinished" /\ once = "new" => ~added

\* A session that has been unregistered gets no health goroutine any more, although
\* the Worker may only then come to start one; the one it had has ended or has been
\* told to.
NoPingerLeft == pc["handler"] = "done" /\ added => healthDone

\* The health goroutine waits for itself: it is in Close and waits there for its
\* own end, or for the handler's Close, which waits for it.
SelfWait ==
  /\ pc["health"] = "closing"
  /\ \/ stopping["health"] = "wait"
     \/ closing["health"] = "once" /\ once = "handler" /\ stopping["handler"] = "wait"

\* FeedInput is in its write, with the mutex held: only the command or the Worker ends
\* that.
Feeding == pc["handler"] = "feeding" /\ stdin = "open"

Goroutines == {"handler", "reader", "health", "worker"}

\* Where a goroutine takes qm.mu.
TakesMutex(g) ==
  \/ g = "handler" /\ pc[g] \in {"register", "enqueue", "feed", "unregister"}
  \/ g = "worker" /\ pc[g] \in {"startHealth", "stop", "complete"}

\* Where a run sends, and the outbox is full.
OutputWaits == pc["worker"] \in {"failing", "run"} /\ ~Room /\ ~cancelled

\* g cannot go on, or may not be able to if it has more to send or the command reads no
\* input, before h does: h holds the mutex; h is in the function of once; h is the
\* health goroutine and healthWg counts it; h is the reader and the handler waits for
\* its end; h is the router and the channel to it is full; h is the Worker, which
\* closes the pipe that FeedInput writes to.
Awaits(g, h) ==
  \/ TakesMutex(g) /\ mu = h
  \/ g \in Closers /\ closing[g] = "once" /\ once = h
  \/ g \in Stoppers /\ stopping[g] = "wait" /\ added /\ h = "health"
  \/ g = "handler" /\ pc[g] = "awaitReader" /\ pc["reader"] # "done" /\ h = "reader"
  \/ g = "reader" /\ pc[g] = "send" /\ inbox = InboxSize /\ ~cancelled /\ h = "handler"
  \/ g = "worker" /\ OutputWaits /\ h = "handler"
  \/ g = "handler" /\ Feeding /\ h = "worker"

\* The router is inside FeedInput, which waits for the Worker; and the Worker waits for
\* the mutex, or for the router to drain the outbox.
FeedCircle == Feeding /\ (TakesMutex("worker") \/ OutputWaits)

\* The mutex, the once, the wait groups, the pipe and the two channels leave the
\* goroutines of a session no circle in which each waits for another, whoever closes
\* the session when, but two: the health goroutine that waits for itself, and the
\* router in FeedInput with the Worker.
NoCircularWait ==
  \A waiting \in SUBSET Goroutines :
    waiting # {} /\ (\A g \in waiting : \E h \in waiting : Awaits(g, h)) =>
      SelfWait \/ FeedCircle

\* The client is up and nobody has closed the connection, but the router has ended
\* because the queue manager cancelled the task: as long as the client pings, the
\* handler waits for the reader.
Lingering == pc["handler"] = "awaitReader" /\ ~Lost

\* FeedInput writes into a pipe that the Worker has left open, or would close only
\* after it has taken the mutex.
StuckFeeder ==
  Feeding /\ pc["worker"] \in {"startHealth", "failing", "stopped", "complete"}

\* Handlers do not pile up: once its client is gone, its connection is closed or
\* its task's channel is, a handler returns. It does not if the health goroutine
\* waits for itself, which it also does when the client is gone while FeedInput writes
\* to a command that does not read; nor if FeedInput is stuck, or if another session's
\* goroutine keeps the mutex for ever. All this is also true of a client that sends
\* more commands than the router takes.
HandlerReturns ==
  \/ Lost \/ outClosed ~> pc["handler"] = "done" \/ SelfWait \/ Lingering \/ ~alive
  \/ <>[]StuckFeeder
  \/ <>[](mu = "others")

\* FeedInput writes to a command that runs, that nobody has cancelled, and that does
\* not read its input.
UnreadInput == Feeding /\ pc["worker"] = "run" /\ ~cancelled

\* Both goroutines that take qm.mu give it back, also when they wait for the health
\* goroutine with the mutex held, unless that one waits for itself, and FeedInput does,
\* unless its write never ends.
MutexReturned ==
  \/ mu \in {"handler", "worker"} ~> mu = "free" \/ SelfWait \/ ~alive
  \/ <>[](StuckFeeder \/ UnreadInput)

\* Closing a session frees the Worker from its task, also when FeedInput is writing to
\* the task's command, but not if it writes to a command that failed to start or that
\* has not been given its health check yet; nor if another session's goroutine keeps
\* the mutex.
CloseFreesWorker ==
  \/ ~connOpen ~> pc["worker"] \in {"idle", "removed", "done"} \/ ~alive
  \/ <>[]StuckFeeder
  \/ <>[](mu = "others")

\* "failed to write ping, closing session" (session.go:89): the connection of a
\* session whose ping could not be written is closed.
PingFailureCloses == pc["health"] = "closing" ~> ~connOpen \/ ~alive

=============================================================================
