------------------------------ MODULE Executor ------------------------------
(***************************************************************************)
(* One run of executor.executeTask: the command and its pipes, the two     *)
(* goroutines that stream its output into the task's outbox, the goroutine *)
(* of os/exec that copies the stdin pipe, the client's router, which       *)
(* drains the outbox or feeds input with qm.mu held, never both, the       *)
(* health goroutine of its session, and the Worker's CompleteActive.       *)
(*                                                                         *)
(* Output is abstracted to the numbers of the tokens of each stream; token *)
(* 0 of stderr is the error message of a run that starts no command.       *)
(***************************************************************************)
EXTENDS Naturals, Sequences

CONSTANTS
  OutboxSize,  \* capacity of Task.MsgChan
  PipeSize,    \* tokens the kernel buffers of each stream
  StdinSize,   \* chunks the kernel buffers for the command's stdin
  MaxTokens,   \* bound: tokens written to each stream
  MaxInputs    \* bound: commands the router takes from its inbox

Streams == {"stdout", "stderr"}

ASSUME ExecutorConstantsOK ==
  /\ OutboxSize \in Nat \ {0}
  /\ PipeSize \in Nat \ {0}
  /\ StdinSize \in Nat
  /\ MaxTokens \in [Streams -> Nat]
  /\ MaxInputs \in Nat

VARIABLES
  hasArgs,      \* whether Task.Args is not empty
  interactive,  \* Task.Interactive
  pc,           \* where executeTask, then the Worker, is
  cancelled,    \* Task.Ctx
  mu,           \* qm.mu: "free", "feed" while FeedInput writes, or "worker" while
                \* StopHealthCheck waits for the health goroutine
  health,       \* the health goroutine; "stuck" when it waits for its own end
  router,       \* where the router is: in its select, on its way into FeedInput,
                \* in the pipe write there, or in Session.Close
  fed,          \* calls of FeedInput so far
  stdin,        \* Task.StdInWriter: nil, or the write end of a pipe
  copier,       \* the goroutine of os/exec that copies the pipe to the command
  kernel,       \* chunks in the command's stdin
  proc,         \* the command's process, or the stream its write is blocked on
  heir,         \* a child it leaves behind with its stdin, stdout and stderr
  written,      \* tokens written to each stream
  reader,       \* where the streamOutput goroutines are
  taken,        \* tokens each of them has read
  outbox,       \* Task.MsgChan
  got           \* the last token of each stream the router received

input  == <<fed, stdin, copier, kernel>>
output == <<written, reader, taken, outbox, got>>
fixed  == <<hasArgs, interactive>>
client == <<health, router>>
vars   == <<fixed, pc, cancelled, mu, client, input, proc, heir, output>>

Token(s, n) == [stream |-> s, n |-> n]
Room == Len(outbox) < OutboxSize
Running == proc \in {"running"} \cup Streams
PipeHeld == Running \/ heir = "alive"
PipeFull(s) == written[s] - taken[s] >= PipeSize

-----------------------------------------------------------------------------
Init ==
  /\ hasArgs \in BOOLEAN
  /\ interactive \in BOOLEAN
  /\ pc = "args"
  /\ cancelled = FALSE
  /\ mu = "free"
  /\ health = "off"
  /\ router = "select"
  /\ fed = 0
  /\ stdin = "nil"
  /\ copier = "none"
  /\ kernel = 0
  /\ proc = "none"
  /\ heir = "none"
  /\ written = [s \in Streams |-> 0]
  /\ reader = [s \in Streams |-> "off"]
  /\ taken = [s \in Streams |-> 0]
  /\ outbox = <<>>
  /\ got = [s \in Streams |-> 0]

-----------------------------------------------------------------------------
(* executeTask. *)

\* One message says why; it waits for room or for the cancellation.
SendError ==
  /\ \/ Room /\ outbox' = Append(outbox, Token("stderr", 0))
     \/ cancelled /\ UNCHANGED outbox
  /\ pc' = "failed"
  /\ UNCHANGED <<fixed, cancelled, mu, client, input, proc, heir, written, reader, taken, got>>

validateArgs ==
  /\ pc = "args"
  /\ hasArgs
  /\ pc' = "prepare"
  /\ UNCHANGED <<fixed, cancelled, mu, client, input, proc, heir, output>>

validateArgsFails == pc = "args" /\ ~hasArgs /\ SendError

\* Mutant: a command that is not interactive gets a pipe, too.
prepareCommandPiped ==
  /\ pc = "prepare"
  /\ stdin' = "open"
  /\ pc' = "start"
  /\ UNCHANGED <<fixed, cancelled, mu, client, fed, copier, kernel, proc, heir, output>>

\* The writer is assigned without the mutex; FeedInput sees it or does not.
prepareCommand ==
  /\ pc = "prepare"
  /\ stdin' = IF interactive THEN "open" ELSE stdin
  /\ pc' = "start"
  /\ UNCHANGED <<fixed, cancelled, mu, client, fed, copier, kernel, proc, heir, output>>

\* Start fails when the context is cancelled already, or for its own reasons.
Start ==
  /\ pc = "start"
  /\ ~cancelled
  /\ proc' = "running"
  /\ copier' = IF interactive THEN "reading" ELSE copier
  /\ pc' = "startHealth"
  /\ UNCHANGED <<fixed, cancelled, mu, client, fed, stdin, kernel, heir, output>>

StartFails ==
  /\ pc = "start"
  /\ pc' = "startError"
  /\ UNCHANGED <<fixed, cancelled, mu, client, input, proc, heir, output>>

handleStartError == pc = "startError" /\ SendError

ReturnError ==
  /\ pc = "failed"
  /\ pc' = "returned"
  /\ UNCHANGED <<fixed, cancelled, mu, client, input, proc, heir, output>>

\* StartHealthCheck takes the mutex, and does nothing for a session that has been
\* unregistered; then readOutput starts the two goroutines.
startHealthCheck ==
  /\ pc = "startHealth"
  /\ mu = "free"
  /\ health' \in {"on"} \cup (IF cancelled THEN {"off"} ELSE {})
  /\ reader' = [s \in Streams |-> "read"]
  /\ pc' = "readOutput"
  /\ UNCHANGED <<fixed, cancelled, mu, router, input, proc, heir, written, taken, outbox, got>>

\* Mutant: the wait group counts one goroutine only.
readOutputOne ==
  /\ pc = "readOutput"
  /\ \E s \in Streams : reader[s] = "done"
  /\ pc' = "closeStdin"
  /\ UNCHANGED <<fixed, cancelled, mu, client, input, proc, heir, output>>

readOutput ==
  /\ pc = "readOutput"
  /\ \A s \in Streams : reader[s] = "done"
  /\ pc' = "closeStdin"
  /\ UNCHANGED <<fixed, cancelled, mu, client, input, proc, heir, output>>

\* Mutant: stdin is left to the command.
closeStdinNever ==
  /\ pc = "closeStdin"
  /\ pc' = "wait"
  /\ UNCHANGED <<fixed, cancelled, mu, client, input, proc, heir, output>>

closeStdin ==
  /\ pc = "closeStdin"
  /\ stdin' = IF interactive THEN "closed" ELSE stdin
  /\ pc' = "wait"
  /\ UNCHANGED <<fixed, cancelled, mu, client, fed, copier, kernel, proc, heir, output>>

\* Wait waits for the process and for the copying goroutine.
Wait ==
  /\ pc = "wait"
  /\ proc = "exited"
  /\ copier \in {"none", "gone"}
  /\ pc' = "stopHealth"
  /\ UNCHANGED <<fixed, cancelled, mu, client, input, proc, heir, output>>

\* The Worker waits for the health goroutine with the mutex held ...
stopHealthCheck ==
  /\ pc = "stopHealth"
  /\ mu = "free"
  /\ IF health = "off" THEN pc' = "returned" /\ UNCHANGED mu
                       ELSE pc' = "stopping" /\ mu' = "worker"
  /\ UNCHANGED <<fixed, cancelled, client, input, proc, heir, output>>

\* ... and gives it back only then.
stopHealthReturns ==
  /\ pc = "stopping"
  /\ health = "gone"
  /\ mu' = "free"
  /\ pc' = "returned"
  /\ UNCHANGED <<fixed, cancelled, client, input, proc, heir, output>>

\* The Worker, after Run has returned.
CloseMsgChan ==
  /\ pc = "returned"
  /\ pc' = "closed"
  /\ UNCHANGED <<fixed, cancelled, mu, client, input, proc, heir, output>>

CompleteActive ==
  /\ pc = "closed"
  /\ mu = "free"
  /\ stdin' = "nil"
  /\ pc' = "done"
  /\ UNCHANGED <<fixed, cancelled, mu, client, fed, copier, kernel, proc, heir, output>>

-----------------------------------------------------------------------------
(* streamOutput. *)

ReadToken(s) ==
  /\ reader[s] = "read"
  /\ taken[s] < written[s]
  /\ taken' = [taken EXCEPT ![s] = @ + 1]
  /\ reader' = [reader EXCEPT ![s] = "send"]
  /\ UNCHANGED <<fixed, pc, cancelled, mu, client, input, proc, heir, written, outbox, got>>

\* Mutant: Wait closes the pipe while there is still output in it.
ReadEOFEarly(s) ==
  /\ reader[s] = "read"
  /\ proc = "exited"
  /\ reader' = [reader EXCEPT ![s] = "done"]
  /\ UNCHANGED <<fixed, pc, cancelled, mu, client, input, proc, heir, written, taken, outbox, got>>

\* The end of the file comes when nobody holds the other end any more.
ReadEOF(s) ==
  /\ reader[s] = "read"
  /\ taken[s] = written[s]
  /\ ~PipeHeld
  /\ reader' = [reader EXCEPT ![s] = "done"]
  /\ UNCHANGED <<fixed, pc, cancelled, mu, client, input, proc, heir, written, taken, outbox, got>>

\* Mutant: the message is dropped when the outbox is full, as safeSend does.
SendTokenOrDrop(s) ==
  /\ reader[s] = "send"
  /\ outbox' = IF Room THEN Append(outbox, Token(s, taken[s])) ELSE outbox
  /\ reader' = [reader EXCEPT ![s] = "read"]
  /\ UNCHANGED <<fixed, pc, cancelled, mu, client, input, proc, heir, written, taken, got>>

SendToken(s) ==
  /\ reader[s] = "send"
  /\ Room
  /\ outbox' = Append(outbox, Token(s, taken[s]))
  /\ reader' = [reader EXCEPT ![s] = "read"]
  /\ UNCHANGED <<fixed, pc, cancelled, mu, client, input, proc, heir, written, taken, got>>

\* Mutant: the goroutine notices the cancellation only when the outbox is empty.
StreamCancelledLate(s) ==
  /\ reader[s] = "send"
  /\ cancelled
  /\ outbox = <<>>
  /\ reader' = [reader EXCEPT ![s] = "done"]
  /\ UNCHANGED <<fixed, pc, cancelled, mu, client, input, proc, heir, written, taken, outbox, got>>

StreamCancelled(s) ==
  /\ reader[s] = "send"
  /\ cancelled
  /\ reader' = [reader EXCEPT ![s] = "done"]
  /\ UNCHANGED <<fixed, pc, cancelled, mu, client, input, proc, heir, written, taken, outbox, got>>

-----------------------------------------------------------------------------
(* The router: one goroutine that drains the outbox, feeds input or closes the session. *)

\* When the message cannot be written to the client the router closes the session.
RouterReceive ==
  /\ router = "select"
  /\ outbox # <<>>
  /\ outbox' = Tail(outbox)
  /\ got' = [got EXCEPT ![Head(outbox).stream] = Head(outbox).n]
  /\ router' \in {"select", "close"}
  /\ UNCHANGED <<fixed, pc, cancelled, mu, health, input, proc, heir, written, reader, taken>>

\* Session.Close waits for the health goroutine before it cancels the context.
CloseCancels ==
  /\ router = "close"
  /\ health \in {"off", "gone"}
  /\ cancelled' = TRUE
  /\ router' = "select"
  /\ UNCHANGED <<fixed, pc, mu, health, input, proc, heir, output>>

RouteInbox ==
  /\ router = "select"
  /\ fed < MaxInputs
  /\ fed' = fed + 1
  /\ router' = "call"
  /\ UNCHANGED <<fixed, pc, cancelled, mu, health, stdin, copier, kernel, proc, heir, output>>

\* FeedInput starts to write into the pipe; it returns at once when there is none
\* or when it has been closed.
FeedInput ==
  /\ router = "call"
  /\ mu = "free"
  /\ IF stdin = "open" THEN router' = "feed" /\ mu' = "feed"
                       ELSE router' = "select" /\ UNCHANGED mu
  /\ UNCHANGED <<fixed, pc, cancelled, health, input, proc, heir, output>>

FeedFails ==
  /\ router = "feed"
  /\ stdin = "closed"
  /\ mu' = "free"
  /\ router' = "select"
  /\ UNCHANGED <<fixed, pc, cancelled, health, input, proc, heir, output>>

-----------------------------------------------------------------------------
(* The goroutine that copies the pipe to the command. *)

CopierTakes ==
  /\ copier = "reading"
  /\ router = "feed"
  /\ stdin = "open"
  /\ mu' = "free"
  /\ router' = "select"
  /\ copier' = "writing"
  /\ UNCHANGED <<fixed, pc, cancelled, health, fed, stdin, kernel, proc, heir, output>>

CopierWrites ==
  /\ copier = "writing"
  /\ PipeHeld
  /\ kernel < StdinSize
  /\ kernel' = kernel + 1
  /\ copier' = "reading"
  /\ UNCHANGED <<fixed, pc, cancelled, mu, client, fed, stdin, proc, heir, output>>

\* A write to a command that is gone, or the end of the pipe.
CopierEnds ==
  /\ \/ copier = "writing" /\ ~PipeHeld
     \/ copier = "reading" /\ stdin = "closed"
  /\ copier' = "gone"
  /\ UNCHANGED <<fixed, pc, cancelled, mu, client, fed, stdin, kernel, proc, heir, output>>

-----------------------------------------------------------------------------
(* The command and the session. *)

\* A process that is blocked on its output does not read its input.
ProcReads ==
  /\ proc = "running" \/ heir = "alive"
  /\ kernel > 0
  /\ kernel' = kernel - 1
  /\ UNCHANGED <<fixed, pc, cancelled, mu, client, fed, stdin, copier, proc, heir, output>>

\* The command or the child; a write that is blocked comes first.
ProcWrites(s) ==
  /\ \/ proc \in {"running", s} /\ proc' = "running"
     \/ heir = "alive" /\ proc # s /\ UNCHANGED proc
  /\ ~PipeFull(s)
  /\ written[s] < MaxTokens[s]
  /\ written' = [written EXCEPT ![s] = @ + 1]
  /\ UNCHANGED <<fixed, pc, cancelled, mu, client, input, heir, reader, taken, outbox, got>>

ProcBlocks(s) ==
  /\ proc = "running"
  /\ PipeFull(s)
  /\ written[s] < MaxTokens[s]
  /\ proc' = s
  /\ UNCHANGED <<fixed, pc, cancelled, mu, client, input, heir, output>>

ProcForks ==
  /\ proc = "running"
  /\ heir = "none"
  /\ heir' = "alive"
  /\ UNCHANGED <<fixed, pc, cancelled, mu, client, input, proc, output>>

HeirExits ==
  /\ heir = "alive"
  /\ heir' = "dead"
  /\ UNCHANGED <<fixed, pc, cancelled, mu, client, input, proc, output>>

\* By itself, or killed by os/exec once the context is cancelled.
ProcExits ==
  /\ proc = "running" \/ (Running /\ cancelled)
  /\ proc' = "exited"
  /\ UNCHANGED <<fixed, pc, cancelled, mu, client, input, heir, output>>

\* The session's health goroutine ends when it is told to ...
HealthEnds ==
  /\ health = "on"
  /\ cancelled \/ pc = "stopping" \/ router = "close"
  /\ health' = "gone"
  /\ UNCHANGED <<fixed, pc, cancelled, mu, router, input, proc, heir, output>>

\* ... but closes the session when its ping fails, and there waits for its own end,
\* unless the session has been closed already.
PingFails ==
  /\ health = "on"
  /\ health' \in {"stuck"} \cup (IF cancelled THEN {"gone"} ELSE {})
  /\ UNCHANGED <<fixed, pc, cancelled, mu, router, input, proc, heir, output>>

\* The task is removed, or the queue is shut down.
Cancel ==
  /\ ~cancelled
  /\ cancelled' = TRUE
  /\ UNCHANGED <<fixed, pc, mu, client, input, proc, heir, output>>

-----------------------------------------------------------------------------
executeTask ==
  \/ validateArgs \/ validateArgsFails \/ prepareCommand
  \/ Start \/ StartFails \/ handleStartError \/ ReturnError
  \/ startHealthCheck \/ readOutput \/ closeStdin \/ Wait
  \/ stopHealthCheck \/ stopHealthReturns

Worker == CloseMsgChan \/ CompleteActive

streamOutput(s) == ReadToken(s) \/ ReadEOF(s) \/ SendToken(s) \/ StreamCancelled(s)

Router == RouterReceive \/ CloseCancels \/ RouteInbox \/ FeedInput \/ FeedFails

Copier == CopierTakes \/ CopierWrites \/ CopierEnds

Command ==
  \/ ProcReads \/ ProcForks \/ HeirExits \/ ProcExits
  \/ \E s \in Streams : ProcWrites(s) \/ ProcBlocks(s)

Next ==
  \/ executeTask
  \/ Worker
  \/ \E s \in Streams : streamOutput(s)
  \/ Router
  \/ Copier
  \/ Command
  \/ HealthEnds \/ PingFails
  \/ Cancel

Spec == Init /\ [][Next]_vars

\* Goroutines go on when they can; the router, when it is in its select, drains the
\* outbox until the session is cancelled; a cancelled command is killed, and one that
\* is blocked on its output goes on when there is room. A command need not read its
\* input, nor end by itself, nor need a child it leaves behind.
FairSpec ==
  /\ Spec
  /\ WF_vars(executeTask)
  /\ WF_vars(Worker)
  /\ \A s \in Streams : WF_vars(streamOutput(s))
  /\ \A s \in Streams : WF_vars(proc = s /\ ProcWrites(s))
  /\ WF_vars(FeedInput \/ FeedFails)
  /\ WF_vars(CloseCancels)
  /\ WF_vars(HealthEnds)
  /\ WF_vars(Copier)
  /\ WF_vars(~cancelled /\ RouterReceive)
  /\ WF_vars(cancelled /\ ProcExits)

-----------------------------------------------------------------------------
(* Properties. *)

TypeOK ==
  /\ hasArgs \in BOOLEAN /\ interactive \in BOOLEAN /\ cancelled \in BOOLEAN
  /\ pc \in {"args", "prepare", "start", "startError", "failed", "startHealth",
             "readOutput", "closeStdin", "wait", "stopHealth", "stopping", "returned",
             "closed", "done"}
  /\ mu \in {"free", "feed", "worker"}
  /\ health \in {"off", "on", "stuck", "gone"}
  /\ router \in {"select", "call", "feed", "close"}
  /\ fed \in 0..MaxInputs
  /\ stdin \in {"nil", "open", "closed"}
  /\ copier \in {"none", "reading", "writing", "gone"}
  /\ kernel \in 0..StdinSize
  /\ proc \in {"none", "running", "exited"} \cup Streams
  /\ heir \in {"none", "alive", "dead"}
  /\ written \in [Streams -> Nat]
  /\ reader \in [Streams -> {"off", "read", "send", "done"}]
  /\ taken \in [Streams -> Nat]
  /\ outbox \in Seq([stream : Streams, n : Nat])
  /\ Len(outbox) <= OutboxSize
  /\ got \in [Streams -> Nat]

\* The places in the outbox of the tokens of a stream.
Of(s) == {i \in DOMAIN outbox : outbox[i].stream = s /\ outbox[i].n # 0}

\* The router has received the token, or will.
Delivered(s, k) == k <= got[s] \/ \E i \in Of(s) : outbox[i].n = k

\* The client gets the tokens of a stream in the order in which the command wrote
\* them, without a gap, also when the outbox fills up or the run is cancelled.
StreamsInOrder ==
  \A s \in Streams : \A i \in Of(s) :
    /\ got[s] < outbox[i].n
    /\ \A j \in Of(s) : i < j => outbox[i].n < outbox[j].n
    /\ \A k \in 1..outbox[i].n : Delivered(s, k)

\* A run that was not cancelled delivers all that was written before it closes the
\* pipes: the streams are read to the end before Wait.
NoOutputLost ==
  pc \in {"closeStdin", "wait", "stopHealth", "stopping"} /\ ~cancelled =>
    \A s \in Streams : \A k \in 1..written[s] : Delivered(s, k)

\* Once Run has returned nothing is left that would send to the outbox, which the
\* Worker closes next; and the command, the goroutine that fed it and the one that
\* pinged its client are gone, so that the next task does not run beside it.
NothingOutlivesRun ==
  pc \in {"returned", "closed", "done"} =>
    /\ \A s \in Streams : reader[s] \in {"off", "done"}
    /\ proc \in {"none", "exited"}
    /\ copier \in {"none", "gone"}
    /\ health \in {"off", "gone"}

-----------------------------------------------------------------------------
(* The run as the queue manager sees it: TaskQueue with the one task that the Worker *)
(* has just taken, interactive or not.                                               *)

RunTasks == {"batch", "interactive"}
Task == IF interactive THEN "interactive" ELSE "batch"
OfTask(value, none) == [t \in RunTasks |-> IF t = Task THEN value ELSE none]

\* Where the Worker is.
WorkerPC == CASE pc = "returned" -> "close"
              [] pc = "closed" -> "complete"
              [] pc = "done" -> "delay"
              [] OTHER -> "run"

Queue == INSTANCE TaskQueue WITH
  Tasks <- RunTasks,
  Interactive <- {"interactive"},
  Sessions <- {"client"},
  Owner <- [t \in RunTasks |-> "client"],
  NoTask <- "none",
  NoSession <- "none",
  queue <- <<>>,
  activeTask <- IF WorkerPC = "delay" THEN "none" ELSE Task,
  session <- [s \in {"client"} |-> "registered"],
  notify <- FALSE,
  feeding <- IF mu = "feed" THEN "client" ELSE "none",
  leaving <- "none",
  lastID <- 1,
  id <- OfTask(1, 0),
  msgChan <- OfTask([i \in 1..Len(outbox) |-> [event |-> "output", pos |-> 0]], <<>>),
  closed <- OfTask(WorkerPC \in {"complete", "delay"}, FALSE),
  cancelled <- OfTask(cancelled, FALSE),
  stdin <- OfTask(stdin, "nil"),
  pc <- WorkerPC,
  task <- Task,
  ctxDone <- FALSE,
  down <- FALSE,
  seen <- OfTask(0, 0)

\* The run does to its task, its outbox, its stdin and the mutex only what TaskQueue
\* lets a TaskRunner, FeedInput, the router and the Worker do: it sends nothing after
\* it has returned or without room, gives stdin to an interactive task only, once, and
\* input is taken while the command runs or refused when its stdin is closed.
ImplementsRunner == [][Queue!Next]_(Queue!vars)

-----------------------------------------------------------------------------
(* Progress. *)

\* FeedInput writes with the mutex held into a pipe that nobody reads (any more).
StuckFeeder == router = "feed" /\ stdin = "open" /\ copier \in {"none", "gone"} /\ pc # "start"

\* The health goroutine waits for its own end.
StuckHealth == health = "stuck"

\* Input waits for output: the router feeds a command whose stdin is full and which
\* is blocked on a stream; that waits for its goroutine, which waits for the router to
\* drain the outbox, or is not there yet since the Worker waits for the mutex.
InputMeetsOutput ==
  /\ router = "feed" /\ stdin = "open"
  /\ copier = "writing" /\ kernel = StdinSize
  /\ \E s \in Streams :
       /\ proc = s /\ PipeFull(s)
       /\ reader[s] = "off" \/ (reader[s] = "send" /\ ~Room)

\* A cancelled run ends and frees the active slot, although nobody drains the
\* outbox any more, unless a FeedInput is stuck with the mutex for ever, or the health
\* goroutine, or a child that the command left behind holds its pipes for ever.
CancelEndsRun ==
  <>[]cancelled =>
    \/ <>(pc = "done")
    \/ <>[]StuckFeeder
    \/ <>[]StuckHealth
    \/ <>[](heir = "alive")

\* When the command and what it leaves behind end, so does the run: an interactive
\* command's stdin is closed for it, and its output is drained between two inputs. It
\* does not if FeedInput or the health goroutine is stuck or if input waits for output,
\* each of them for ever. (A command that is blocked on its output cannot end.)
RunEnds ==
  WF_vars(ProcExits) /\ WF_vars(HeirExits) =>
    \/ <>(pc = "done")
    \/ <>[]StuckFeeder
    \/ <>[]StuckHealth
    \/ <>[]InputMeetsOutput

\* "It returns an error if there is no active task for that client or if writing
\* fails" (queue.go:291): one way or the other, FeedInput returns, at least if
\* commands end.
FeedInputReturns ==
  WF_vars(ProcExits) /\ WF_vars(HeirExits) => (router = "feed" ~> router # "feed")

=============================================================================
