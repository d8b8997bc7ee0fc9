# A TLA+ model of remser

remser runs commands on a remote machine: clients connect through a WebSocket, each
sends one command, the server queues the commands and runs them one after the other,
and streams their output back. This directory models the concurrent core of the server and
of the client in TLA+, checks it with TLC and proves its safety properties with TLAPS for
all values of the constants.

Paths below are relative to the repository: `queue.go`, `executor.go`, `handler.go`,
`router.go`, `session.go`, `handshake.go` and `server.go` are under `internal/server/`,
`client.go` and `ssh.go` under `internal/client/`, `run.go` and `serve.go` (the commands
`remserc run` and `remserd serve`) under `internal/presentation/cli/commands/`.

## 1. The system

| Component | State | Operations | What makes it correct |
|---|---|---|---|
| Queue manager (`queue.go`) | `queue`, `sessions`, `activeTask`, `notify`, all under `mu`; per task ID, `MsgChan`, `closeOnce`, context, `StdInWriter` | `Enqueue`, `Dequeue`, `Remove`, `RegisterSession`, `UnregisterSession`, `FeedInput`, `SetActiveStdin`, `CompleteActive`, `Shutdown`, `keepAlivePinger` | FIFO, one task at a time, no task, wake-up or client forgotten, no send on a closed channel, input only to its owner |
| Worker (`queue.go` 315-355) | the task it runs | dequeue, run, close the channel, complete, delay | goes on as long as there are tasks, ends when cancelled |
| Executor (`executor.go`) | the process, its pipes, two output goroutines, the goroutine that copies stdin | `executeTask` and its helpers | output complete and in order, a run that is cancelled ends, nothing survives it |
| Handler and router (`handler.go`, `router.go`) | `activeConn`; outbox and inbox | admission, handshake, `Router.Run`, the four callbacks | each client learns that its task has ended; handlers return |
| Session (`session.go`) | connection, context, `once`, the health goroutine and its `WaitGroup`, the reader goroutine | `StartHealthCheck`, `StopHealthCheck`, `Close`, `StartReader`, reads and writes | closed once, whoever closes it; no goroutine is left |
| Server (`server.go`, `serve.go`) | HTTP server, Worker's context and wait group | `Start`, `Shutdown` | shutdown ends, ends every task and leaves no Worker, whenever it comes |
| Client (`client.go`, `ssh.go`, `run.go`) | terminal mode, tunnel, connection, two contexts, ping interval channel | `Execute`, `readMessageLoop`, `pingLoop`, `readStdinLoop`, `defaultHandler` | the request comes first; ends when the task, the connection or its context does, and leaves no loop, tunnel or raw terminal behind |

The parts meet in few places. Handlers call the queue manager under `qm.mu`. The Worker
calls the executor, which sends to `Task.MsgChan`, the outbox of the task's router. The
executor calls back into the queue manager to start and stop health checks, which calls
the session with `qm.mu` held. The session's context is the task's context. Closing
`MsgChan` makes the router write `task_finished` and close the session; a closed session
cancels the context, which ends the run. The router is part of the handler's goroutine: it
drains the outbox or is inside `FeedInput`, never both.

What is hard: the mutex is held during three operations that block (the pipe write of
`FeedInput` and the two that wait for a health goroutine), each of which may block for ever,
with all who need the mutex behind it; channels are closed by one
goroutine and sent to by others, in part without `recover`; the wake-up of the Worker is
a channel of capacity one that is read without the mutex; `Close` and `StopHealthCheck`
are called by three goroutines, one of which they wait for; cancellation races with
output, with the queue and with shutdown. `PROJECT.json` lists these as hazards, each with
its line and the properties that look for it.

## 2. The modules

| Module | Models | Lines |
|---|---|---|
| `TaskQueue` | `QueueManager`, `Worker`; the runner, routers, sessions and the server as their interfaces allow | `queue.go` |
| `TaskLifecycle` | what the queue promises, abstractly: a line, the task being served, those who have ended | |
| `MCTaskQueue`, `MCTaskQueue3`, `MCExecutor` | constants for TLC | |
| `Executor` | one run, from `validateArgs` to `CompleteActive`, with `FeedInput` | `executor.go`, `queue.go` 290-313 |
| `OutputTokens` | one stream of a command, byte by byte: `readToken`, `streamOutput`, what the client prints | `executor.go` 171-242, `client.go` 370-381 |
| `LineStream` | what the client is promised of a stream, abstractly: the lines, each whole and once | |
| `SessionLife` | one connection, its three goroutines and the Worker as far as it meets them | `session.go`, `router.go`, `handler.go` 78-234, `executor.go` 56-92, 111-126, `queue.go` 160-222, 290-313, 387-405 |
| `ServerLife` | the whole server: start, connections and their limit, the Worker, shutdown | `server.go`, `serve.go`, `handler.go` 60-101, `executor.go` 56-92, `queue.go` 111-129, 167-222, 290-313, 315-405 |
| `ClientLoop` | `remserc run` and `Client.Execute`: terminal, tunnel, dial, the read, ping and stdin loops, the server as they meet it | `run.go`, `ssh.go`, `client.go` 147-364 |
| `QueueLemmas` | facts about `Append`, `Tail`, `RemoveAt` and sets of elements | |
| `TaskQueueProofs`, `OutboxProofs` | theorems about `TaskQueue` | |
| `ExecutorProofs`, `TokensProofs`, `SessionProofs`, `ServerProofs`, `ClientProofs` | theorems about the module of that name | |

**TaskQueue.** A method that runs under `qm.mu` is one action. Two are split, because
others can see them half-way: `FeedInput` holds the mutex while it writes (`feeding`), and
`UnregisterSession` cancels and closes task by task (`leaving`). `Unlocked` says that
neither holds it. `Dequeue` is three actions, as in the code: take a task, or find none
and let the mutex go, then wait on `notify` or the context. A non-blocking send is `Offer`,
which drops the message when the channel is full. A task's ID is the number of the
`Enqueue`, which is how UUIDv7 orders it. The runner may set and close stdin, send output
while there is room, and return; a panic that `runTaskSafe` recovers is a return. `Remove`
and `SetActiveStdin` are exported and tested but not called by the server; they are
included, because the guarantees should hold for all of the interface. `seen` is a history
variable: the last position the client's router took from the outbox.

**Executor.** `pc` follows `executeTask` and then the Worker up to `CompleteActive`. A
stream is the number of tokens written to it; a goroutine alternates between `read` and
`send`; `heir` is a child process that inherits the pipes. A failed start takes two steps,
`SendError` and `ReturnError`, because the error message may have to wait for room; after
the return, `CloseMsgChan` and `CompleteActive` are steps of their own. The router is one
goroutine with one place, `router`: in its select, where it receives from the outbox; on its
way into `FeedInput` or in the pipe write there, with the mutex held (`mu = "feed"`); or in
`Session.Close`. So it does not drain the outbox while it feeds. `stopHealthCheck` takes the
mutex and keeps it (`mu = "worker"`) until the health goroutine (`health`) has gone; that one
ends when it is told to, or goes into `Close` after a failed ping and waits for itself
(`"stuck"`). `copier` is the goroutine os/exec starts because `cmd.Stdin` is not a file. A
command that writes to a full pipe is blocked on that stream, and reads no input meanwhile.
The process, the child and the copier are not code of the repository: they are marked external
in the map.

`TaskQueue` knows the executor as a `TaskRunner` only, that is, by what its runner actions
allow. `ImplementsRunner` is the check that they allow enough: `Executor` instantiates
`TaskQueue` with one task, interactive or not, which the Worker has just taken from the
queue, and every step of a run is a step of that `TaskQueue`.

**OutputTokens.** The byte sequence `written` and `pos`, the place of the reader in it, stand
for pipe and buffered reader: what the command has written and not yet read can be read
at any later time, so every split of a line into writes occurs. A byte is a carriage return,
a line feed, other text, or not part of valid UTF-8, which `encoding/json` replaces. The
outbox and the connection in between keep the order (`Executor`, `TaskQueue`), so `Send`
prints the token at once. `mark` is a history variable: where the last token printed ends.
`LineStream` has no reader and no tokens: what is shown grows by one line when that line is
finished, or by an unfinished rest at the end. `OutputTokens` implements it, with the JSON
encoding for its `Display`.

**SessionLife.** `pc` says where the handler, the reader, the health goroutine and the
session's task are. `closing` and `stopping` say where each caller of `Close` and
`StopHealthCheck` is in it. `StartHealthCheck` is two actions, because `Close` may come
between the assignment of `healthCancel` and `healthWg.Add`; the test of `healthCancel`
and the call in `StopHealthCheck` read the field once, as the compiler merges the two
loads. Writes take time: the websocket library panics when a second write begins while one
is under way. net/http recovers that panic in the handler, whose deferred calls run; in
the health goroutine it ends the process (`alive`). `outbox` and `inbox` are lengths.
`FeedInput` takes the mutex, and keeps it in its pipe write (`"feeding"`) until a command that
has been started takes the input or the Worker has closed the pipe (`stdin`). The Worker's
places between `Dequeue` and the run (`prepare`, `start`, `failing`, `startHealth`) are there
because a `FeedInput` may meet it in each. `mu = "others"` says that another session's
goroutine has the mutex for ever, which `OthersStick` allows whenever this session's task is
not the active one. `Awaits(g, h)` says that `g` may not be able to go on before `h` does: the
mutex, the once, the two wait groups, the two channels, and the pipe, which only the Worker
closes.

**ClientLoop.** `pc` says where the calling goroutine, the ping loop and the stdin loop are.
A write is two actions, its start and its end, so that writes of two goroutines can overlap;
then the library may panic (`alive`). After an error or the close frame every write fails
(`out`). `pingCh` is the channel of intervals, a message's interval being a rate: passive,
active or off. `Fresh` says that pings or pongs keep putting off the read deadline: the
server pings while the task runs, and answers the client's pings. What the server sends
depends on what it does with the task, as `TaskQueue` and `SessionLife` have it; `late` is
a history variable. Before that, the calling goroutine sets the terminal to raw mode
(`tty`), opens the tunnel if one is configured (`UseSSH`) and dials; each may fail, and the
deferred calls are actions of their own. `NewClient`, the arguments and the configuration
are the one action `PrepareFails`.

**ServerLife.** `start` follows the goroutine of `Server.Start`, `main` the serve command and
then `Shutdown`, `conn` each connection from `Accept` to the deferred decrement of
`activeConn`. `Load` and `Add` are two actions. A connection brings one task, so the
connection names it. `seenSrv` is what `Shutdown` reads of `s.srv`, which `Start` assigns
without a lock; if it reads nil there is no HTTP shutdown. `http.Server` is external: it
closes idle connections, waits for the others, and forgets those it was told to hijack.
`peak` is a history variable. The queue is that of `TaskQueue` without messages, the
handler that of `SessionLife` without its goroutines. `mu` is `qm.mu`, where somebody may keep
it: a handler in the pipe write of `FeedInput` or waiting in `UnregisterSession` for the health
goroutine, and the Worker waiting for it in `StopHealthCheck`; `hung` says that this goroutine
waits for itself. A run is a step for each place where one of these can meet it, from `prepare`
to `complete`. The panics that end the process are left out (`SessionLife`). Driven by the server's
start and shutdown, this coarser queue keeps the promise of `TaskLifecycle`, too (a task is served until its channel is closed), with one
exception, `EndsUnderWorker`: a Shutdown that found no HTTP server and no Worker, because
`Start` was about to create both, drops all that waits while the Worker started since
serves a task.

Left out everywhere: logging, JSON, the text of messages, and clocks. A time-out is an
action that may happen at any time.

## 3. What TLC checks

| Run | Configuration | Shows |
|---|---|---|
| `queue_safety` | two sessions with a task each, one task interactive, outbox 2 | no closed channel is used; no task, wake-up or session's remainder is lost; input reaches its owner only; news before output; shutdown ends everything |
| `queue_order` | three tasks of one session, symmetric, outbox 1 | positions never grow; `TaskQueue` implements `TaskLifecycle` |
| `queue_live` | two tasks, one session, outbox 1 | tasks end if `Run` returns and no `FeedInput` is stuck; a dropped position is made up for |
| `run` | outbox 1, pipe 1, 3 tokens of stdout and 1 of stderr, 3 inputs, stdin buffer 1 | output in order and complete, nothing outlives the run; a run does only what `TaskQueue` lets its runner do; cancellation ends it, and so does the end of the command, but for the named cases |
| `session` | outbox 1, inbox 1, 1 output, 2 commands | sessions are closed for a reason; `task_finished` meets no ping; no health goroutine is left; there are two kinds of circles in which goroutines wait for each other, `SelfWait` and `FeedCircle`; handlers return, the mutex comes back and the Worker is freed, but for the named cases |
| `tokens` | every stream of at most 4 bytes of 4 kinds | `OutputTokens` implements `LineStream`: the terminal shows line after line, each whole and once; only unfinished lines are held back; nothing is lost at the end; a finished line is shown some time, without the command having to write more |
| `server` | 2 connections, limit 1 | exact count, bound on the excess; when Shutdown returns every enqueued task has ended and the Worker is gone; Shutdown returns and slots come back if commands end, but for the named cases; `ServerLife` implements `TaskLifecycle`, but for `EndsUnderWorker` |
| `client` | interactive, with tunnel, 1 message under way | the request is the first frame and alone; Execute returns, except during a silent run; then its loops end and take at most one more chunk of input; terminal, tunnel and connection are given back |
| `run_feed`, `session_ping`, `server_shutdown`, `client_cancel` | small instances | the four disagreements of section 5 |

Why the bounds are enough: two tasks give every pairing of a waiting, an active and an
ended one, and three give the order of a line with a removal from its middle. Channels are
of capacity 1 or 2, so that full and empty, and a message behind another, all occur; the
real capacities (64 and 8) only postpone the first. With an inbox of one, the second
command lets the reader block. In `run` the token of stderr can fill the outbox while
one token of stdout is with its goroutine, one is in the pipe, and the command is blocked on the
third; three inputs are one in the command's stdin, one with the copier and one with a router
that waits for it: together, the deadlock of `InputMeetsOutput`. (The pipe of a stream holds one
token, where a kernel holds 64 KiB.) The client's goroutines loop without counters: all their rounds are
explored, and a message can arrive while the interval of the one before has not been taken.
Four bytes hold CR LF with text before and after it, and any two line ends after each other.
Two connections with a limit of one race between `Load` and `Add`, and one can wait in the
queue, shake hands or be accepted while the other runs and the server is shut down.
`EndsUnderWorker` takes three connections, one that runs and two that wait; with two, every
step is one of the lifecycle, and the theorem covers the rest.
The number of position messages is not bounded, nor is the number of
rounds of the Worker beyond the number of tasks. Deadlock is not checked: the system may
stop, after shutdown or when a connection has ended.

**Fairness.** Goroutines that can go on do (weak fairness). For the Worker's and the
pinger's use of `qm.mu` in `TaskQueue`, and the Worker's in `ServerLife`, it is strong: a Go
mutex that has starved a waiter for a millisecond is handed over in order. The pinger ticks for
ever. A router that is in its select drains its outbox as long as its context lives, as the
client program reads what it is sent; nothing drains it while the router is in `FeedInput`. A
`select` whose context is done does not choose another case for ever, because Go chooses at
random: this is strong fairness in `SessionLife`, for the router's `RouteCtxDone` and the health
goroutine's `HealthCtxDone`. What is written to or read from a lost client fails sooner or later
(strong fairness again, since the router does other things in between). Both kinds are one
formula there, `Ends`, as each of its steps is taken at most once. A cancelled command is killed by
os/exec. In `ServerLife` the five seconds of the context pass, a handshake ends within its
deadline, and the router of a task that ended returns unless the queue manager cancelled the
task; no signal, client or command is assumed to come or to do anything. In `OutputTokens`
only the goroutine is fair.

No command is assumed to end, to read its input, or to leave no child. Where a property needs
it, it is a premise: `WF_vars(ProcExits)` and `WF_vars(HeirExits)` in `Executor` (the process and
its child end, which they cannot while they are blocked); `WF_vars(CommandEnds)` in `ServerLife`
(the command ends and its output can be read to the end; what `Run` does before and after is no
part of it); `WF_vars(RunReturn)` in `TaskQueue`, which is more: that `Run` returns. What can keep
it from that is the subject of `RunEnds`.

**Exceptions in the liveness properties.** The code does get stuck, and each property says
where:

- `StuckFeeder`: `FeedInput` is in a pipe, with `qm.mu` held, that nobody reads and that the Worker
  has left open (finding 2) or would close only after it has taken the mutex (it is on its way
  to `startHealthCheck`, for which it waits). In `TaskQueue`, `Executor`, `SessionLife` and
  `ServerLife`.
- `SelfWait`, `StuckHealth` and `hung`: the health goroutine waits for itself (finding 1), and the
  Worker or the handler for it, with `qm.mu` held. In `SessionLife`, `Executor` and `ServerLife`.
- `mu = "others"`: a goroutine of another session is in one of these two states.
- `InputMeetsOutput`: input and output wait for each other (end of section 5).
- `UnreadInput`: `FeedInput` writes to a running command that does not read. Nothing is wrong with
  that command, but `qm.mu` is held until it reads or ends.
- `heir = "alive"`: a child of the command holds its pipes.
- `Lingering`: the queue manager cancelled the task but the client goes on pinging.
- `LeftBehind`: the task was enqueued after, or ended by, a Shutdown that has returned; the process
  exits next. `main = "fatal"`: `log.Fatalf` when `ListenAndServe` fails. `~alive`: a panic has
  ended the process.
- `SilentRun`: a cancelled client that gets pings only. In `LoopsEnd` a ping loop without ticker
  and a stdin loop in a read.

No exception is there for nothing: without it TLC finds a run that violates the
property. That there are no further ways to get stuck is shown as far as a module goes and on
its instance: `ServerLife`, for one, sees neither panics nor what a run does with its output.
Three properties of `ServerLife` also assume `seenSrv`: a Shutdown that comes before `Start`
has assigned `s.srv` neither stops the HTTP server nor, if the Worker was not started yet,
waits for it.

## 4. What TLAPS proves

For any number of tasks and sessions and any outbox capacity, from `ConstantsOK` alone:

| Theorem | Says |
|---|---|
| `TypeCorrect` | `TypeOK`, with the capacity of the outboxes (types of all modules are left to the proofs) |
| `ChannelsOpenWhileUsed`, `TasksNeverLost`, `SessionsLeaveNothing`, `WakeupsNeverLost`, `InputReachesOwner`, `ShutdownIsComplete` | the properties of `queue_safety` |
| `QueueImplementsLifecycle` | `Spec => Lifecycle!Spec`: every step is a step of `TaskLifecycle` or a stutter |
| `NewsComeBeforeOutput`, `PositionsOnlyShrink` | news before output of `queue_safety`, and positions never grow of `queue_order` |

For an interactive client or not, with a tunnel or not, and any number of messages under
way, from `ClientConstantsOK`:

| Theorem of `ClientProofs` | Says |
|---|---|
| `TypeCorrect` | `TypeOK`, with the capacity of the interval channel |
| `RequestIsFirst`, `OnlyOneChunkLate`, `NothingIsLeftOpen` | the safety properties of `client` |

For any number of connections and any limit, also a negative one, from `ServerConstantsOK`:

| Theorem of `ServerProofs` | Says |
|---|---|
| `CountIsExact`, `AdmissionIsBounded`, `NoWorkIsLeft` | the invariants of `server` |
| `TypeCorrect`, `NilIsAnswered` | `TypeOK`; `NilMeansAnswered`: if Shutdown returns nil every request was answered or its connection upgraded |
| `TasksAreEnded` | `ShutdownEndsTasks`, an action property |
| `ServerImplementsLifecycle` | every step is a step of `TaskLifecycle`, a stutter or `EndsUnderWorker` |

For any channel capacities and numbers of tokens, inputs and commands (`ExecutorProofs`,
`SessionProofs`), any size of the kernel's buffers and any number of bytes (`TokensProofs`),
every invariant of `run`, `session` and `tokens`, the two refinements of `run` and `tokens`, and the types:

| Module | Theorems |
|---|---|
| `ExecutorProofs` | `TypeCorrect`, `StreamsStayInOrder`, `OutputIsComplete`, `RunLeavesNothing`, `RunImplementsRunner` |
| `SessionProofs` | `TypeCorrect`, `SignalComesFirst`, `FinishedIsAlone`, `NoPingerIsLeft`, `OnlyKnownCircles` |
| `TokensProofs` | `TypeCorrect`, `FinishedNotHeld`, `EndLosesNothing`, `TerminalIsTrue` (the terminal shows what was written, up to `mark`), `TokensAreLines` (`Spec => Stream!Spec`) |

*The inductive invariant* `Inv` of `TaskQueueProofs` has five parts. `OnePlace`: a submitted
task is in exactly one place (in the queue once, with the Worker, or ended), and IDs tell
which were submitted. `Slot`: how the active slot, the Worker's variable and the program
counter agree; the slot may be empty while the Worker runs (after `Remove`), but never
holds another task. `Holders`: whoever holds the mutex does so on behalf of a session whose
task it found, and only one does. `NoOrphans` and `NoLostWakeup` are inductive with these.
None of the first three follows from the properties, and none of the properties is
inductive without them: `NothingLost`, for one, needs that `CloseMsgChan` closes the
channel of the task it ran and not of one that is in the queue as well.

*Positions.* `NewsInv` of `OutboxProofs` bounds the last position shown, the positions in a
channel and the position in the queue by each other: the channel's positions never rise
from front to back and never fall below the task's place in the queue, which only falls. So
the next one the client reads is at most the one before.

*Refinement* maps `line` to `queue`, `current` to the Worker's task while it runs or is about
to be closed, and `ended` to the closed channels. `Inv` is what makes `CloseMsgChan` a
`Finish` and every removal a `GiveUp`.

*The client.* `RequestInv` adds to `RequestFirst` why no other goroutine can write yet: no
news have been read, so the ping loop has neither a ticker nor an interval to make one of,
and the stdin loop has not started. `ChunkInv` adds to `OneChunkLate` that after the late
chunk stdin is cancelled and the loop is not in a read; its next check of the context ends it.

*The server.* `CountExact` speaks of a cardinality. `Number` is that of the connections whose
place is in a set; three lemmas say how one connection's move changes it, and each step of
a handler is then an instance of one. `AdmissionBound` is inductive with it. For
`ShutdownEndsTasks` the invariant says of every task that was enqueued that it waits, runs
or has ended, and of every Shutdown that got past `wg.Wait` that the Worker is gone, so that
`QueueShutdown` meets no task but those in the queue. `Slot` ties the active slot to the places
of the Worker between `Dequeue` and `CompleteActive`, and `Placed` says that the channel is closed
before the slot is given up; so a task is served, in the sense of the lifecycle, until its
channel is closed, although the Worker may wait for the mutex after that. For `ServerImplementsLifecycle` it also
needs `Fresh`: a connection that has not enqueued its task is unknown to the queue, the Worker
and the ended, so that no task comes twice; and that at most one task changes its place in a
step, except in `QueueShutdown`.

*A run.* `ReaderInv` relates, for each stream, how far its goroutine has read to what was
written, and `TokensInv` what was received and what is in the outbox to how far it has read:
the outbox holds the next tokens in order and without a gap. `ControlInv` ties the goroutines,
the process, the copier, the health goroutine and the holder of the mutex to the places of
`executeTask` and the router, and `ErrorInv` keeps the error messages of a failed start apart
from output. `RunLeavesNothing` covers the health goroutine, too: `Run` returns only when it has
gone or was never started. `RunImplementsRunner` needs these and `StdinInv`: only an interactive
run has a stdin, from before the process starts until `CompleteActive` at the latest, and that
one cannot take it away from a `FeedInput` in its write, which has the mutex. So the theorems
about `TaskQueue` assume nothing of the executor that `ExecutorProofs` does not prove of it.

*Tokens.* The invariant says that `buf`, then a pending carriage return or the delimiter, is
what was written between `mark` and `pos`. That a token is a line follows when it is sent,
and no later write can make it otherwise, because a carriage return is sent only when the
next byte, or the end, is known. `TokensAreLines` maps reads to stutters and `Send` to
`ShowLine`, `ShowRest` or `ShowCut`: by `OneLine` the token reaches from `mark` to `pos` with
no line end before its own, and by `Told`, which says byte by byte what the terminal shows,
nothing has been shown beyond `mark`.

*A session.* `CloseInv` says who is in `Close`, in `StopHealthCheck` and in `FeedInput` and who
holds the mutex, `EndingInv` that every way to the end begins with a reason, `PhaseInv` how
registration and the Worker's progress follow the handler, `HealthInv` what `healthCancel`,
`healthWg` and the place of the health goroutine tell of each other, and `WaitedInv` that, until
somebody closes the session, the goroutine is never counted without `healthCancel` set, so that
whoever stops it waits for it. `FinishedAlone` and `NoPingerLeft` need the last two.
`OnlyKnownCircles` is about sets of goroutines and not about the pairs of them: in a set in which each
awaits another, and without `SelfWait`, the health goroutine awaits nobody; a handler in the pipe
write awaits the Worker, and what that one can wait for then is the mutex or the room in the
outbox, which is `FeedCircle`; any other handler has nobody to wait for but the reader or whoever
holds the mutex; and the reader and the Worker wait for the handler only as long as the context
is not cancelled. `CancelInv` adds the last fact: who has been through the once, or waits for
the reader, finds the context cancelled.

Only model-checked: the liveness properties. They need the fairness of `Spec` and with it
`ENABLED`, which are outside this prover's reach. `NoCircularWait` is the part of them that
is an invariant.

## 5. Where the code and its documentation disagree

1. **A failed ping does not close the session** (`session_ping`). The health goroutine logs
   "failed to write ping, closing session" (`session.go:89`) and calls `Close`, which waits in
   `healthWg.Wait()` for the health goroutine itself. If the router's `Close` came first,
   that one waits for the health goroutine, which waits on the `sync.Once`. The context is
   not cancelled, the connection stays open, and when the run ends the Worker waits for the
   same goroutine with `qm.mu` held, which stops the whole server. Finding 1 is why `HandlerReturns`
   and `MutexReturned` have the exception `SelfWait`, `RunEnds` and `CancelEndsRun` the exception
   `StuckHealth`, and `ShutdownReturns` and `SlotsComeBack` the exception `hung`.
2. **FeedInput may never return** (`run_feed`). It writes to a pipe with `qm.mu` held. If the
   command cannot be started, the pipe has no reader and is never closed. Its client can go or
   close: the router is in that write and notices neither, and the Worker waits for the mutex.
   Finding 2 is why all the liveness properties of the server have the exception `StuckFeeder`.
3. **Shutdown outlives its deadline** (`server_shutdown`). The comment of `Shutdown` says it
   blocks "until shutdown is complete or the provided context is cancelled" (`server.go:96`).
   The context reaches the HTTP server only. `wg.Wait` waits for the Worker, and the call
   that cancels the running command, `queueMgr.Shutdown`, comes after it.
4. **A cancelled Execute may not return** (`client_cancel`). `readMessageLoop` looks at its
   context between messages only, and the server's pings put off the read deadline. It
   returns at the next message (`ExecuteEnds`).

Also noticed, without a run: input and output of one interactive command can wait for each
other, and `qm.mu` with them. The router is in `FeedInput` and waits for the copier, which
waits for the command to read; the command is blocked on its output, whose goroutine waits for
room in the outbox, which only that router drains. Only a signal from outside to the command
ends this: what would cancel it waits for the mutex or is done by that same router. `RunEnds` has the exception
`InputMeetsOutput`, and `NoCircularWait` the exception `FeedCircle`. No line of the repository
says otherwise, so it is not a finding. Further, a cancelled Worker can start another task, because `Dequeue`
looks at the queue first and `select` is not ordered (`queue.go` 117, 337-341; the comment at
315-317 says "until the context is cancelled"); `ShutdownReturns` says that it ends all the
same. An error of stdin does not end Execute, because the stdin loop cancels its own context
and not "the parent context" (`client.go` 176, 334-335). `log.Fatalf` after an error of
`ListenAndServe` abandons a running command (`serve.go` 45). `client.go` 192 says "pong is sent automatically", but a ping
handler set in gorilla/websocket replaces the one that sends it (the server's own handler,
`session.go` 47, writes the pong itself). `nonBlockingSend` drops the newer of two ping
intervals, and the server sends `task_started` and `queue_position` in a row. A lost
connection makes `Execute` return nil unless the error is an unexpected close, and `remserc`
then reports success. And `handler.go` 226-228 says the reader closes the inbox when the
client disconnects; it closes `readerDone` only, so `onInboxClosed` is never called and the
router learns of a disconnect by a failed write or ping. The client option
`WithPingInterval` sets a field that nothing reads.

## 6. Plan

Done: all parts of the server and the client that have state several actors share, and the
proofs of all their invariants, action properties and refinements.

The detailed modules are tied to the abstract ones where a mapping exists: `TaskQueue` and
`ServerLife` implement `TaskLifecycle`, `Executor` the runner of `TaskQueue`, `OutputTokens` the
`LineStream`. What is left is an argument of section 2 and not a checked refinement: that
`SessionLife` does what the router and session steps of `TaskQueue` and `ServerLife` say.
There is no step-by-step mapping, because a session cancels its task in the middle of
`Close`, and its handler goes on for several steps, where the other two have one step.

Not modelled:

- the configuration, the logger and the text helpers: files read at start-up, output, and
  string functions, without state that several actors share;
- flags, the merge of flags and configuration, URLs and options of the client: sequential
  computation of the values that are constants here;
- SSH authentication: it succeeds or fails within its library;
- JSON and the text of messages, except for the bytes of output in `OutputTokens`;
- the client ID that the handshake makes: IDs are taken to be different, as UUIDs are. Two
  clients of one name and with the same eight hexadecimal digits would share a session ID;
- clocks: that a time-out comes too early or too late for its purpose cannot be seen here.

## 7. Running

    tlc -config TaskQueueSafety.cfg MCTaskQueue.tla     # likewise the other runs
    tlapm TaskQueueProofs.tla                           # likewise the other *Proofs modules

The longest runs, `run`, `session`, `server`, `client`, `queue_order` and `queue_live`, take between
one and a half and three minutes on two workers.

Every property has a mutant: an operator marked "Mutant", placed before the definition it
replaces, that breaks the code the way a plausible bug would. With it TLC finds the
property violated. `PROJECT.json` lists runs, mutants, theorems and, for every definition,
the lines of the source it models.
