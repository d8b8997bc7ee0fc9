------------------------------ MODULE TaskQueue ------------------------------
(***************************************************************************)
(* The queue manager of internal/server/queue: the FIFO of waiting tasks,  *)
(* the single worker that runs them, the sessions that own them and the    *)
(* messages they are sent.                                                 *)
(*                                                                         *)
(* Every method of QueueManager runs under qm.mu, so a method is one       *)
(* action, except the two that other goroutines can observe half-way:      *)
(* FeedInput, which holds the mutex during a blocking pipe write, and      *)
(* UnregisterSession, which cancels and closes tasks one by one.           *)
(*                                                                         *)
(* The runner (TaskRunner), the router that drains a task's outbox and the *)
(* session that cancels a task's context are the environment: they may do  *)
(* what their interface allows, at any time.                               *)
(***************************************************************************)
EXTENDS Naturals, Sequences, SequencesExt

CONSTANTS
  Tasks,        \* the tasks clients submit, one *Task value each
  Sessions,     \* the client sessions
  Owner,        \* Task.SessionID
  Interactive,  \* the tasks with Task.Interactive set
  OutboxSize,   \* capacity of Task.MsgChan
  NoTask,       \* a nil *Task
  NoSession     \* no session

ASSUME ConstantsOK ==
  /\ Owner \in [Tasks -> Sessions]
  /\ Interactive \subseteq Tasks
  /\ OutboxSize \in Nat \ {0}
  /\ NoTask \notin Tasks
  /\ NoSession \notin Sessions

VARIABLES
  queue,        \* qm.queue
  activeTask,   \* qm.activeTask
  session,      \* whether a session is in qm.sessions, not yet, or no longer
  notify,       \* qm.notify, a channel of capacity one
  feeding,      \* the session whose FeedInput holds qm.mu, or NoSession
  leaving,      \* the session whose UnregisterSession holds qm.mu, or NoSession
  lastID,       \* the last task ID generated; UUIDv7s are ordered in time
  id,           \* Task.ID, 0 before Enqueue
  msgChan,      \* the messages in Task.MsgChan
  closed,       \* whether Task.MsgChan has been closed
  cancelled,    \* whether Task.Ctx has been cancelled
  stdin,        \* Task.StdInWriter: nil, an open pipe or a closed one
  pc,           \* where the Worker is
  task,         \* the Worker's local variable task
  ctxDone,      \* whether the Worker's context has been cancelled
  down,         \* whether Shutdown has run
  seen          \* the last queue position the task's client was told, or 0

qmVars   == <<queue, activeTask, session, notify, feeding, leaving>>
taskVars == <<lastID, id, msgChan, closed, cancelled, stdin>>
envVars  == <<pc, task, ctxDone, down, seen>>
vars     == <<qmVars, taskVars, envVars>>

-----------------------------------------------------------------------------
(* Messages, and what a non-blocking send leaves in the channels. *)

Position(i) == [event |-> "queue_position", pos |-> i]
TaskStarted == [event |-> "task_started",   pos |-> 0]
Output      == [event |-> "output",         pos |-> 0]
Message     == [event : {"queue_position", "task_started", "output"}, pos : Nat]

\* The select with a default: the message is dropped when the channel is full.
\* safeSend recovers from a send on a closed channel; the sends that do not
\* recover never meet one (OpenWhileUsed).
Offer(t, c, m) == IF ~closed[t] /\ Len(c) < OutboxSize THEN Append(c, m) ELSE c

PositionOf(q, t) == CHOOSE i \in DOMAIN q : q[i] = t

notifyPosition(q, ch) ==
  [t \in Tasks |-> IF t \in ToSet(q)
                   THEN Offer(t, ch[t], Position(PositionOf(q, t)))
                   ELSE ch[t]]

notifyTaskStarted(q, ch) ==
  [t \in Tasks |-> IF t \in ToSet(q) THEN Offer(t, ch[t], TaskStarted) ELSE ch[t]]

\* qm.mu is free.
Unlocked == feeding = NoSession /\ leaving = NoSession

Waiting(t) == t \in ToSet(queue)
Running(t) == pc \in {"run", "close"} /\ task = t
Submitted(t) == id[t] # 0

-----------------------------------------------------------------------------
Init ==
  /\ queue = <<>>
  /\ activeTask = NoTask
  /\ session = [s \in Sessions |-> "new"]
  /\ notify = FALSE
  /\ feeding = NoSession
  /\ leaving = NoSession
  /\ lastID = 0
  /\ id = [t \in Tasks |-> 0]
  /\ msgChan = [t \in Tasks |-> <<>>]
  /\ closed = [t \in Tasks |-> FALSE]
  /\ cancelled = [t \in Tasks |-> FALSE]
  /\ stdin = [t \in Tasks |-> "nil"]
  /\ pc = "dequeue"
  /\ task = NoTask
  /\ ctxDone = FALSE
  /\ down = FALSE
  /\ seen = [t \in Tasks |-> 0]

-----------------------------------------------------------------------------
(* The operations of connection handlers. *)

RegisterSession(s) ==
  /\ Unlocked
  /\ session[s] = "new"
  /\ session' = [session EXCEPT ![s] = "registered"]
  /\ UNCHANGED <<queue, activeTask, notify, feeding, leaving, taskVars, envVars>>

\* Mutant: notify has no buffer, so that the non-blocking send only reaches a
\* Worker that already receives.
EnqueueUnbuffered(t) ==
  /\ Unlocked
  /\ ~Submitted(t)
  /\ session[Owner[t]] = "registered"
  /\ lastID' = lastID + 1
  /\ id' = [id EXCEPT ![t] = lastID']
  /\ queue' = Append(queue, t)
  /\ msgChan' = notifyPosition(queue', msgChan)
  /\ \E receiving \in BOOLEAN : notify' = (notify \/ (receiving /\ pc = "wait"))
  /\ UNCHANGED <<activeTask, session, feeding, leaving, closed, cancelled, stdin, envVars>>

\* Mutant: a new task goes to the front.
EnqueueFirst(t) ==
  /\ Unlocked
  /\ ~Submitted(t)
  /\ session[Owner[t]] = "registered"
  /\ lastID' = lastID + 1
  /\ id' = [id EXCEPT ![t] = lastID']
  /\ queue' = <<t>> \o queue
  /\ msgChan' = notifyPosition(queue', msgChan)
  /\ notify' = TRUE
  /\ UNCHANGED <<activeTask, session, feeding, leaving, closed, cancelled, stdin, envVars>>

\* A handler enqueues its task between registering and unregistering.
Enqueue(t) ==
  /\ Unlocked
  /\ ~Submitted(t)
  /\ session[Owner[t]] = "registered"
  /\ lastID' = lastID + 1
  /\ id' = [id EXCEPT ![t] = lastID']
  /\ queue' = Append(queue, t)
  /\ msgChan' = notifyPosition(queue', msgChan)
  /\ notify' = TRUE
  /\ UNCHANGED <<activeTask, session, feeding, leaving, closed, cancelled, stdin, envVars>>

\* Mutant: the tasks behind the removed one are forgotten.
DropQueuedTail(i) ==
  /\ queue' = SubSeq(queue, 1, i - 1)
  /\ cancelled' = [cancelled EXCEPT ![queue[i]] = TRUE]
  /\ closed' = [closed EXCEPT ![queue[i]] = TRUE]

\* cancelAndCloseTask on the i-th waiting task, which leaves the queue.
DropQueued(i) ==
  /\ queue' = RemoveAt(queue, i)
  /\ cancelled' = [cancelled EXCEPT ![queue[i]] = TRUE]
  /\ closed' = [closed EXCEPT ![queue[i]] = TRUE]

\* Mutant: the task leaves the active slot without being cancelled.
RemoveActiveOnly(t) ==
  /\ Unlocked
  /\ activeTask = t
  /\ activeTask' = NoTask
  /\ UNCHANGED <<queue, session, notify, feeding, leaving, taskVars, envVars>>

RemoveActive(t) ==
  /\ Unlocked
  /\ activeTask = t
  /\ cancelled' = [cancelled EXCEPT ![t] = TRUE]
  /\ activeTask' = NoTask
  /\ UNCHANGED <<queue, session, notify, feeding, leaving,
                 lastID, id, msgChan, closed, stdin, envVars>>

RemoveQueued(i) ==
  /\ Unlocked
  /\ DropQueued(i)
  /\ msgChan' = notifyPosition(queue', msgChan)
  /\ UNCHANGED <<activeTask, session, notify, feeding, leaving, lastID, id, stdin, envVars>>

\* UnregisterSession takes the mutex and forgets the session ...
UnregisterBegin(s) ==
  /\ Unlocked
  /\ session[s] = "registered"
  /\ session' = [session EXCEPT ![s] = "gone"]
  /\ leaving' = s
  /\ UNCHANGED <<queue, activeTask, notify, feeding, taskVars, envVars>>

OwnedBy(s, i) == Owner[queue[i]] = s

\* ... drops its waiting tasks, first to last ...
UnregisterDrop(i) ==
  /\ leaving # NoSession
  /\ OwnedBy(leaving, i)
  /\ \A j \in 1..(i - 1) : ~OwnedBy(leaving, j)
  /\ DropQueued(i)
  /\ UNCHANGED <<activeTask, session, notify, feeding, leaving,
                 lastID, id, msgChan, stdin, envVars>>

\* Mutant: the active task is treated like a waiting one.
UnregisterEndClosing ==
  /\ leaving # NoSession
  /\ \A i \in DOMAIN queue : ~OwnedBy(leaving, i)
  /\ cancelled' = [t \in Tasks |-> cancelled[t] \/ (t = activeTask /\ Owner[t] = leaving)]
  /\ closed' = [t \in Tasks |-> closed[t] \/ (t = activeTask /\ Owner[t] = leaving)]
  /\ msgChan' = notifyPosition(queue, msgChan)
  /\ leaving' = NoSession
  /\ UNCHANGED <<queue, activeTask, session, notify, feeding, lastID, id, stdin, envVars>>

\* ... cancels its active task, tells the others and releases the mutex.
UnregisterEnd ==
  /\ leaving # NoSession
  /\ \A i \in DOMAIN queue : ~OwnedBy(leaving, i)
  /\ cancelled' = [t \in Tasks |-> cancelled[t] \/ (t = activeTask /\ Owner[t] = leaving)]
  /\ msgChan' = notifyPosition(queue, msgChan)
  /\ leaving' = NoSession
  /\ UNCHANGED <<queue, activeTask, session, notify, feeding,
                 lastID, id, closed, stdin, envVars>>

\* FeedInput finds the writer of the caller's active task and starts to write,
\* with the mutex held. In every other case it returns an error at once.
FeedInput(s) ==
  /\ Unlocked
  /\ session[s] = "registered"
  /\ activeTask # NoTask
  /\ Owner[activeTask] = s
  /\ stdin[activeTask] = "open"
  /\ feeding' = s
  /\ UNCHANGED <<queue, activeTask, session, notify, leaving, taskVars, envVars>>

\* The command takes the bytes, or the write fails because the pipe was closed.
FeedTaken ==
  /\ feeding # NoSession
  /\ stdin[activeTask] = "open"
  /\ pc = "run"
  /\ feeding' = NoSession
  /\ UNCHANGED <<queue, activeTask, session, notify, leaving, taskVars, envVars>>

FeedFails ==
  /\ feeding # NoSession
  /\ stdin[activeTask] = "closed"
  /\ feeding' = NoSession
  /\ UNCHANGED <<queue, activeTask, session, notify, leaving, taskVars, envVars>>

\* Mutant: the pinger also tells the active task a position.
keepAlivePingerAll ==
  /\ Unlocked
  /\ queue # <<>>
  /\ msgChan' = notifyPosition(IF activeTask = NoTask THEN queue ELSE <<activeTask>> \o queue,
                               msgChan)
  /\ UNCHANGED <<qmVars, lastID, id, closed, cancelled, stdin, envVars>>

\* Mutant: the pinger only works while no task is active.
keepAlivePingerIdle ==
  /\ Unlocked
  /\ queue # <<>>
  /\ activeTask = NoTask
  /\ msgChan' = notifyPosition(queue, msgChan)
  /\ UNCHANGED <<qmVars, lastID, id, closed, cancelled, stdin, envVars>>

keepAlivePinger ==
  /\ Unlocked
  /\ queue # <<>>
  /\ msgChan' = notifyPosition(queue, msgChan)
  /\ UNCHANGED <<qmVars, lastID, id, closed, cancelled, stdin, envVars>>

-----------------------------------------------------------------------------
(* The Worker. *)

Dequeue ==
  /\ pc = "dequeue"
  /\ Unlocked
  /\ queue # <<>>
  /\ task' = Head(queue)
  /\ activeTask' = Head(queue)
  /\ queue' = Tail(queue)
  /\ msgChan' = notifyPosition(queue', notifyTaskStarted(queue', msgChan))
  /\ pc' = "run"
  /\ UNCHANGED <<session, notify, feeding, leaving,
                 lastID, id, closed, cancelled, stdin, ctxDone, down, seen>>

DequeueEmpty ==
  /\ pc = "dequeue"
  /\ Unlocked
  /\ queue = <<>>
  /\ pc' = "wait"
  /\ UNCHANGED <<qmVars, taskVars, task, ctxDone, down, seen>>

DequeueWake ==
  /\ pc = "wait"
  /\ notify
  /\ notify' = FALSE
  /\ pc' = "dequeue"
  /\ UNCHANGED <<queue, activeTask, session, feeding, leaving, taskVars,
                 task, ctxDone, down, seen>>

\* The context ends the wait for a task, or the delay between two tasks.
WorkerExit ==
  /\ pc \in {"wait", "delay"}
  /\ ctxDone
  /\ pc' = "exited"
  /\ UNCHANGED <<qmVars, taskVars, task, ctxDone, down, seen>>

\* Mutant: the channel of the active task is closed, not that of the Worker's.
CloseActiveMsgChan ==
  /\ pc = "close"
  /\ closed' = [t \in Tasks |-> closed[t] \/ t = activeTask]
  /\ pc' = "complete"
  /\ UNCHANGED <<qmVars, lastID, id, msgChan, cancelled, stdin, task, ctxDone, down, seen>>

CloseMsgChan ==
  /\ pc = "close"
  /\ closed' = [closed EXCEPT ![task] = TRUE]
  /\ pc' = "complete"
  /\ UNCHANGED <<qmVars, lastID, id, msgChan, cancelled, stdin, task, ctxDone, down, seen>>

\* Mutant: without the mutex.
CompleteActiveUnlocked ==
  /\ pc = "complete"
  /\ stdin' = [t \in Tasks |-> IF t = activeTask THEN "nil" ELSE stdin[t]]
  /\ activeTask' = NoTask
  /\ pc' = "delay"
  /\ UNCHANGED <<queue, session, notify, feeding, leaving,
                 lastID, id, msgChan, closed, cancelled, task, ctxDone, down, seen>>

CompleteActive ==
  /\ pc = "complete"
  /\ Unlocked
  /\ stdin' = [t \in Tasks |-> IF t = activeTask THEN "nil" ELSE stdin[t]]
  /\ activeTask' = NoTask
  /\ pc' = "delay"
  /\ UNCHANGED <<queue, session, notify, feeding, leaving,
                 lastID, id, msgChan, closed, cancelled, task, ctxDone, down, seen>>

\* Mutant: the Worker waits for news before it looks at the queue.
DelayOverThenWait ==
  /\ pc = "delay"
  /\ pc' = "wait"
  /\ UNCHANGED <<qmVars, taskVars, task, ctxDone, down, seen>>

DelayOver ==
  /\ pc = "delay"
  /\ pc' = "dequeue"
  /\ UNCHANGED <<qmVars, taskVars, task, ctxDone, down, seen>>

-----------------------------------------------------------------------------
(* The runner, as far as the TaskRunner interface says. *)

\* The runner gives an interactive task its stdin pipe by assigning the field.
RunSetStdin ==
  /\ pc = "run"
  /\ task \in Interactive
  /\ stdin[task] = "nil"
  /\ stdin' = [stdin EXCEPT ![task] = "open"]
  /\ UNCHANGED <<qmVars, lastID, id, msgChan, closed, cancelled, envVars>>

\* Or by SetActiveStdin, which panics when there is no active task any more;
\* runTaskSafe recovers.
SetActiveStdin ==
  /\ pc = "run"
  /\ task \in Interactive
  /\ stdin[task] = "nil"
  /\ Unlocked
  /\ IF activeTask = NoTask
     THEN pc' = "close" /\ UNCHANGED stdin
     ELSE stdin' = [stdin EXCEPT ![activeTask] = "open"] /\ UNCHANGED pc
  /\ UNCHANGED <<qmVars, lastID, id, msgChan, closed, cancelled, task, ctxDone, down, seen>>

RunCloseStdin ==
  /\ pc = "run"
  /\ stdin[task] = "open"
  /\ stdin' = [stdin EXCEPT ![task] = "closed"]
  /\ UNCHANGED <<qmVars, lastID, id, msgChan, closed, cancelled, envVars>>

\* Output blocks while the channel is full.
RunOutput ==
  /\ pc = "run"
  /\ Len(msgChan[task]) < OutboxSize
  /\ msgChan' = [msgChan EXCEPT ![task] = Append(@, Output)]
  /\ UNCHANGED <<qmVars, lastID, id, closed, cancelled, stdin, envVars>>

\* Run returns, or panics and runTaskSafe recovers.
RunReturn ==
  /\ pc = "run"
  /\ pc' = "close"
  /\ UNCHANGED <<qmVars, taskVars, task, ctxDone, down, seen>>

-----------------------------------------------------------------------------
(* The task's router and session, and the server. *)

RouterReceive(t) ==
  /\ msgChan[t] # <<>>
  /\ msgChan' = [msgChan EXCEPT ![t] = Tail(@)]
  /\ seen' = [seen EXCEPT ![t] = IF Head(msgChan[t]).event = "queue_position"
                                 THEN Head(msgChan[t]).pos ELSE @]
  /\ UNCHANGED <<qmVars, lastID, id, closed, cancelled, stdin, pc, task, ctxDone, down>>

SessionCancel(t) ==
  /\ Submitted(t)
  /\ cancelled' = [cancelled EXCEPT ![t] = TRUE]
  /\ UNCHANGED <<qmVars, lastID, id, msgChan, closed, stdin, envVars>>

ServerCancel ==
  /\ ~ctxDone
  /\ ctxDone' = TRUE
  /\ UNCHANGED <<qmVars, taskVars, pc, task, down, seen>>

\* Mutant: without waiting for the Worker.
ShutdownEarly ==
  /\ Unlocked
  /\ ctxDone
  /\ ~down
  /\ down' = TRUE
  /\ cancelled' = [t \in Tasks |-> cancelled[t] \/ t = activeTask \/ Waiting(t)]
  /\ closed' = [t \in Tasks |-> closed[t] \/ Waiting(t)]
  /\ queue' = <<>>
  /\ UNCHANGED <<activeTask, session, notify, feeding, leaving,
                 lastID, id, msgChan, stdin, pc, task, ctxDone, seen>>

\* Server.Shutdown waits for the Worker to exit before it calls this.
Shutdown ==
  /\ Unlocked
  /\ pc = "exited"
  /\ ~down
  /\ down' = TRUE
  /\ cancelled' = [t \in Tasks |-> cancelled[t] \/ t = activeTask \/ Waiting(t)]
  /\ closed' = [t \in Tasks |-> closed[t] \/ Waiting(t)]
  /\ queue' = <<>>
  /\ UNCHANGED <<activeTask, session, notify, feeding, leaving,
                 lastID, id, msgChan, stdin, pc, task, ctxDone, seen>>

-----------------------------------------------------------------------------
Handler ==
  \/ \E s \in Sessions : RegisterSession(s) \/ UnregisterBegin(s) \/ FeedInput(s)
  \/ \E t \in Tasks : Enqueue(t) \/ RemoveActive(t)
  \/ \E i \in DOMAIN queue : RemoveQueued(i) \/ UnregisterDrop(i)
  \/ UnregisterEnd
  \/ FeedTaken
  \/ FeedFails

Worker ==
  Dequeue \/ DequeueEmpty \/ DequeueWake \/ WorkerExit
  \/ CloseMsgChan \/ CompleteActive \/ DelayOver

Runner == RunSetStdin \/ SetActiveStdin \/ RunCloseStdin \/ RunOutput \/ RunReturn

Environment ==
  \/ \E t \in Tasks : RouterReceive(t) \/ SessionCancel(t)
  \/ ServerCancel
  \/ Shutdown

Next == Handler \/ keepAlivePinger \/ Worker \/ Runner \/ Environment

Spec == Init /\ [][Next]_vars

-----------------------------------------------------------------------------
(* Fairness. Every goroutine that can go on does, and the pinger ticks     *)
(* forever. One that waits for qm.mu gets it although others keep taking   *)
(* it: a Go mutex in starvation mode is handed over first come, first      *)
(* served. Nothing makes a command end or read its input: RunReturn and    *)
(* FeedTaken are not fair.                                                 *)

WorkerFairness ==
  /\ SF_vars(Dequeue) /\ SF_vars(DequeueEmpty) /\ SF_vars(CompleteActive)
  /\ WF_vars(DequeueWake) /\ WF_vars(CloseMsgChan) /\ WF_vars(DelayOver)

HandlerFairness ==
  /\ WF_vars(FeedFails)
  /\ WF_vars(\E i \in DOMAIN queue : UnregisterDrop(i))
  /\ WF_vars(UnregisterEnd)

\* A router that has not been cancelled drains its outbox.
RouterFairness == \A t \in Tasks : WF_vars(~cancelled[t] /\ RouterReceive(t))

FairSpec ==
  /\ Spec
  /\ WorkerFairness
  /\ HandlerFairness
  /\ RouterFairness
  /\ SF_vars(keepAlivePinger)

-----------------------------------------------------------------------------
(* Properties. *)

\* The type invariant; no outbox is ever over its capacity.
TypeOK ==
  /\ queue \in Seq(Tasks)
  /\ activeTask \in Tasks \cup {NoTask}
  /\ session \in [Sessions -> {"new", "registered", "gone"}]
  /\ notify \in BOOLEAN
  /\ feeding \in Sessions \cup {NoSession}
  /\ leaving \in Sessions \cup {NoSession}
  /\ lastID \in Nat
  /\ id \in [Tasks -> Nat]
  /\ msgChan \in [Tasks -> Seq(Message)]
  /\ \A t \in Tasks : Len(msgChan[t]) <= OutboxSize
  /\ closed \in [Tasks -> BOOLEAN]
  /\ cancelled \in [Tasks -> BOOLEAN]
  /\ stdin \in [Tasks -> {"nil", "open", "closed"}]
  /\ pc \in {"dequeue", "wait", "run", "close", "complete", "delay", "exited"}
  /\ task \in Tasks \cup {NoTask}
  /\ ctxDone \in BOOLEAN
  /\ down \in BOOLEAN
  /\ seen \in [Tasks -> Nat]

\* A channel that somebody may still send to is open: that of a waiting task
\* (notifyTaskStartedLocked sends without recovering) and that of the task the
\* runner has (the output goroutines send without recovering). A send on a
\* closed channel there would end the whole server.
OpenWhileUsed == \A t \in Tasks : Waiting(t) \/ Running(t) => ~closed[t]

\* A task that was enqueued is waiting, or the Worker has it, or its channel was
\* closed, which is what makes its router say task_finished: no client is left
\* waiting for a task that nobody will run or end.
NothingLost == \A t \in Tasks : Submitted(t) => Waiting(t) \/ Running(t) \/ closed[t]

\* Once UnregisterSession has returned, nothing of the session goes on: none of
\* its tasks waits, and the one that runs has been cancelled. This also holds of
\* a task that Remove took out of the active slot while it ran.
NoOrphans ==
  \A t \in Tasks : session[Owner[t]] = "gone" /\ leaving # Owner[t] =>
                     /\ ~Waiting(t)
                     /\ Running(t) => cancelled[t]

\* Dequeue looks at the queue and waits on notify in two steps; a task that is
\* enqueued between them still wakes the Worker.
NoLostWakeup == pc = "wait" /\ queue # <<>> => notify

\* FeedInput checked the owner before the write; while the write is in progress
\* the active task is still that one, whatever the Worker, Remove or the command
\* have done meanwhile: no session's input reaches the task of another one.
InputOnlyToOwner ==
  feeding # NoSession =>
    /\ activeTask # NoTask
    /\ Owner[activeTask] = feeding
    /\ stdin[activeTask] # "nil"

\* In a task's channel all news of the queue come before its first output: a
\* client that sees output is never told afterwards that it waits.
QueueNewsBeforeOutput ==
  \A t \in Tasks : \A i, j \in DOMAIN msgChan[t] :
    i < j /\ msgChan[t][i] = Output => msgChan[t][j] = Output

\* The position a client is told never grows: others are only ever queued behind
\* it, and position messages are neither overtaken nor repeated late.
PositionsNeverGrow == [][\A t \in Tasks : seen[t] # 0 => seen'[t] <= seen[t]]_vars

\* When Shutdown has run, after the Worker has exited, every task that was ever enqueued
\* has ended: none is still with the Worker, none is left in the queue. (A Shutdown of the
\* server that found s.srv nil and no Worker to wait for is in ServerLife only.)
ShutdownDrains == [][down' /\ ~down => \A t \in Tasks : Submitted(t) => closed'[t]]_vars

\* FeedInput holds qm.mu in a write that nobody will ever read: the run is over
\* and the pipe was left open.
StuckFeeder == feeding # NoSession /\ stdin[activeTask] = "open" /\ pc # "run"

\* If Run returns, every task ends, unless the server is cancelled or a FeedInput is
\* stuck with the mutex. That Run returns is more than that commands end: what else may
\* keep it is in Executor (RunEnds) and SessionLife (NoCircularWait).
EveryTaskEnds ==
  WF_vars(RunReturn) =>
    \A t \in Tasks : Submitted(t) ~> closed[t] \/ ctxDone \/ StuckFeeder

\* A position message that was dropped because the outbox was full is made up
\* for by the pinger: as long as FeedInput does not keep the mutex for good, the
\* client of a waiting task learns its true position even when nothing moves.
PositionEventuallyShown ==
  []<>Unlocked =>
    \A t \in Tasks : Waiting(t) ~> \/ ~Waiting(t)
                                   \/ cancelled[t]
                                   \/ seen[t] = PositionOf(queue, t)

-----------------------------------------------------------------------------
(* What the queue promises: TaskLifecycle. *)

Lifecycle == INSTANCE TaskLifecycle WITH
  line    <- queue,
  current <- IF pc \in {"run", "close"} THEN task ELSE NoTask,
  ended   <- {t \in Tasks : closed[t]}

\* The queue implements TaskLifecycle: tasks start in the order in which they
\* were enqueued, one at a time, each at most once, and leave the queue or end
\* in no other way.
ImplementsLifecycle == Lifecycle!Spec

=============================================================================
