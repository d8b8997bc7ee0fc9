--------------------------- MODULE TaskQueueProofs ---------------------------
(***************************************************************************)
(* Theorems about TaskQueue, for any number of tasks and sessions and any  *)
(* outbox size.                                                            *)
(***************************************************************************)
EXTENDS TaskQueue, QueueLemmas

Outboxes == {ch \in [Tasks -> Seq(Message)] : \A t \in Tasks : Len(ch[t]) <= OutboxSize}

-----------------------------------------------------------------------------
(* Non-blocking sends. *)

LEMMA OfferIs ==
  ASSUME ConstantsOK, NEW t \in Tasks, NEW c \in Seq(Message), NEW m \in Message,
         Len(c) <= OutboxSize
  PROVE  /\ Offer(t, c, m) \in Seq(Message)
         /\ Len(Offer(t, c, m)) <= OutboxSize
         /\ Offer(t, c, m) \in {c, Append(c, m)}
<1>1. /\ Append(c, m) \in Seq(Message)
      /\ Len(Append(c, m)) = Len(c) + 1
      /\ Len(c) \in Nat
      /\ OutboxSize \in Nat
  BY AppendIs DEF ConstantsOK
<1>2. QED
  BY <1>1 DEF Offer

LEMMA PositionOfIs ==
  ASSUME NEW q \in Seq(Tasks), NEW t \in ToSet(q)
  PROVE  PositionOf(q, t) \in DOMAIN q /\ q[PositionOf(q, t)] = t
BY DEF ToSet, PositionOf

\* A task is told its position, or its channel is full or closed.
LEMMA NotifyPositionIs ==
  ASSUME ConstantsOK, NEW q \in Seq(Tasks), NEW ch \in Outboxes
  PROVE  /\ notifyPosition(q, ch) \in Outboxes
         /\ \A t \in Tasks :
              \/ notifyPosition(q, ch)[t] = ch[t]
              \/ \E i \in DOMAIN q : /\ q[i] = t
                                     /\ notifyPosition(q, ch)[t] = Append(ch[t], Position(i))
<1> DEFINE new(t) == IF t \in ToSet(q)
                     THEN Offer(t, ch[t], Position(PositionOf(q, t)))
                     ELSE ch[t]
<1>1. ASSUME NEW t \in Tasks
      PROVE  /\ new(t) \in Seq(Message) /\ Len(new(t)) <= OutboxSize
             /\ \/ new(t) = ch[t]
                \/ \E i \in DOMAIN q : q[i] = t /\ new(t) = Append(ch[t], Position(i))
  <2>1. ch[t] \in Seq(Message) /\ Len(ch[t]) <= OutboxSize
    BY DEF Outboxes
  <2>2. CASE t \in ToSet(q)
    <3> DEFINE i == PositionOf(q, t)
    <3>1. i \in DOMAIN q /\ q[i] = t
      BY <2>2, PositionOfIs
    <3>2. Position(i) \in Message
      BY <3>1 DEF Position, Message
    <3>3. QED
      BY <2>1, <2>2, <3>1, <3>2, OfferIs
  <2>3. CASE t \notin ToSet(q)
    BY <2>1, <2>3
  <2>4. QED
    BY <2>2, <2>3
<1>2. notifyPosition(q, ch) = [t \in Tasks |-> new(t)]
  BY DEF notifyPosition
<1> HIDE DEF new
<1>3. QED
  BY <1>1, <1>2 DEF Outboxes

\* A waiting task is told that another one started, or its channel is full or closed.
LEMMA NotifyTaskStartedIs ==
  ASSUME ConstantsOK, NEW q \in Seq(Tasks), NEW ch \in Outboxes
  PROVE  /\ notifyTaskStarted(q, ch) \in Outboxes
         /\ \A t \in Tasks :
              \/ notifyTaskStarted(q, ch)[t] = ch[t]
              \/ /\ t \in ToSet(q)
                 /\ notifyTaskStarted(q, ch)[t] = Append(ch[t], TaskStarted)
<1> DEFINE new(t) == IF t \in ToSet(q) THEN Offer(t, ch[t], TaskStarted) ELSE ch[t]
<1>1. ASSUME NEW t \in Tasks
      PROVE  /\ new(t) \in Seq(Message) /\ Len(new(t)) <= OutboxSize
             /\ \/ new(t) = ch[t]
                \/ t \in ToSet(q) /\ new(t) = Append(ch[t], TaskStarted)
  <2>1. ch[t] \in Seq(Message) /\ Len(ch[t]) <= OutboxSize
    BY DEF Outboxes
  <2>2. TaskStarted \in Message
    BY DEF TaskStarted, Message
  <2>3. QED
    BY <2>1, <2>2, OfferIs
<1>2. notifyTaskStarted(q, ch) = [t \in Tasks |-> new(t)]
  BY DEF notifyTaskStarted
<1> HIDE DEF new
<1>3. QED
  BY <1>1, <1>2 DEF Outboxes

-----------------------------------------------------------------------------
(* The type invariant. *)

LEMMA DropQueuedType ==
  ASSUME TypeOK, NEW i \in DOMAIN queue, DropQueued(i)
  PROVE  /\ queue' \in Seq(Tasks)
         /\ cancelled' \in [Tasks -> BOOLEAN]
         /\ closed' \in [Tasks -> BOOLEAN]
<1>1. queue' \in Seq(Tasks)
  BY RemoveAtIs DEF TypeOK, DropQueued
<1>2. QED
  BY <1>1 DEF TypeOK, DropQueued

LEMMA NotifyType ==
  ASSUME ConstantsOK, TypeOK, NEW q \in Seq(Tasks), msgChan' = notifyPosition(q, msgChan)
  PROVE  msgChan' \in Outboxes
BY NotifyPositionIs DEF TypeOK, Outboxes

LEMMA InitType == Init /\ ConstantsOK => TypeOK
<1>1. <<>> \in Seq(Tasks) /\ <<>> \in Seq(Message) /\ Len(<<>>) = 0
  BY EmptySeq
<1> SUFFICES ASSUME Init, ConstantsOK PROVE TypeOK
  OBVIOUS
<1>2. \A t \in Tasks : Len(msgChan[t]) <= OutboxSize
  BY <1>1 DEF Init, ConstantsOK
<1>3. /\ msgChan \in [Tasks -> Seq(Message)]
      /\ queue \in Seq(Tasks)
  BY <1>1 DEF Init
<1>4. QED
  BY <1>2, <1>3 DEF Init, TypeOK

LEMMA StepType ==
  ASSUME ConstantsOK, TypeOK, [Next]_vars
  PROVE  TypeOK'
<1> USE DEF qmVars, taskVars, envVars
<1>1. ASSUME NEW s \in Sessions, RegisterSession(s) PROVE TypeOK'
  BY <1>1 DEF TypeOK, RegisterSession
<1>2. ASSUME NEW t \in Tasks, Enqueue(t) PROVE TypeOK'
  <2>1. queue' \in Seq(Tasks)
    BY <1>2 DEF TypeOK, Enqueue
  <2>2. msgChan' \in Outboxes
    BY <1>2, <2>1, NotifyType DEF Enqueue
  <2>3. lastID' \in Nat /\ id' \in [Tasks -> Nat] /\ notify' \in BOOLEAN
    BY <1>2 DEF TypeOK, Enqueue
  <2>4. QED
    BY <1>2, <2>1, <2>2, <2>3 DEF TypeOK, Enqueue, Outboxes
<1>3. ASSUME NEW t \in Tasks, RemoveActive(t) PROVE TypeOK'
  BY <1>3 DEF TypeOK, RemoveActive
<1>4. ASSUME NEW i \in DOMAIN queue, RemoveQueued(i) PROVE TypeOK'
  <2>1. DropQueued(i)
    BY <1>4 DEF RemoveQueued
  <2>2. msgChan' \in Outboxes
    BY <1>4, <2>1, DropQueuedType, NotifyType DEF RemoveQueued
  <2>3. QED
    BY <1>4, <2>1, <2>2, DropQueuedType DEF TypeOK, RemoveQueued, Outboxes
<1>5. ASSUME NEW s \in Sessions, UnregisterBegin(s) PROVE TypeOK'
  BY <1>5 DEF TypeOK, UnregisterBegin
<1>6. ASSUME NEW i \in DOMAIN queue, UnregisterDrop(i) PROVE TypeOK'
  BY <1>6, DropQueuedType DEF TypeOK, UnregisterDrop
<1>7. CASE UnregisterEnd
  <2>1. msgChan' \in Outboxes
    BY <1>7, NotifyType DEF UnregisterEnd, TypeOK
  <2>2. QED
    BY <1>7, <2>1 DEF TypeOK, UnregisterEnd, Outboxes
<1>8. ASSUME NEW s \in Sessions, FeedInput(s) PROVE TypeOK'
  BY <1>8 DEF TypeOK, FeedInput
<1>9. CASE FeedTaken \/ FeedFails
  BY <1>9 DEF TypeOK, FeedTaken, FeedFails
<1>10. CASE keepAlivePinger
  <2>1. msgChan' \in Outboxes
    BY <1>10, NotifyType DEF keepAlivePinger, TypeOK
  <2>2. QED
    BY <1>10, <2>1 DEF TypeOK, keepAlivePinger, Outboxes
<1>11. CASE Dequeue
  <2>1. Tail(queue) \in Seq(Tasks) /\ Head(queue) \in Tasks
    BY <1>11 DEF TypeOK, Dequeue
  <2>2. notifyTaskStarted(Tail(queue), msgChan) \in Outboxes
    BY <2>1, NotifyTaskStartedIs DEF TypeOK, Outboxes
  <2>3. msgChan' \in Outboxes
    BY <1>11, <2>1, <2>2, NotifyPositionIs DEF Dequeue
  <2>4. QED
    BY <1>11, <2>1, <2>3 DEF TypeOK, Dequeue, Outboxes
<1>12. CASE DequeueEmpty \/ DequeueWake \/ WorkerExit \/ DelayOver \/ RunReturn
  BY <1>12 DEF TypeOK, DequeueEmpty, DequeueWake, WorkerExit, DelayOver, RunReturn
<1>13. CASE CloseMsgChan
  BY <1>13 DEF TypeOK, CloseMsgChan
<1>14. CASE CompleteActive
  BY <1>14 DEF TypeOK, CompleteActive
<1>15. CASE RunSetStdin \/ SetActiveStdin \/ RunCloseStdin
  BY <1>15 DEF TypeOK, RunSetStdin, SetActiveStdin, RunCloseStdin
<1>16. CASE RunOutput
  <2>1. task \in Tasks => Append(msgChan[task], Output) \in Seq(Message)
    BY DEF TypeOK, Output, Message
  <2>2. task \in Tasks => Len(Append(msgChan[task], Output)) = Len(msgChan[task]) + 1
    BY AppendIs DEF TypeOK, Output, Message
  <2>3. msgChan' \in [Tasks -> Seq(Message)]
    BY <1>16, <2>1 DEF TypeOK, RunOutput
  <2>4. ASSUME NEW t \in Tasks PROVE Len(msgChan'[t]) <= OutboxSize
    <3>1. CASE t = task
      <4>1. msgChan'[t] = Append(msgChan[task], Output)
        BY <1>16, <3>1 DEF TypeOK, RunOutput
      <4>2. Len(msgChan[task]) < OutboxSize /\ Len(msgChan[task]) \in Nat /\ OutboxSize \in Nat
        BY <1>16, <3>1, LenProperties DEF TypeOK, RunOutput, ConstantsOK
      <4>3. QED
        BY <2>2, <3>1, <4>1, <4>2
    <3>2. CASE t # task
      BY <1>16, <3>2 DEF TypeOK, RunOutput
    <3>3. QED
      BY <3>1, <3>2
  <2>5. QED
    BY <1>16, <2>3, <2>4 DEF TypeOK, RunOutput
<1>17. ASSUME NEW t \in Tasks, RouterReceive(t) PROVE TypeOK'
  <2>1. /\ Head(msgChan[t]) \in Message
        /\ Tail(msgChan[t]) \in Seq(Message)
        /\ Len(Tail(msgChan[t])) = Len(msgChan[t]) - 1
        /\ Len(msgChan[t]) \in Nat
    BY <1>17, HeadTailProperties DEF TypeOK, RouterReceive
  <2>2. Head(msgChan[t]).pos \in Nat
    BY <2>1 DEF Message
  <2>3. QED
    BY <1>17, <2>1, <2>2 DEF TypeOK, RouterReceive, ConstantsOK
<1>18. ASSUME NEW t \in Tasks, SessionCancel(t) PROVE TypeOK'
  BY <1>18 DEF TypeOK, SessionCancel
<1>19. CASE Shutdown
  <2>1. cancelled' \in [Tasks -> BOOLEAN] /\ closed' \in [Tasks -> BOOLEAN]
    BY <1>19, Zenon DEF TypeOK, Shutdown
  <2>2. queue' \in Seq(Tasks)
    BY <1>19, EmptySeq DEF Shutdown
  <2>3. QED
    BY <1>19, <2>1, <2>2 DEF TypeOK, Shutdown
<1>20. CASE ServerCancel
  BY <1>20 DEF TypeOK, ServerCancel
<1>21. CASE UNCHANGED vars
  BY <1>21 DEF TypeOK, vars
<1>22. QED
  BY <1>1, <1>2, <1>3, <1>4, <1>5, <1>6, <1>7, <1>8, <1>9, <1>10, <1>11, <1>12, <1>13,
     <1>14, <1>15, <1>16, <1>17, <1>18, <1>19, <1>20, <1>21
  DEF Next, Handler, Worker, Runner, Environment

\* TaskQueue is well typed, and no outbox ever holds more than its capacity.
THEOREM TypeCorrect == Spec => []TypeOK
<1>1. Init => TypeOK
  BY InitType, ConstantsOK
<1>2. TypeOK /\ [Next]_vars => TypeOK'
  BY StepType, ConstantsOK
<1>3. QED
  BY <1>1, <1>2, PTL DEF Spec

-----------------------------------------------------------------------------
(* The inductive invariant behind the safety properties. *)

\* A task is in one place: in line, with the Worker or ended.
OnePlace ==
  /\ IsInjective(queue)
  /\ \A t \in Tasks : Waiting(t) => Submitted(t) /\ ~closed[t]
  /\ \A t \in Tasks : closed[t] => Submitted(t)
  /\ NothingLost
  /\ pc \in {"run", "close", "complete"} => task \in Tasks /\ Submitted(task) /\ ~Waiting(task)
  /\ pc \in {"run", "close"} => ~closed[task]

\* The active slot holds the Worker's task, or nothing once Remove cancelled it.
Slot ==
  /\ activeTask # NoTask => activeTask = task /\ pc \in {"run", "close", "complete"}
  /\ pc \in {"run", "close"} /\ activeTask = NoTask => cancelled[task]

\* Who holds the mutex for more than one step, and what is known of a session.
Holders ==
  /\ \A t \in Tasks : session[Owner[t]] = "new" => ~Submitted(t)
  /\ leaving # NoSession => session[leaving] = "gone"
  /\ feeding # NoSession => leaving = NoSession
  /\ InputOnlyToOwner

Inv == OnePlace /\ Slot /\ Holders /\ NoOrphans /\ NoLostWakeup

LEMMA InitInv == Init /\ ConstantsOK => Inv
<1> SUFFICES ASSUME Init, ConstantsOK PROVE Inv
  OBVIOUS
<1>1. IsInjective(queue) /\ \A t \in Tasks : ~Waiting(t)
  BY EmptySet DEF Init, Waiting
<1>2. OnePlace
  BY <1>1 DEF Init, OnePlace, NothingLost, Submitted
<1>3. Slot /\ Holders /\ NoOrphans /\ NoLostWakeup
  BY <1>1 DEF Init, Slot, Holders, InputOnlyToOwner, NoOrphans, NoLostWakeup, Submitted,
              Running, ConstantsOK
<1>4. QED
  BY <1>2, <1>3 DEF Inv

\* What one handler or the Worker does to the line, as a set.
LEMMA EnqueueLine ==
  ASSUME TypeOK, Inv, NEW t \in Tasks, Enqueue(t)
  PROVE  /\ IsInjective(queue')
         /\ \A u \in Tasks : Waiting(u)' <=> Waiting(u) \/ u = t
<1>1. ~Waiting(t)
  BY DEF Inv, OnePlace, Enqueue
<1>2. QED
  BY <1>1, AppendSet DEF TypeOK, Inv, OnePlace, Enqueue, Waiting

LEMMA DropQueuedLine ==
  ASSUME TypeOK, Inv, NEW i \in DOMAIN queue, DropQueued(i)
  PROVE  /\ IsInjective(queue')
         /\ queue[i] \in Tasks /\ Waiting(queue[i])
         /\ \A u \in Tasks : Waiting(u)' <=> Waiting(u) /\ u # queue[i]
         /\ \A u \in Tasks : cancelled'[u] <=> cancelled[u] \/ u = queue[i]
         /\ \A u \in Tasks : closed'[u] <=> closed[u] \/ u = queue[i]
<1>1. queue[i] \in Tasks /\ Waiting(queue[i])
  BY DEF TypeOK, Waiting, ToSet
<1>2. /\ IsInjective(queue')
      /\ \A u \in Tasks : Waiting(u)' <=> Waiting(u) /\ u # queue[i]
  <2>1. queue \in Seq(Tasks) /\ IsInjective(queue)
    BY DEF TypeOK, Inv, OnePlace
  <2>2. /\ IsInjective(RemoveAt(queue, i))
        /\ ToSet(RemoveAt(queue, i)) = ToSet(queue) \ {queue[i]}
    BY <2>1, RemoveAtSet
  <2>3. QED
    BY <2>2 DEF DropQueued, Waiting
<1>3. QED
  BY <1>1, <1>2 DEF DropQueued, TypeOK

LEMMA DequeueLine ==
  ASSUME TypeOK, Inv, Dequeue
  PROVE  /\ IsInjective(queue')
         /\ Head(queue) \in Tasks /\ Waiting(Head(queue))
         /\ \A u \in Tasks : Waiting(u)' <=> Waiting(u) /\ u # Head(queue)
<1>1. Head(queue) \in Tasks
  BY DEF TypeOK, Dequeue
<1>2. QED
  BY <1>1, TailSet DEF TypeOK, Inv, OnePlace, Dequeue, Waiting

LEMMA StepOnePlace ==
  ASSUME ConstantsOK, TypeOK, TypeOK', Inv, [Next]_vars
  PROVE  OnePlace'
<1> USE DEF qmVars, taskVars, envVars, OnePlace, NothingLost, Submitted, Running
<1> USE DEF Inv
<1>1. ASSUME NEW s \in Sessions, RegisterSession(s) \/ UnregisterBegin(s) \/ FeedInput(s)
      PROVE  OnePlace'
  BY <1>1 DEF RegisterSession, UnregisterBegin, FeedInput, Waiting
<1>2. ASSUME NEW t \in Tasks, Enqueue(t) PROVE OnePlace'
  <2>1. \A u \in Tasks : Submitted(u)' <=> Submitted(u) \/ u = t
    BY <1>2 DEF Enqueue, TypeOK
  <2>2. ~closed[t] /\ ~Waiting(t) /\ ~(pc \in {"run", "close", "complete"} /\ task = t)
    BY <1>2 DEF Enqueue
  <2>3. QED
    BY <1>2, <2>1, <2>2, EnqueueLine DEF Enqueue
<1>3. ASSUME NEW t \in Tasks, RemoveActive(t) \/ RouterReceive(t) \/ SessionCancel(t)
      PROVE  OnePlace'
  BY <1>3 DEF RemoveActive, RouterReceive, SessionCancel, Waiting
<1>4. ASSUME NEW i \in DOMAIN queue, RemoveQueued(i) \/ UnregisterDrop(i) PROVE OnePlace'
  BY <1>4, DropQueuedLine DEF RemoveQueued, UnregisterDrop
<1>5. CASE UnregisterEnd \/ FeedTaken \/ FeedFails \/ keepAlivePinger
  BY <1>5 DEF UnregisterEnd, FeedTaken, FeedFails, keepAlivePinger, Waiting
<1>6. CASE Dequeue
  BY <1>6, DequeueLine DEF Dequeue
<1>7. CASE DequeueEmpty \/ DequeueWake \/ WorkerExit \/ CompleteActive \/ DelayOver
  BY <1>7 DEF DequeueEmpty, DequeueWake, WorkerExit, CompleteActive, DelayOver, Waiting
<1>8. CASE CloseMsgChan
  BY <1>8 DEF CloseMsgChan, Waiting, TypeOK
<1>9. CASE Runner
  BY <1>9 DEF Runner, RunSetStdin, SetActiveStdin, RunCloseStdin, RunOutput, RunReturn, Waiting
<1>10. CASE Shutdown
  <2>1. IsInjective(queue') /\ \A t \in Tasks : ~Waiting(t)'
    BY <1>10, EmptySet DEF Shutdown, Waiting
  <2>2. \A t \in Tasks : closed'[t] <=> closed[t] \/ Waiting(t)
    BY <1>10 DEF Shutdown
  <2>3. QED
    BY <1>10, <2>1, <2>2 DEF Shutdown
<1>11. CASE ServerCancel \/ UNCHANGED vars
  BY <1>11 DEF ServerCancel, vars, Waiting
<1>12. QED
  BY <1>1, <1>2, <1>3, <1>4, <1>5, <1>6, <1>7, <1>8, <1>9, <1>10, <1>11
  DEF Next, Handler, Worker, Environment

LEMMA StepSlot ==
  ASSUME ConstantsOK, TypeOK, TypeOK', Inv, [Next]_vars
  PROVE  Slot'
<1> USE DEF qmVars, taskVars, envVars, Slot, Inv
<1>1. ASSUME NEW s \in Sessions, RegisterSession(s) \/ UnregisterBegin(s) \/ FeedInput(s)
      PROVE  Slot'
  BY <1>1 DEF RegisterSession, UnregisterBegin, FeedInput
<1>2. ASSUME NEW t \in Tasks, Enqueue(t) \/ RouterReceive(t) PROVE Slot'
  BY <1>2 DEF Enqueue, RouterReceive
<1>3. ASSUME NEW t \in Tasks, RemoveActive(t) \/ SessionCancel(t) PROVE Slot'
  <2>1. \A u \in Tasks : cancelled'[u] <=> cancelled[u] \/ u = t
    BY <1>3 DEF RemoveActive, SessionCancel, TypeOK
  <2>2. QED
    BY <1>3, <2>1 DEF RemoveActive, SessionCancel, OnePlace, ConstantsOK
<1>4. ASSUME NEW i \in DOMAIN queue, RemoveQueued(i) \/ UnregisterDrop(i) PROVE Slot'
  <2>1. \A u \in Tasks : cancelled[u] => cancelled'[u]
    BY <1>4, DropQueuedLine DEF RemoveQueued, UnregisterDrop
  <2>2. QED
    BY <1>4, <2>1 DEF RemoveQueued, UnregisterDrop, OnePlace
<1>5. CASE UnregisterEnd
  <2>1. \A u \in Tasks : cancelled[u] => cancelled'[u]
    BY <1>5 DEF UnregisterEnd
  <2>2. QED
    BY <1>5, <2>1 DEF UnregisterEnd, OnePlace
<1>6. CASE FeedTaken \/ FeedFails \/ keepAlivePinger
  BY <1>6 DEF FeedTaken, FeedFails, keepAlivePinger
<1>7. CASE Dequeue
  BY <1>7, DequeueLine DEF Dequeue, ConstantsOK
<1>8. CASE DequeueEmpty \/ DequeueWake \/ WorkerExit \/ CloseMsgChan \/ CompleteActive \/ DelayOver
  BY <1>8 DEF DequeueEmpty, DequeueWake, WorkerExit, CloseMsgChan, CompleteActive, DelayOver
<1>9. CASE Runner
  BY <1>9 DEF Runner, RunSetStdin, SetActiveStdin, RunCloseStdin, RunOutput, RunReturn
<1>10. CASE ServerCancel \/ Shutdown \/ UNCHANGED vars
  BY <1>10 DEF ServerCancel, Shutdown, vars
<1>11. QED
  BY <1>1, <1>2, <1>3, <1>4, <1>5, <1>6, <1>7, <1>8, <1>9, <1>10
  DEF Next, Handler, Worker, Environment

LEMMA StepHolders ==
  ASSUME ConstantsOK, TypeOK, TypeOK', Inv, [Next]_vars
  PROVE  Holders'
<1> USE DEF qmVars, taskVars, envVars, Holders, InputOnlyToOwner, Submitted, Inv
<1>1. ASSUME NEW s \in Sessions, RegisterSession(s) \/ UnregisterBegin(s) \/ FeedInput(s)
      PROVE  Holders'
  BY <1>1 DEF RegisterSession, UnregisterBegin, FeedInput, TypeOK, ConstantsOK, Unlocked
<1>2. ASSUME NEW t \in Tasks, Enqueue(t) PROVE Holders'
  <2>1. \A u \in Tasks : id'[u] # 0 => id[u] # 0 \/ u = t
    BY <1>2 DEF Enqueue, TypeOK
  <2>2. QED
    BY <1>2, <2>1 DEF Enqueue, Unlocked
<1>3. ASSUME NEW t \in Tasks, RemoveActive(t) \/ RouterReceive(t) \/ SessionCancel(t)
      PROVE  Holders'
  BY <1>3 DEF RemoveActive, RouterReceive, SessionCancel, Unlocked
<1>4. ASSUME NEW i \in DOMAIN queue, RemoveQueued(i) \/ UnregisterDrop(i) PROVE Holders'
  BY <1>4 DEF RemoveQueued, UnregisterDrop
<1>5. CASE UnregisterEnd \/ FeedTaken \/ FeedFails \/ keepAlivePinger
  BY <1>5 DEF UnregisterEnd, FeedTaken, FeedFails, keepAlivePinger
<1>6. CASE Dequeue \/ CompleteActive
  BY <1>6 DEF Dequeue, CompleteActive, Unlocked
<1>7. CASE DequeueEmpty \/ DequeueWake \/ WorkerExit \/ CloseMsgChan \/ DelayOver
  BY <1>7 DEF DequeueEmpty, DequeueWake, WorkerExit, CloseMsgChan, DelayOver
<1>8. CASE Runner
  BY <1>8 DEF Runner, RunSetStdin, SetActiveStdin, RunCloseStdin, RunOutput, RunReturn, TypeOK
<1>9. CASE ServerCancel \/ Shutdown \/ UNCHANGED vars
  BY <1>9 DEF ServerCancel, Shutdown, vars
<1>10. QED
  BY <1>1, <1>2, <1>3, <1>4, <1>5, <1>6, <1>7, <1>8, <1>9
  DEF Next, Handler, Worker, Environment

LEMMA StepNoOrphans ==
  ASSUME ConstantsOK, TypeOK, TypeOK', Inv, [Next]_vars
  PROVE  NoOrphans'
<1> USE DEF qmVars, taskVars, envVars, NoOrphans, Running, Inv
<1>1. ASSUME NEW s \in Sessions, RegisterSession(s) \/ UnregisterBegin(s) \/ FeedInput(s)
      PROVE  NoOrphans'
  <2>1. \A u \in Tasks : Owner[u] \in Sessions /\ (Waiting(u)' <=> Waiting(u))
    BY <1>1 DEF RegisterSession, UnregisterBegin, FeedInput, Waiting, ConstantsOK
  <2>2. ASSUME NEW u \in Tasks, session'[Owner[u]] = "gone", leaving' # Owner[u]
        PROVE  session[Owner[u]] = "gone" /\ leaving # Owner[u]
    BY <1>1, <2>1, <2>2 DEF RegisterSession, UnregisterBegin, FeedInput, Unlocked, TypeOK,
                            ConstantsOK
  <2>3. QED
    BY <1>1, <2>1, <2>2 DEF RegisterSession, UnregisterBegin, FeedInput
<1>2. ASSUME NEW t \in Tasks, Enqueue(t) PROVE NoOrphans'
  BY <1>2, EnqueueLine DEF Enqueue
<1>3. ASSUME NEW t \in Tasks, RemoveActive(t) \/ RouterReceive(t) \/ SessionCancel(t)
      PROVE  NoOrphans'
  BY <1>3 DEF RemoveActive, RouterReceive, SessionCancel, Waiting, TypeOK
<1>4. ASSUME NEW i \in DOMAIN queue, RemoveQueued(i) \/ UnregisterDrop(i) PROVE NoOrphans'
  BY <1>4, DropQueuedLine DEF RemoveQueued, UnregisterDrop
<1>5. CASE UnregisterEnd
  <2>1. \A u \in Tasks : cancelled'[u] <=> cancelled[u] \/ (u = activeTask /\ Owner[u] = leaving)
    BY <1>5 DEF UnregisterEnd
  <2>2. \A u \in Tasks : Owner[u] = leaving => ~Waiting(u)
    BY <1>5 DEF UnregisterEnd, OwnedBy, Waiting, ToSet
  <2>3. \A u \in Tasks : Waiting(u)' <=> Waiting(u)
    BY <1>5 DEF UnregisterEnd, Waiting
  <2>4. QED
    BY <1>5, <2>1, <2>2, <2>3 DEF UnregisterEnd, Slot
<1>6. CASE FeedTaken \/ FeedFails \/ keepAlivePinger
  BY <1>6 DEF FeedTaken, FeedFails, keepAlivePinger, Waiting
<1>7. CASE Dequeue
  <2>1. leaving = NoSession
    BY <1>7 DEF Dequeue, Unlocked
  <2>2. QED
    BY <1>7, <2>1, DequeueLine DEF Dequeue, ConstantsOK
<1>8. CASE DequeueEmpty \/ DequeueWake \/ WorkerExit \/ CloseMsgChan \/ CompleteActive \/ DelayOver
  BY <1>8 DEF DequeueEmpty, DequeueWake, WorkerExit, CloseMsgChan, CompleteActive, DelayOver, Waiting
<1>9. CASE Runner
  BY <1>9 DEF Runner, RunSetStdin, SetActiveStdin, RunCloseStdin, RunOutput, RunReturn, Waiting
<1>10. CASE Shutdown
  BY <1>10, EmptySet DEF Shutdown, Waiting
<1>11. CASE ServerCancel \/ UNCHANGED vars
  BY <1>11 DEF ServerCancel, vars, Waiting
<1>12. QED
  BY <1>1, <1>2, <1>3, <1>4, <1>5, <1>6, <1>7, <1>8, <1>9, <1>10, <1>11
  DEF Next, Handler, Worker, Environment

LEMMA StepNoLostWakeup ==
  ASSUME ConstantsOK, TypeOK, TypeOK', Inv, [Next]_vars
  PROVE  NoLostWakeup'
<1> USE DEF qmVars, taskVars, envVars, NoLostWakeup, Inv
<1>1. ASSUME NEW s \in Sessions, RegisterSession(s) \/ UnregisterBegin(s) \/ FeedInput(s)
      PROVE  NoLostWakeup'
  BY <1>1 DEF RegisterSession, UnregisterBegin, FeedInput
<1>2. ASSUME NEW t \in Tasks,
             Enqueue(t) \/ RemoveActive(t) \/ RouterReceive(t) \/ SessionCancel(t)
      PROVE  NoLostWakeup'
  BY <1>2 DEF Enqueue, RemoveActive, RouterReceive, SessionCancel
<1>3. ASSUME NEW i \in DOMAIN queue, RemoveQueued(i) \/ UnregisterDrop(i) PROVE NoLostWakeup'
  BY <1>3 DEF RemoveQueued, UnregisterDrop, TypeOK
<1>4. CASE UnregisterEnd \/ FeedTaken \/ FeedFails \/ keepAlivePinger
  BY <1>4 DEF UnregisterEnd, FeedTaken, FeedFails, keepAlivePinger
<1>5. CASE Worker
  BY <1>5 DEF Worker, Dequeue, DequeueEmpty, DequeueWake, WorkerExit, CloseMsgChan,
              CompleteActive, DelayOver
<1>6. CASE Runner
  BY <1>6 DEF Runner, RunSetStdin, SetActiveStdin, RunCloseStdin, RunOutput, RunReturn
<1>7. CASE ServerCancel \/ Shutdown \/ UNCHANGED vars
  BY <1>7 DEF ServerCancel, Shutdown, vars
<1>8. QED
  BY <1>1, <1>2, <1>3, <1>4, <1>5, <1>6, <1>7 DEF Next, Handler, Environment

LEMMA InvCorrect == Spec => []Inv
<1>1. Init => Inv
  BY InitInv, ConstantsOK
<1>2. TypeOK /\ TypeOK' /\ Inv /\ [Next]_vars => Inv'
  BY ConstantsOK, StepOnePlace, StepSlot, StepHolders, StepNoOrphans, StepNoLostWakeup DEF Inv
<1>3. QED
  BY <1>1, <1>2, TypeCorrect, PTL DEF Spec

-----------------------------------------------------------------------------
(* The properties. *)

\* No goroutine ever sends on a closed task channel without recovering.
THEOREM ChannelsOpenWhileUsed == Spec => []OpenWhileUsed
<1>1. Inv => OpenWhileUsed
  BY DEF Inv, OnePlace, OpenWhileUsed, Running
<1>2. QED
  BY <1>1, InvCorrect, PTL

\* No task that was enqueued is ever lost: it waits, or runs, or has been ended.
THEOREM TasksNeverLost == Spec => []NothingLost
<1>1. Inv => NothingLost
  BY DEF Inv, OnePlace
<1>2. QED
  BY <1>1, InvCorrect, PTL

\* Nothing of a session survives UnregisterSession uncancelled.
THEOREM SessionsLeaveNothing == Spec => []NoOrphans
<1>1. Inv => NoOrphans
  BY DEF Inv
<1>2. QED
  BY <1>1, InvCorrect, PTL

\* A Worker that sleeps while a task waits has been woken.
THEOREM WakeupsNeverLost == Spec => []NoLostWakeup
<1>1. Inv => NoLostWakeup
  BY DEF Inv
<1>2. QED
  BY <1>1, InvCorrect, PTL

\* Input in flight goes to the task of the session that sent it.
THEOREM InputReachesOwner == Spec => []InputOnlyToOwner
<1>1. Inv => InputOnlyToOwner
  BY DEF Inv, Holders
<1>2. QED
  BY <1>1, InvCorrect, PTL

\* Shutdown leaves no enqueued task without an end.
THEOREM ShutdownIsComplete == Spec => ShutdownDrains
<1>1. ASSUME ConstantsOK, TypeOK, Inv, [Next]_vars, down' /\ ~down
      PROVE  \A t \in Tasks : Submitted(t) => closed'[t]
  <2>1. Shutdown
    BY <1>1 DEF Next, Handler, Worker, Runner, Environment, vars, qmVars, taskVars, envVars,
       RegisterSession, UnregisterBegin, FeedInput, Enqueue, RemoveActive, RemoveQueued,
       UnregisterDrop, UnregisterEnd, FeedTaken, FeedFails, keepAlivePinger, Dequeue,
       DequeueEmpty, DequeueWake, WorkerExit, CloseMsgChan, CompleteActive, DelayOver,
       RunSetStdin, SetActiveStdin, RunCloseStdin, RunOutput, RunReturn, RouterReceive,
       SessionCancel, ServerCancel
  <2>2. \A t \in Tasks : closed'[t] <=> closed[t] \/ Waiting(t)
    BY <2>1 DEF Shutdown
  <2>3. \A t \in Tasks : ~Running(t)
    BY <2>1 DEF Shutdown, Running
  <2>4. QED
    BY <1>1, <2>2, <2>3 DEF Inv, OnePlace, NothingLost
<1>2. TypeOK /\ Inv /\ [Next]_vars
        => [down' /\ ~down => \A t \in Tasks : Submitted(t) => closed'[t]]_vars
  BY <1>1, ConstantsOK
<1>3. QED
  BY <1>2, TypeCorrect, InvCorrect, PTL DEF Spec, ShutdownDrains

-----------------------------------------------------------------------------
(* The queue implements TaskLifecycle. *)

current == IF pc \in {"run", "close"} THEN task ELSE NoTask
ended == {t \in Tasks : closed[t]}

LEMMA InitLifecycle == Init => Lifecycle!Init
BY DEF Init, Lifecycle!Init

LEMMA StepLifecycle ==
  ASSUME ConstantsOK, TypeOK, Inv, [Next]_vars
  PROVE  [Lifecycle!Next]_(Lifecycle!vars)
<1> USE DEF qmVars, taskVars, envVars
<1> DEFINE Stutter == UNCHANGED <<queue, current, ended>>
<1>s. Stutter => UNCHANGED Lifecycle!vars
  BY DEF Lifecycle!vars, current, ended
<1>1. ASSUME NEW s \in Sessions, RegisterSession(s) \/ UnregisterBegin(s) \/ FeedInput(s)
      PROVE  Stutter
  BY <1>1 DEF RegisterSession, UnregisterBegin, FeedInput, current, ended
<1>2. ASSUME NEW t \in Tasks, Enqueue(t) PROVE Lifecycle!Next
  <2>1. t \notin ToSet(queue) \cup {current} \cup ended
    BY <1>2 DEF Enqueue, Inv, OnePlace, Waiting, current, ended, ConstantsOK
  <2>2. queue' = Append(queue, t) /\ UNCHANGED <<current, ended>>
    BY <1>2 DEF Enqueue, current, ended
  <2>3. Lifecycle!Submit(t)
    BY <2>1, <2>2 DEF Lifecycle!Submit, ToSet, Lifecycle!ToSet, current, ended
  <2>4. QED
    BY <2>3 DEF Lifecycle!Next
<1>3. ASSUME NEW t \in Tasks, RemoveActive(t) \/ RouterReceive(t) \/ SessionCancel(t)
      PROVE  Stutter
  BY <1>3 DEF RemoveActive, RouterReceive, SessionCancel, current, ended
<1>4. ASSUME NEW i \in DOMAIN queue, RemoveQueued(i) \/ UnregisterDrop(i) PROVE Lifecycle!Next
  <2>1. DropQueued(i) /\ UNCHANGED <<pc, task>>
    BY <1>4 DEF RemoveQueued, UnregisterDrop
  <2>2. queue' = RemoveAt(queue, i) /\ UNCHANGED current
    BY <2>1 DEF DropQueued, current
  <2>3. ended' = ended \cup {queue[i]}
    BY <2>1, DropQueuedLine DEF ended
  <2>4. Lifecycle!GiveUp(i)
    BY <2>2, <2>3 DEF Lifecycle!GiveUp, RemoveAt, Lifecycle!RemoveAt, current, ended
  <2>5. QED
    BY <2>4 DEF Lifecycle!Next
<1>5. CASE UnregisterEnd \/ FeedTaken \/ FeedFails \/ keepAlivePinger
  <2>1. Stutter
    BY <1>5 DEF UnregisterEnd, FeedTaken, FeedFails, keepAlivePinger, current, ended
  <2>2. QED
    BY <2>1, <1>s
<1>6. CASE Dequeue
  <2>1. /\ current = NoTask
        /\ queue # <<>>
        /\ current' = Head(queue)
        /\ queue' = Tail(queue)
        /\ UNCHANGED ended
    BY <1>6 DEF Dequeue, current, ended
  <2>2. Lifecycle!Start
    BY <2>1 DEF Lifecycle!Start, current, ended
  <2>3. QED
    BY <2>2 DEF Lifecycle!Next
<1>7. CASE DequeueEmpty \/ DequeueWake \/ WorkerExit \/ CompleteActive \/ DelayOver
  <2>1. Stutter
    BY <1>7 DEF DequeueEmpty, DequeueWake, WorkerExit, CompleteActive, DelayOver, current, ended
  <2>2. QED
    BY <2>1, <1>s
<1>8. CASE CloseMsgChan
  <2>1. current = task /\ task \in Tasks /\ current # NoTask
    BY <1>8 DEF CloseMsgChan, Inv, OnePlace, current, ConstantsOK
  <2>2. UNCHANGED queue /\ current' = NoTask
    BY <1>8 DEF CloseMsgChan, current
  <2>3. ended' = ended \cup {current}
    BY <1>8, <2>1 DEF CloseMsgChan, TypeOK, ended
  <2>4. Lifecycle!Finish
    BY <2>1, <2>2, <2>3 DEF Lifecycle!Finish, current, ended
  <2>5. QED
    BY <2>4 DEF Lifecycle!Next
<1>9. CASE Runner
  <2>1. Stutter
    BY <1>9 DEF Runner, RunSetStdin, SetActiveStdin, RunCloseStdin, RunOutput, RunReturn,
                current, ended
  <2>2. QED
    BY <2>1, <1>s
<1>10. CASE Shutdown
  <2>1. current = NoTask /\ queue' = <<>> /\ UNCHANGED current
    BY <1>10 DEF Shutdown, current
  <2>2. \A t \in Tasks : closed'[t] <=> closed[t] \/ Waiting(t)
    BY <1>10 DEF Shutdown
  <2>3. ToSet(queue) \subseteq Tasks
    BY DEF TypeOK, ToSet
  <2>4. ended' = ended \cup ToSet(queue)
    BY <2>2, <2>3 DEF ended, Waiting
  <2>5. Lifecycle!Close
    BY <2>1, <2>4 DEF Lifecycle!Close, ToSet, Lifecycle!ToSet, current, ended
  <2>6. QED
    BY <2>5 DEF Lifecycle!Next
<1>11. CASE ServerCancel \/ UNCHANGED vars
  <2>1. Stutter
    BY <1>11 DEF ServerCancel, vars, current, ended
  <2>2. QED
    BY <2>1, <1>s
<1> HIDE DEF Stutter
<1>12. QED
  BY <1>s, <1>1, <1>2, <1>3, <1>4, <1>5, <1>6, <1>7, <1>8, <1>9, <1>10, <1>11
  DEF Next, Handler, Worker, Environment

\* The task queue implements what TaskLifecycle promises: first come, first
\* served, one at a time, no task twice and none forgotten.
THEOREM QueueImplementsLifecycle == Spec => ImplementsLifecycle
<1>1. Init => Lifecycle!Init
  BY InitLifecycle
<1>2. TypeOK /\ Inv /\ [Next]_vars => [Lifecycle!Next]_(Lifecycle!vars)
  BY ConstantsOK, StepLifecycle
<1>3. QED
  BY <1>1, <1>2, TypeCorrect, InvCorrect, PTL DEF Spec, ImplementsLifecycle, Lifecycle!Spec

=============================================================================
