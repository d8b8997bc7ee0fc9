---------------------------- MODULE OutboxProofs ----------------------------
(***************************************************************************)
(* Theorems about the messages in a task's outbox: their order, and the    *)
(* positions they announce.                                                *)
(***************************************************************************)
EXTENDS TaskQueueProofs

IsPosition(m) == m.event = "queue_position"

\* A channel announces no position after an output, and announces positions that
\* never grow, starting from the n the client was told last.
Channel(c, n) ==
  /\ \A i, j \in DOMAIN c : i < j /\ c[i] = Output => c[j] = Output
  /\ \A i, j \in DOMAIN c :
       i < j /\ IsPosition(c[i]) /\ IsPosition(c[j]) => c[j].pos <= c[i].pos
  /\ \A i \in DOMAIN c : IsPosition(c[i]) /\ n # 0 => c[i].pos <= n

\* The channel of a task in place k announces no output and no smaller place.
AtPlace(c, n, k) ==
  /\ \A i \in DOMAIN c : c[i] # Output /\ (IsPosition(c[i]) => c[i].pos >= k)
  /\ n # 0 => n >= k

News(q, ch, n) ==
  /\ \A t \in Tasks : Channel(ch[t], n[t])
  /\ \A k \in DOMAIN q : AtPlace(ch[q[k]], n[q[k]], k)

\* What nobody has submitted has been told nothing.
Silent == \A t \in Tasks : ~Submitted(t) => msgChan[t] = <<>> /\ seen[t] = 0

NewsInv == Silent /\ News(queue, msgChan, seen)

-----------------------------------------------------------------------------
(* Single channels. *)

LEMMA MessageKinds ==
  /\ TaskStarted \in Message /\ TaskStarted # Output /\ ~IsPosition(TaskStarted)
  /\ Output \in Message /\ ~IsPosition(Output)
  /\ \A i \in Nat : /\ Position(i) \in Message /\ Position(i) # Output
                    /\ IsPosition(Position(i)) /\ Position(i).pos = i
<1>1. TaskStarted \in Message /\ ~IsPosition(TaskStarted) /\ TaskStarted.event = "task_started"
  BY DEF TaskStarted, Message, IsPosition
<1>2. Output \in Message /\ ~IsPosition(Output) /\ Output.event = "output"
  BY DEF Output, Message, IsPosition
<1>3. \A i \in Nat : /\ Position(i) \in Message /\ IsPosition(Position(i))
                     /\ Position(i).event = "queue_position" /\ Position(i).pos = i
  BY DEF Position, Message, IsPosition
<1>4. QED
  BY <1>1, <1>2, <1>3

LEMMA PositionsAreNumbers ==
  ASSUME NEW c \in Seq(Message), NEW i \in DOMAIN c
  PROVE  c[i].pos \in Nat
<1>1. c[i] \in Message
  OBVIOUS
<1>2. QED
  BY <1>1 DEF Message

LEMMA AppendChannel ==
  ASSUME NEW c \in Seq(Message), NEW n \in Nat, NEW m \in Message, Channel(c, n),
         m = Output \/ \A i \in DOMAIN c : c[i] # Output,
         IsPosition(m) => /\ \A i \in DOMAIN c : IsPosition(c[i]) => m.pos <= c[i].pos
                          /\ n # 0 => m.pos <= n
  PROVE  Channel(Append(c, m), n)
<1> DEFINE d == Append(c, m)
<1>1. /\ Len(c) \in Nat /\ DOMAIN c = 1..Len(c) /\ DOMAIN d = 1..(Len(c) + 1)
      /\ \A i \in DOMAIN c : d[i] = c[i]
      /\ d[Len(c) + 1] = m
  BY AppendIs
<1>2. \A i \in DOMAIN d : \/ i \in DOMAIN c /\ d[i] = c[i]
                          \/ i = Len(c) + 1 /\ d[i] = m
  BY <1>1
<1> HIDE DEF d
<1>3. ASSUME NEW i \in DOMAIN d, NEW j \in DOMAIN d, i < j
      PROVE  i \in DOMAIN c /\ d[i] = c[i]
  BY <1>1, <1>2, <1>3
<1>4. \A i, j \in DOMAIN d : i < j /\ d[i] = Output => d[j] = Output
  BY <1>2, <1>3 DEF Channel
<1>5. \A i, j \in DOMAIN d :
        i < j /\ IsPosition(d[i]) /\ IsPosition(d[j]) => d[j].pos <= d[i].pos
  BY <1>2, <1>3 DEF Channel
<1>6. \A i \in DOMAIN d : IsPosition(d[i]) /\ n # 0 => d[i].pos <= n
  BY <1>2 DEF Channel
<1>7. QED
  BY <1>4, <1>5, <1>6 DEF Channel, d

LEMMA AppendAtPlace ==
  ASSUME NEW c \in Seq(Message), NEW n \in Nat, NEW m \in Message, NEW k \in Nat,
         AtPlace(c, n, k), m # Output, IsPosition(m) => m.pos >= k
  PROVE  AtPlace(Append(c, m), n, k)
BY AppendIs DEF AtPlace

\* Receiving the first message leaves a channel that starts from what it said.
LEMMA TailChannel ==
  ASSUME NEW c \in Seq(Message), NEW n \in Nat, c # <<>>, Channel(c, n)
  PROVE  Channel(Tail(c), IF IsPosition(Head(c)) THEN Head(c).pos ELSE n)
<1> DEFINE d == Tail(c)
<1>1. /\ \A i \in DOMAIN d : i \in Nat /\ i + 1 \in DOMAIN c /\ d[i] = c[i + 1] /\ 1 < i + 1
      /\ 1 \in DOMAIN c /\ Head(c) = c[1]
  BY TailIs
<1> HIDE DEF d
<1>2. \A i, j \in DOMAIN d : i < j => i + 1 < j + 1
  BY <1>1
<1>3. \A i, j \in DOMAIN d : i < j /\ d[i] = Output => d[j] = Output
  BY <1>1, <1>2 DEF Channel
<1>4. \A i, j \in DOMAIN d :
        i < j /\ IsPosition(d[i]) /\ IsPosition(d[j]) => d[j].pos <= d[i].pos
  BY <1>1, <1>2 DEF Channel
<1>5. CASE IsPosition(Head(c))
  <2>1. \A i \in DOMAIN d : IsPosition(d[i]) => d[i].pos <= Head(c).pos
    BY <1>1, <1>5 DEF Channel
  <2>2. QED
    BY <1>3, <1>4, <1>5, <2>1 DEF Channel, d
<1>6. CASE ~IsPosition(Head(c))
  <2>1. \A i \in DOMAIN d : IsPosition(d[i]) /\ n # 0 => d[i].pos <= n
    BY <1>1 DEF Channel
  <2>2. QED
    BY <1>3, <1>4, <1>6, <2>1 DEF Channel, d
<1>7. QED
  BY <1>5, <1>6

LEMMA TailAtPlace ==
  ASSUME NEW c \in Seq(Message), NEW n \in Nat, NEW k \in Nat, c # <<>>, AtPlace(c, n, k)
  PROVE  AtPlace(Tail(c), IF IsPosition(Head(c)) THEN Head(c).pos ELSE n, k)
<1>1. /\ \A i \in DOMAIN Tail(c) : i + 1 \in DOMAIN c /\ Tail(c)[i] = c[i + 1]
      /\ 1 \in DOMAIN c /\ Head(c) = c[1]
  BY TailIs
<1>2. QED
  BY <1>1 DEF AtPlace

-----------------------------------------------------------------------------
(* All channels. *)

\* Tasks may leave the line or move up in it.
LEMMA AdvanceNews ==
  ASSUME NEW q \in Seq(Tasks), NEW r \in Seq(Tasks), NEW ch \in Outboxes,
         NEW n \in [Tasks -> Nat], News(q, ch, n),
         \A k \in DOMAIN r : \E j \in DOMAIN q : j >= k /\ q[j] = r[k]
  PROVE  News(r, ch, n)
<1>1. ASSUME NEW k \in DOMAIN r PROVE AtPlace(ch[r[k]], n[r[k]], k)
  <2>1. PICK j \in DOMAIN q : j >= k /\ q[j] = r[k]
    OBVIOUS
  <2>2. AtPlace(ch[r[k]], n[r[k]], j)
    BY <2>1 DEF News
  <2>3. r[k] \in Tasks /\ j \in Nat /\ k \in Nat
    OBVIOUS
  <2>4. ch[r[k]] \in Seq(Message) /\ n[r[k]] \in Nat
    BY <2>3 DEF Outboxes
  <2>5. \A i \in DOMAIN ch[r[k]] : ch[r[k]][i].pos \in Nat
    BY <2>4, PositionsAreNumbers
  <2>6. QED
    BY <2>1, <2>2, <2>3, <2>4, <2>5 DEF AtPlace
<1>2. QED
  BY <1>1 DEF News

LEMMA NotifyPositionNews ==
  ASSUME ConstantsOK, NEW q \in Seq(Tasks), IsInjective(q), NEW ch \in Outboxes,
         NEW n \in [Tasks -> Nat], News(q, ch, n)
  PROVE  News(q, notifyPosition(q, ch), n)
<1> DEFINE new == notifyPosition(q, ch)
<1>1. \A t \in Tasks :
        \/ new[t] = ch[t]
        \/ \E i \in DOMAIN q : q[i] = t /\ new[t] = Append(ch[t], Position(i))
  BY NotifyPositionIs
<1>2. \A t \in Tasks : ch[t] \in Seq(Message) /\ n[t] \in Nat
  BY DEF Outboxes
<1>3. \A k \in DOMAIN q : q[k] \in Tasks /\ k \in Nat
  OBVIOUS
<1> HIDE DEF new
<1>4. ASSUME NEW t \in Tasks PROVE Channel(new[t], n[t])
  <2>1. CASE new[t] = ch[t]
    BY <2>1 DEF News
  <2>2. ASSUME NEW i \in DOMAIN q, q[i] = t, new[t] = Append(ch[t], Position(i))
        PROVE  Channel(new[t], n[t])
    <3>1. AtPlace(ch[t], n[t], i) /\ Channel(ch[t], n[t])
      BY <2>2 DEF News
    <3>2. /\ Position(i) \in Message /\ Position(i).pos = i /\ i \in Nat
          /\ \A j \in DOMAIN ch[t] : ch[t][j].pos \in Nat
      BY <1>2, <1>3, MessageKinds, PositionsAreNumbers
    <3>3. /\ \A j \in DOMAIN ch[t] : ch[t][j] # Output
          /\ \A j \in DOMAIN ch[t] : IsPosition(ch[t][j]) => Position(i).pos <= ch[t][j].pos
          /\ n[t] # 0 => Position(i).pos <= n[t]
      BY <1>2, <3>1, <3>2 DEF AtPlace
    <3>4. Channel(Append(ch[t], Position(i)), n[t])
      BY <1>2, <3>1, <3>2, <3>3, AppendChannel
    <3>5. QED
      BY <2>2, <3>4
  <2>3. QED
    BY <1>1, <2>1, <2>2
<1>5. ASSUME NEW k \in DOMAIN q PROVE AtPlace(new[q[k]], n[q[k]], k)
  <2>1. CASE new[q[k]] = ch[q[k]]
    BY <2>1 DEF News
  <2>2. ASSUME NEW i \in DOMAIN q, q[i] = q[k], new[q[k]] = Append(ch[q[k]], Position(i))
        PROVE  AtPlace(new[q[k]], n[q[k]], k)
    <3>1. i = k
      BY <2>2 DEF IsInjective
    <3>2. AtPlace(ch[q[k]], n[q[k]], k)
      BY DEF News
    <3>3. /\ Position(k) \in Message /\ Position(k) # Output /\ Position(k).pos >= k
          /\ ch[q[k]] \in Seq(Message) /\ n[q[k]] \in Nat /\ k \in Nat
      BY <1>2, <1>3, MessageKinds
    <3>4. AtPlace(Append(ch[q[k]], Position(k)), n[q[k]], k)
      BY <3>2, <3>3, AppendAtPlace
    <3>5. QED
      BY <2>2, <3>1, <3>4
  <2>3. QED
    BY <1>1, <1>3, <2>1, <2>2
<1>6. QED
  BY <1>4, <1>5 DEF News, new

LEMMA NotifyTaskStartedNews ==
  ASSUME ConstantsOK, NEW q \in Seq(Tasks), NEW ch \in Outboxes,
         NEW n \in [Tasks -> Nat], News(q, ch, n)
  PROVE  News(q, notifyTaskStarted(q, ch), n)
<1> DEFINE new == notifyTaskStarted(q, ch)
<1>1. \A t \in Tasks : \/ new[t] = ch[t]
                       \/ t \in ToSet(q) /\ new[t] = Append(ch[t], TaskStarted)
  BY NotifyTaskStartedIs
<1>2. \A t \in Tasks : ch[t] \in Seq(Message) /\ n[t] \in Nat
  BY DEF Outboxes
<1>3. \A k \in DOMAIN q : q[k] \in Tasks /\ k \in Nat
  OBVIOUS
<1> HIDE DEF new
<1>4. ASSUME NEW t \in Tasks PROVE Channel(new[t], n[t])
  <2>1. CASE new[t] = ch[t]
    BY <2>1 DEF News
  <2>2. CASE t \in ToSet(q) /\ new[t] = Append(ch[t], TaskStarted)
    <3>1. \A j \in DOMAIN ch[t] : ch[t][j] # Output
      BY <2>2 DEF News, AtPlace, ToSet
    <3>2. Channel(Append(ch[t], TaskStarted), n[t])
      BY <1>2, <3>1, MessageKinds, AppendChannel DEF News
    <3>3. QED
      BY <2>2, <3>2
  <2>3. QED
    BY <1>1, <2>1, <2>2
<1>5. ASSUME NEW k \in DOMAIN q PROVE AtPlace(new[q[k]], n[q[k]], k)
  <2>1. AtPlace(ch[q[k]], n[q[k]], k)
    BY DEF News
  <2>2. AtPlace(Append(ch[q[k]], TaskStarted), n[q[k]], k)
    BY <1>2, <1>3, <2>1, MessageKinds, AppendAtPlace
  <2>3. QED
    BY <1>1, <1>3, <2>1, <2>2
<1>6. QED
  BY <1>4, <1>5 DEF News, new

-----------------------------------------------------------------------------
(* Steps. *)

LEMMA InitNews == Init => NewsInv
<1> SUFFICES ASSUME Init PROVE NewsInv
  OBVIOUS
<1>1. DOMAIN <<>> = {}
  OBVIOUS
<1>2. QED
  BY <1>1 DEF Init, NewsInv, Silent, News, Channel

LEMMA StepSilent ==
  ASSUME ConstantsOK, TypeOK, Inv, NewsInv, [Next]_vars
  PROVE  Silent'
<1> USE DEF qmVars, taskVars, envVars, NewsInv, Silent, Submitted
<1>n. ASSUME NEW t \in Tasks, ~Submitted(t), NEW q \in Seq(Tasks), NEW ch \in Outboxes,
             t \notin ToSet(q)
      PROVE  notifyPosition(q, ch)[t] = ch[t] /\ notifyTaskStarted(q, ch)[t] = ch[t]
  BY <1>n DEF notifyPosition, notifyTaskStarted
<1>q. queue \in Seq(Tasks) /\ msgChan \in Outboxes
  BY DEF TypeOK, Outboxes
<1>w. \A t \in Tasks : ~Submitted(t) => t \notin ToSet(queue)
  BY DEF Inv, OnePlace, Waiting
<1>1. ASSUME NEW s \in Sessions, RegisterSession(s) \/ UnregisterBegin(s) \/ FeedInput(s)
      PROVE  Silent'
  BY <1>1 DEF RegisterSession, UnregisterBegin, FeedInput
<1>2. ASSUME NEW t \in Tasks, Enqueue(t) PROVE Silent'
  <2>1. \A u \in Tasks : Submitted(u)' <=> Submitted(u) \/ u = t
    BY <1>2 DEF Enqueue, TypeOK
  <2>2. queue' \in Seq(Tasks)
    BY <1>2 DEF Enqueue, TypeOK
  <2>3. \A u \in Tasks : ~Submitted(u)' => u \notin ToSet(queue')
    BY <1>2, <1>w, <2>1, EnqueueLine DEF Waiting
  <2>4. \A u \in Tasks : ~Submitted(u)' => msgChan'[u] = msgChan[u]
    BY <1>2, <1>n, <1>q, <2>1, <2>2, <2>3 DEF Enqueue
  <2>5. QED
    BY <1>2, <2>1, <2>4 DEF Enqueue
<1>3. ASSUME NEW t \in Tasks, RemoveActive(t) \/ SessionCancel(t) PROVE Silent'
  BY <1>3 DEF RemoveActive, SessionCancel
<1>4. ASSUME NEW i \in DOMAIN queue, RemoveQueued(i) PROVE Silent'
  <2>1. DropQueued(i) /\ queue' \in Seq(Tasks)
    BY <1>4, DropQueuedType DEF RemoveQueued
  <2>2. \A u \in Tasks : ~Submitted(u) => u \notin ToSet(queue')
    BY <1>w, <2>1, DropQueuedLine DEF Waiting
  <2>3. \A u \in Tasks : ~Submitted(u) => msgChan'[u] = msgChan[u]
    BY <1>4, <1>n, <1>q, <2>1, <2>2 DEF RemoveQueued
  <2>4. QED
    BY <1>4, <2>3 DEF RemoveQueued
<1>5. ASSUME NEW i \in DOMAIN queue, UnregisterDrop(i) PROVE Silent'
  BY <1>5 DEF UnregisterDrop
<1>6. CASE UnregisterEnd \/ keepAlivePinger
  <2>1. \A u \in Tasks : ~Submitted(u) => msgChan'[u] = msgChan[u]
    BY <1>6, <1>n, <1>q, <1>w DEF UnregisterEnd, keepAlivePinger
  <2>2. QED
    BY <1>6, <2>1 DEF UnregisterEnd, keepAlivePinger
<1>7. CASE Dequeue
  <2>1. queue' \in Seq(Tasks)
    BY <1>7 DEF Dequeue, TypeOK
  <2>2. \A u \in Tasks : ~Submitted(u) => u \notin ToSet(queue')
    BY <1>7, <1>w, DequeueLine DEF Waiting
  <2>3. notifyTaskStarted(queue', msgChan) \in Outboxes
    BY <1>q, <2>1, NotifyTaskStartedIs
  <2>4. \A u \in Tasks : ~Submitted(u) => msgChan'[u] = msgChan[u]
    <3> SUFFICES ASSUME NEW u \in Tasks, ~Submitted(u) PROVE msgChan'[u] = msgChan[u]
      OBVIOUS
    <3> DEFINE told == notifyTaskStarted(queue', msgChan)
    <3>1. told[u] = msgChan[u]
      BY <1>n, <1>q, <2>1, <2>2
    <3>2. told \in Outboxes
      BY <2>3
    <3> HIDE DEF told
    <3>3. notifyPosition(queue', told)[u] = told[u]
      BY <1>n, <2>1, <2>2, <3>2
    <3>4. msgChan' = notifyPosition(queue', told)
      BY <1>7 DEF Dequeue, told
    <3>5. QED
      BY <3>1, <3>3, <3>4
  <2>5. QED
    BY <1>7, <2>4 DEF Dequeue
<1>8. CASE DequeueEmpty \/ DequeueWake \/ WorkerExit \/ CloseMsgChan \/ CompleteActive \/ DelayOver
  BY <1>8 DEF DequeueEmpty, DequeueWake, WorkerExit, CloseMsgChan, CompleteActive, DelayOver
<1>9. CASE RunOutput
  <2>1. Submitted(task) /\ task \in Tasks
    BY <1>9 DEF RunOutput, Inv, OnePlace
  <2>2. \A u \in Tasks : u # task => msgChan'[u] = msgChan[u]
    BY <1>9 DEF RunOutput, TypeOK
  <2>3. QED
    BY <1>9, <2>1, <2>2 DEF RunOutput
<1>10. CASE RunSetStdin \/ SetActiveStdin \/ RunCloseStdin \/ RunReturn
  BY <1>10 DEF RunSetStdin, SetActiveStdin, RunCloseStdin, RunReturn
<1>11. ASSUME NEW t \in Tasks, RouterReceive(t) PROVE Silent'
  <2>1. \A u \in Tasks : u # t => msgChan'[u] = msgChan[u] /\ seen'[u] = seen[u]
    BY <1>11 DEF RouterReceive, TypeOK
  <2>2. Submitted(t)
    BY <1>11 DEF RouterReceive
  <2>3. QED
    BY <1>11, <2>1, <2>2 DEF RouterReceive
<1>12. CASE FeedTaken \/ FeedFails \/ ServerCancel \/ Shutdown \/ UNCHANGED vars
  BY <1>12 DEF FeedTaken, FeedFails, ServerCancel, Shutdown, vars
<1>13. QED
  BY <1>1, <1>2, <1>3, <1>4, <1>5, <1>6, <1>7, <1>8, <1>9, <1>10, <1>11, <1>12
  DEF Next, Handler, Worker, Runner, Environment

LEMMA StepNews ==
  ASSUME ConstantsOK, TypeOK, TypeOK', Inv, Inv', NewsInv, [Next]_vars
  PROVE  News(queue, msgChan, seen)'
<1> USE DEF qmVars, taskVars, envVars, NewsInv
<1>q. /\ queue \in Seq(Tasks) /\ queue' \in Seq(Tasks) /\ IsInjective(queue')
      /\ msgChan \in Outboxes /\ seen \in [Tasks -> Nat]
  BY DEF TypeOK, Outboxes, Inv, OnePlace
<1>p. ASSUME News(queue', msgChan, seen), seen' = seen, msgChan' = notifyPosition(queue', msgChan)
      PROVE  News(queue, msgChan, seen)'
  BY <1>q, <1>p, NotifyPositionNews
<1>u. ASSUME UNCHANGED <<queue, msgChan, seen>> PROVE News(queue, msgChan, seen)'
  BY <1>u
<1>1. ASSUME NEW s \in Sessions, RegisterSession(s) \/ UnregisterBegin(s) \/ FeedInput(s)
      PROVE  News(queue, msgChan, seen)'
  BY <1>1, <1>u DEF RegisterSession, UnregisterBegin, FeedInput
<1>2. ASSUME NEW t \in Tasks, Enqueue(t) PROVE News(queue, msgChan, seen)'
  <2>1. msgChan[t] = <<>> /\ seen[t] = 0
    BY <1>2 DEF Enqueue, Silent
  <2>2. ASSUME NEW k \in DOMAIN queue' PROVE AtPlace(msgChan[queue'[k]], seen[queue'[k]], k)
    <3>1. CASE k \in DOMAIN queue /\ queue'[k] = queue[k]
      BY <3>1 DEF News
    <3>2. CASE queue'[k] = t
      BY <2>1, <3>2 DEF AtPlace
    <3>3. QED
      BY <1>2, <1>q, <3>1, <3>2, AppendIs DEF Enqueue
  <2>3. News(queue', msgChan, seen)
    BY <2>2 DEF News
  <2>4. QED
    BY <1>2, <1>p, <2>3 DEF Enqueue
<1>3. ASSUME NEW t \in Tasks, RemoveActive(t) \/ SessionCancel(t)
      PROVE  News(queue, msgChan, seen)'
  BY <1>3, <1>u DEF RemoveActive, SessionCancel
<1>4. ASSUME NEW i \in DOMAIN queue, DropQueued(i)
      PROVE  News(queue', msgChan, seen)
  <2>1. /\ DOMAIN queue' = 1..(Len(queue) - 1)
        /\ DOMAIN queue = 1..Len(queue) /\ Len(queue) \in Nat
        /\ \A k \in 1..(Len(queue) - 1) :
             queue'[k] = IF k < i THEN queue[k] ELSE queue[k + 1]
    <3>1. queue' = RemoveAt(queue, i)
      BY <1>4 DEF DropQueued
    <3>2. /\ RemoveAt(queue, i) \in Seq(Tasks)
          /\ Len(RemoveAt(queue, i)) = Len(queue) - 1
          /\ \A k \in 1..(Len(queue) - 1) :
               RemoveAt(queue, i)[k] = IF k < i THEN queue[k] ELSE queue[k + 1]
      BY <1>4, <1>q, RemoveAtIs
    <3>3. QED
      BY <1>q, <3>1, <3>2
  <2>2. \A k \in DOMAIN queue' : \E j \in DOMAIN queue : j >= k /\ queue[j] = queue'[k]
    <3> SUFFICES ASSUME NEW k \in DOMAIN queue'
                 PROVE  \E j \in DOMAIN queue : j >= k /\ queue[j] = queue'[k]
      OBVIOUS
    <3>1. CASE k < i
      BY <2>1, <3>1
    <3>2. CASE ~(k < i)
      <4>1. k + 1 \in DOMAIN queue /\ k + 1 >= k /\ queue[k + 1] = queue'[k]
        BY <2>1, <3>2
      <4>2. QED
        BY <4>1
    <3>3. QED
      BY <3>1, <3>2
  <2>3. QED
    BY <1>q, <2>2, AdvanceNews
<1>5. ASSUME NEW i \in DOMAIN queue, RemoveQueued(i) PROVE News(queue, msgChan, seen)'
  BY <1>4, <1>5, <1>p DEF RemoveQueued
<1>6. ASSUME NEW i \in DOMAIN queue, UnregisterDrop(i) PROVE News(queue, msgChan, seen)'
  BY <1>4, <1>6 DEF UnregisterDrop
<1>7. CASE UnregisterEnd \/ keepAlivePinger
  BY <1>7, <1>p DEF UnregisterEnd, keepAlivePinger
<1>8. CASE Dequeue
  <2>1. queue' = Tail(queue) /\ queue # <<>>
    BY <1>8 DEF Dequeue
  <2>2. \A k \in DOMAIN queue' : k \in Nat /\ k + 1 \in DOMAIN queue /\ queue'[k] = queue[k + 1]
    BY <1>q, <2>1, TailIs
  <2>3. \A k \in DOMAIN queue' : \E j \in DOMAIN queue : j >= k /\ queue[j] = queue'[k]
    BY <2>2
  <2>4. News(queue', msgChan, seen)
    BY <1>q, <2>3, AdvanceNews
  <2> DEFINE told == notifyTaskStarted(queue', msgChan)
  <2>5. told \in Outboxes /\ News(queue', told, seen)
    BY <1>q, <2>4, NotifyTaskStartedIs, NotifyTaskStartedNews
  <2>6. msgChan' = notifyPosition(queue', told) /\ seen' = seen
    BY <1>8 DEF Dequeue
  <2> HIDE DEF told
  <2>7. News(queue', notifyPosition(queue', told), seen)
    BY <1>q, <2>5, NotifyPositionNews
  <2>8. QED
    BY <2>6, <2>7
<1>9. CASE DequeueEmpty \/ DequeueWake \/ WorkerExit \/ CloseMsgChan \/ CompleteActive \/ DelayOver
  BY <1>9, <1>u DEF DequeueEmpty, DequeueWake, WorkerExit, CloseMsgChan, CompleteActive, DelayOver
<1>10. CASE RunOutput
  <2>1. /\ task \in Tasks /\ ~Waiting(task)
        /\ UNCHANGED <<queue, seen>>
        /\ msgChan'[task] = Append(msgChan[task], Output)
        /\ \A u \in Tasks : u # task => msgChan'[u] = msgChan[u]
    BY <1>10 DEF RunOutput, Inv, OnePlace, TypeOK
  <2>2. msgChan[task] \in Seq(Message) /\ seen[task] \in Nat
    BY <2>1 DEF TypeOK
  <2>3. Channel(msgChan'[task], seen[task])
    <3>1. Output \in Message /\ ~IsPosition(Output)
      BY MessageKinds
    <3>2. Channel(msgChan[task], seen[task])
      BY <2>1 DEF News
    <3>3. Channel(Append(msgChan[task], Output), seen[task])
      BY <2>2, <3>1, <3>2, AppendChannel
    <3>4. QED
      BY <2>1, <3>3
  <2>4. \A k \in DOMAIN queue : queue[k] \in Tasks /\ queue[k] # task
    BY <1>q, <2>1 DEF Waiting, ToSet
  <2>5. QED
    BY <2>1, <2>3, <2>4 DEF News
<1>11. CASE RunSetStdin \/ SetActiveStdin \/ RunCloseStdin \/ RunReturn
  BY <1>11, <1>u DEF RunSetStdin, SetActiveStdin, RunCloseStdin, RunReturn
<1>12. ASSUME NEW t \in Tasks, RouterReceive(t) PROVE News(queue, msgChan, seen)'
  <2>1. /\ msgChan[t] \in Seq(Message) /\ msgChan[t] # <<>> /\ seen[t] \in Nat
        /\ UNCHANGED queue
        /\ msgChan'[t] = Tail(msgChan[t])
        /\ seen'[t] = IF IsPosition(Head(msgChan[t])) THEN Head(msgChan[t]).pos ELSE seen[t]
        /\ \A u \in Tasks : u # t => msgChan'[u] = msgChan[u] /\ seen'[u] = seen[u]
    BY <1>12 DEF RouterReceive, TypeOK, IsPosition
  <2>2. Channel(msgChan'[t], seen'[t])
    BY <2>1, TailChannel DEF News
  <2>3. ASSUME NEW k \in DOMAIN queue, queue[k] = t PROVE AtPlace(msgChan'[t], seen'[t], k)
    <3>1. AtPlace(msgChan[t], seen[t], k) /\ k \in Nat
      BY <1>q, <2>3 DEF News
    <3>2. QED
      BY <2>1, <3>1, TailAtPlace
  <2>4. \A k \in DOMAIN queue : queue[k] \in Tasks
    BY <1>q
  <2>5. \A u \in Tasks : Channel(msgChan'[u], seen'[u])
    BY <2>1, <2>2 DEF News
  <2>6. \A k \in DOMAIN queue : AtPlace(msgChan'[queue[k]], seen'[queue[k]], k)
    BY <2>1, <2>3, <2>4 DEF News
  <2>7. QED
    BY <2>1, <2>5, <2>6 DEF News
<1>13. CASE Shutdown
  <2>1. DOMAIN queue' = {} /\ UNCHANGED <<msgChan, seen>>
    BY <1>13 DEF Shutdown
  <2>2. QED
    BY <2>1 DEF News
<1>14. CASE FeedTaken \/ FeedFails \/ ServerCancel \/ UNCHANGED vars
  BY <1>14, <1>u DEF FeedTaken, FeedFails, ServerCancel, vars
<1>15. QED
  BY <1>1, <1>2, <1>3, <1>5, <1>6, <1>7, <1>8, <1>9, <1>10, <1>11, <1>12, <1>13, <1>14
  DEF Next, Handler, Worker, Runner, Environment

LEMMA NewsCorrect == Spec => []NewsInv
<1>1. Init => NewsInv
  BY InitNews
<1>2. TypeOK /\ TypeOK' /\ Inv /\ Inv' /\ NewsInv /\ [Next]_vars => NewsInv'
  BY ConstantsOK, StepSilent, StepNews DEF NewsInv
<1>3. QED
  BY <1>1, <1>2, TypeCorrect, InvCorrect, PTL DEF Spec

-----------------------------------------------------------------------------
(* The properties. *)

\* A client that sees output is not told afterwards that it waits.
THEOREM NewsComeBeforeOutput == Spec => []QueueNewsBeforeOutput
<1>1. NewsInv => QueueNewsBeforeOutput
  BY DEF NewsInv, News, Channel, QueueNewsBeforeOutput
<1>2. QED
  BY <1>1, NewsCorrect, PTL

\* The positions a client is told one after the other never grow.
THEOREM PositionsOnlyShrink == Spec => PositionsNeverGrow
<1>1. ASSUME TypeOK, NewsInv, [Next]_vars, NEW t \in Tasks, seen[t] # 0
      PROVE  seen'[t] <= seen[t]
  <2>1. CASE seen'[t] = seen[t]
    <3>1. seen[t] \in Nat
      BY <1>1 DEF TypeOK
    <3>2. QED
      BY <2>1, <3>1
  <2>2. ASSUME NEW u \in Tasks, RouterReceive(u) PROVE seen'[t] <= seen[t]
    <3>1. CASE t = u /\ IsPosition(Head(msgChan[t]))
      <4>1. 1 \in DOMAIN msgChan[t] /\ Head(msgChan[t]) = msgChan[t][1]
        <5>1. msgChan[t] \in Seq(Message) /\ msgChan[t] # <<>>
          BY <1>1, <2>2, <3>1 DEF RouterReceive, TypeOK
        <5>2. QED
          BY <5>1, TailIs
      <4>2. seen'[t] = msgChan[t][1].pos
        BY <1>1, <2>2, <3>1, <4>1 DEF RouterReceive, TypeOK, IsPosition
      <4>3. QED
        BY <1>1, <3>1, <4>1, <4>2 DEF NewsInv, News, Channel
    <3>2. CASE ~(t = u /\ IsPosition(Head(msgChan[t])))
      <4>1. seen'[t] = seen[t]
        BY <1>1, <2>2, <3>2 DEF RouterReceive, TypeOK, IsPosition
      <4>2. QED
        BY <4>1, <2>1
    <3>3. QED
      BY <3>1, <3>2
  <2>3. CASE ~\E u \in Tasks : RouterReceive(u)
    <3>1. seen' = seen
      BY <1>1, <2>3 DEF Next, Handler, Worker, Runner, Environment, vars, qmVars, taskVars,
         envVars, RegisterSession, UnregisterBegin, FeedInput, Enqueue, RemoveActive,
         RemoveQueued, UnregisterDrop, UnregisterEnd, FeedTaken, FeedFails, keepAlivePinger,
         Dequeue, DequeueEmpty, DequeueWake, WorkerExit, CloseMsgChan, CompleteActive,
         DelayOver, RunSetStdin, SetActiveStdin, RunCloseStdin, RunOutput, RunReturn,
         SessionCancel, ServerCancel, Shutdown
    <3>2. QED
      BY <2>1, <3>1
  <2>4. QED
    BY <2>2, <2>3
<1>2. TypeOK /\ NewsInv /\ [Next]_vars
        => [\A t \in Tasks : seen[t] # 0 => seen'[t] <= seen[t]]_vars
  BY <1>1
<1>3. QED
  BY <1>2, TypeCorrect, NewsCorrect, PTL DEF Spec, PositionsNeverGrow

=============================================================================
