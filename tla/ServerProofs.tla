---------------------------- MODULE ServerProofs -----------------------------
(***************************************************************************)
(* Theorems about ServerLife, for any finite number of connections and any *)
(* limit on them.                                                          *)
(***************************************************************************)
EXTENDS ServerLife, QueueLemmas, FiniteSetTheorems, TLAPS

-----------------------------------------------------------------------------
(* Counting the connections that are at some place. *)

Places == {"out", "accepted", "load", "add", "done"} \cup Counted

\* How many connections a function from connections to places puts into S.
Number(f, S) == Cardinality({c \in Conns : f[c] \in S})

\* The number is a natural number.
LEMMA NumberNat ==
  ASSUME NEW f, NEW S
  PROVE  Number(f, S) \in Nat
<1>1. IsFiniteSet({c \in Conns : f[c] \in S})
  BY FS_Subset, ServerConstantsOK DEF ServerConstantsOK
<1> QED
  BY <1>1, FS_CardinalityType DEF Number

\* A connection that comes to S is one more there.
LEMMA NumberUp ==
  ASSUME NEW f, NEW g, NEW c \in Conns, NEW S,
         \A d \in Conns : d # c => g[d] = f[d], f[c] \notin S, g[c] \in S
  PROVE  Number(g, S) = Number(f, S) + 1
<1> DEFINE A == {d \in Conns : f[d] \in S}
           B == {d \in Conns : g[d] \in S}
<1>1. IsFiniteSet(A)
  BY FS_Subset, ServerConstantsOK DEF ServerConstantsOK
<1>2. B = A \cup {c} /\ c \notin A
  OBVIOUS
<1> HIDE DEF A, B
<1>3. Cardinality(B) = Cardinality(A) + 1
  BY <1>1, <1>2, FS_AddElement
<1> QED
  BY <1>3 DEF Number, A, B

\* A connection that leaves S is one less there.
LEMMA NumberDown ==
  ASSUME NEW f, NEW g, NEW c \in Conns, NEW S,
         \A d \in Conns : d # c => g[d] = f[d], f[c] \in S, g[c] \notin S
  PROVE  Number(g, S) = Number(f, S) - 1
<1> DEFINE A == {d \in Conns : f[d] \in S}
           B == {d \in Conns : g[d] \in S}
<1>1. IsFiniteSet(A)
  BY FS_Subset, ServerConstantsOK DEF ServerConstantsOK
<1>2. B = A \ {c} /\ c \in A
  OBVIOUS
<1> HIDE DEF A, B
<1>3. Cardinality(B) = Cardinality(A) - 1
  BY <1>1, <1>2, FS_RemoveElement
<1> QED
  BY <1>3 DEF Number, A, B

\* A move inside or outside of S does not change the number.
LEMMA NumberStays ==
  ASSUME NEW f, NEW g, NEW S, \A d \in Conns : g[d] \in S <=> f[d] \in S
  PROVE  Number(g, S) = Number(f, S)
<1>1. {d \in Conns : g[d] \in S} = {d \in Conns : f[d] \in S}
  OBVIOUS
<1> QED
  BY <1>1 DEF Number

-----------------------------------------------------------------------------
(* Types. *)

\* Without the sign of activeConn, which needs the count.
ConnTypes ==
  /\ conn \in [Conns -> Places]
  /\ activeConn \in Int
  /\ peak \in Nat

Types == ShutdownTypes /\ TaskTypes /\ ConnTypes

\* Where the Worker is between Dequeue and CompleteActive.
Busy ==
  {"prepare", "start", "startHealth", "run", "stop", "stopping", "close", "complete"}

\* There is an active task exactly while the Worker is busy with one, and the Worker
\* is not started more than once.
Slot ==
  /\ worker \in Busy <=> active # NoConn
  /\ start = "worker" => worker = "none"

\* The initial state is well typed.
LEMMA InitTypes == Init => Types
<1>1. Init => ShutdownTypes
  BY DEF Init, ShutdownTypes
<1>2. Init => TaskTypes
  <2> SUFFICES ASSUME Init PROVE TaskTypes
    OBVIOUS
  <2>1. queue \in Seq(Conns)
    BY DEF Init
  <2>2. mu \in {"free", "worker"} \cup Conns /\ stdin \in {"nil", "open", "closed"}
    BY DEF Init
  <2> QED
    BY <2>1, <2>2 DEF Init, TaskTypes
<1>3. Init => ConnTypes
  BY DEF Init, ConnTypes, Places
<1> QED
  BY <1>1, <1>2, <1>3 DEF Types


-----------------------------------------------------------------------------
(* The steps that a handler or its client does, and the others. *)

HandlerStep(c) == Client(c) \/ WebSocketHandler(c) \/ CloseIdle(c)

ServerStep ==
  \/ Start \/ ListenFails \/ Worker \/ CommandEnds \/ HealthHangs \/ Signal \/ Expire
  \/ HTTPShutdown \/ HTTPShutdownFails \/ Cancel \/ Wait \/ QueueShutdown

controlVars == <<start, shutVars, ctxDone, worker, active>>

\* Every step is one or the other.
LEMMA StepKinds ==
  ASSUME [Next]_vars
  PROVE  ServerStep \/ (\E c \in Conns : HandlerStep(c)) \/ UNCHANGED vars
BY DEF Next, ServerStep, HandlerStep, Shutdown

\* A step of a handler leaves the program counters of the others, and the slot.
LEMMA HandlerFrame ==
  ASSUME TRUE, NEW c \in Conns, HandlerStep(c)
  PROVE  UNCHANGED controlVars
<1> USE DEF controlVars, taskVars, queueVars, lockVars
<1>1. CASE Accept(c)
  BY <1>1 DEF Accept, Move
<1>2. CASE Request(c)
  BY <1>2 DEF Request, Move
<1>3. CASE RouterEnds(c)
  BY <1>3 DEF RouterEnds, Move
<1>4. CASE Load(c)
  BY <1>4 DEF Load, Move
<1>5. CASE Refuse(c)
  BY <1>5 DEF Refuse, Move
<1>6. CASE Add(c)
  BY <1>6 DEF Add, Move
<1>7. CASE Upgrade(c)
  BY <1>7 DEF Upgrade, Move
<1>8. CASE UpgradeFails(c)
  BY <1>8 DEF UpgradeFails, Move
<1>9. CASE Handshake(c)
  BY <1>9 DEF Handshake, Move
<1>10. CASE HandshakeFails(c)
  BY <1>10 DEF HandshakeFails, Move
<1>11. CASE Enqueue(c)
  BY <1>11 DEF Enqueue, Move
<1>12. CASE UnregisterWaiting(c)
  BY <1>12 DEF UnregisterWaiting, Move
<1>13. CASE UnregisterStarted(c)
  BY <1>13 DEF UnregisterStarted, Move
<1>14. CASE Release(c)
  BY <1>14 DEF Release, Move
<1>15. CASE CloseIdle(c)
  BY <1>15 DEF CloseIdle, Move
<1>16. CASE FeedInput(c)
  BY <1>16 DEF FeedInput
<1>17. CASE FeedTaken(c)
  BY <1>17 DEF FeedTaken, FeedReturns
<1>18. CASE FeedFails(c)
  BY <1>18 DEF FeedFails, FeedReturns
<1>19. CASE UnregisterHangs(c)
  BY <1>19 DEF UnregisterHangs
<1> QED
  BY <1>1, <1>2, <1>3, <1>4, <1>5, <1>6, <1>7, <1>8, <1>9, <1>10, <1>11, <1>12, <1>13,
     <1>14, <1>15, <1>16, <1>17, <1>18, <1>19
     DEF HandlerStep, Client, WebSocketHandler, processConnection

\* The other steps leave the connections and their counter.
LEMMA ServerFrame ==
  ASSUME TRUE, ServerStep
  PROVE  UNCHANGED connVars
<1> USE DEF connVars
<1>1. CASE startWorker
  BY <1>1 DEF startWorker
<1>2. CASE AssignServer
  BY <1>2 DEF AssignServer
<1>3. CASE Listen
  BY <1>3 DEF Listen
<1>4. CASE ServerClosed
  BY <1>4 DEF ServerClosed
<1>5. CASE ListenFails
  BY <1>5 DEF ListenFails
<1>6. CASE Dequeue
  BY <1>6 DEF Dequeue
<1>7. CASE DequeueEmpty
  BY <1>7 DEF DequeueEmpty
<1>8. CASE DequeueWake
  BY <1>8 DEF DequeueWake
<1>9. CASE DelayOver
  BY <1>9 DEF DelayOver
<1>10. CASE WorkerExit
  BY <1>10 DEF WorkerExit
<1>11. CASE CommandEnds
  BY <1>11 DEF CommandEnds
<1>12. CASE Signal
  BY <1>12 DEF Signal
<1>13. CASE Expire
  BY <1>13 DEF Expire
<1>14. CASE HTTPShutdown
  BY <1>14 DEF HTTPShutdown
<1>15. CASE HTTPShutdownFails
  BY <1>15 DEF HTTPShutdownFails
<1>16. CASE Cancel
  BY <1>16 DEF Cancel
<1>17. CASE Wait
  BY <1>17 DEF Wait
<1>18. CASE QueueShutdown
  BY <1>18 DEF QueueShutdown
<1>19. CASE prepareCommand
  BY <1>19 DEF prepareCommand
<1>20. CASE StartCommand
  BY <1>20 DEF StartCommand
<1>21. CASE StartFails
  BY <1>21 DEF StartFails
<1>22. CASE startHealthCheck
  BY <1>22 DEF startHealthCheck
<1>23. CASE StopHealthCheck
  BY <1>23 DEF StopHealthCheck
<1>24. CASE StopHealthReturns
  BY <1>24 DEF StopHealthReturns
<1>25. CASE HealthHangs
  BY <1>25 DEF HealthHangs
<1>26. CASE CloseMsgChan
  BY <1>26 DEF CloseMsgChan
<1>27. CASE CompleteActive
  BY <1>27 DEF CompleteActive
<1> QED
  BY <1>1, <1>2, <1>3, <1>4, <1>5, <1>6, <1>7, <1>8, <1>9, <1>10, <1>11, <1>12, <1>13,
     <1>14, <1>15, <1>16, <1>17, <1>18, <1>19, <1>20, <1>21, <1>22, <1>23, <1>24, <1>25,
     <1>26, <1>27
     DEF ServerStep, Start, Worker, Run

\* The flags and program counters stay in their sets.
LEMMA ShutdownTypesStep ==
  ASSUME ShutdownTypes, ServerStep
  PROVE  ShutdownTypes'
<1> USE DEF ShutdownTypes, shutVars
<1>1. CASE startWorker
  BY <1>1 DEF startWorker
<1>2. CASE AssignServer
  BY <1>2 DEF AssignServer
<1>3. CASE Listen
  BY <1>3 DEF Listen
<1>4. CASE ServerClosed
  BY <1>4 DEF ServerClosed
<1>5. CASE ListenFails
  BY <1>5 DEF ListenFails
<1>6. CASE Dequeue
  BY <1>6 DEF Dequeue
<1>7. CASE DequeueEmpty
  BY <1>7 DEF DequeueEmpty
<1>8. CASE DequeueWake
  BY <1>8 DEF DequeueWake
<1>9. CASE DelayOver
  BY <1>9 DEF DelayOver
<1>10. CASE WorkerExit
  BY <1>10 DEF WorkerExit
<1>11. CASE CommandEnds
  BY <1>11 DEF CommandEnds
<1>12. CASE Signal
  BY <1>12 DEF Signal
<1>13. CASE Expire
  BY <1>13 DEF Expire
<1>14. CASE HTTPShutdown
  BY <1>14 DEF HTTPShutdown
<1>15. CASE HTTPShutdownFails
  BY <1>15 DEF HTTPShutdownFails
<1>16. CASE Cancel
  BY <1>16 DEF Cancel
<1>17. CASE Wait
  BY <1>17 DEF Wait
<1>18. CASE QueueShutdown
  BY <1>18 DEF QueueShutdown
<1>19. CASE prepareCommand
  BY <1>19 DEF prepareCommand
<1>20. CASE StartCommand
  BY <1>20 DEF StartCommand
<1>21. CASE StartFails
  BY <1>21 DEF StartFails
<1>22. CASE startHealthCheck
  BY <1>22 DEF startHealthCheck
<1>23. CASE StopHealthCheck
  BY <1>23 DEF StopHealthCheck
<1>24. CASE StopHealthReturns
  BY <1>24 DEF StopHealthReturns
<1>25. CASE HealthHangs
  BY <1>25 DEF HealthHangs
<1>26. CASE CloseMsgChan
  BY <1>26 DEF CloseMsgChan
<1>27. CASE CompleteActive
  BY <1>27 DEF CompleteActive
<1> QED
  BY <1>1, <1>2, <1>3, <1>4, <1>5, <1>6, <1>7, <1>8, <1>9, <1>10, <1>11, <1>12, <1>13,
     <1>14, <1>15, <1>16, <1>17, <1>18, <1>19, <1>20, <1>21, <1>22, <1>23, <1>24, <1>25,
     <1>26, <1>27
     DEF ServerStep, Start, Worker, Run

\* Every step leaves them there.
LEMMA ShutdownTypesStay ==
  ASSUME ShutdownTypes, [Next]_vars
  PROVE  ShutdownTypes'
<1>1. CASE ServerStep
  BY <1>1, ShutdownTypesStep
<1>2. ASSUME NEW c \in Conns, HandlerStep(c) PROVE ShutdownTypes'
  BY <1>2, HandlerFrame DEF ShutdownTypes, controlVars, shutVars
<1>3. CASE UNCHANGED vars
  BY <1>3 DEF vars, ShutdownTypes, shutVars
<1> QED
  BY <1>1, <1>2, <1>3, StepKinds

\* Queue, slot and task sets stay well typed.
LEMMA TaskTypesStep ==
  ASSUME TaskTypes, Slot, ServerStep
  PROVE  TaskTypes'
<1> USE DEF TaskTypes, taskVars, queueVars, lockVars
<1>1. CASE startWorker
  BY <1>1 DEF startWorker
<1>2. CASE AssignServer
  BY <1>2 DEF AssignServer
<1>3. CASE Listen
  BY <1>3 DEF Listen
<1>4. CASE ServerClosed
  BY <1>4 DEF ServerClosed
<1>5. CASE ListenFails
  BY <1>5 DEF ListenFails
<1>6. CASE Dequeue
  BY <1>6, TailIs DEF Dequeue
<1>7. CASE DequeueEmpty
  BY <1>7 DEF DequeueEmpty
<1>8. CASE DequeueWake
  BY <1>8 DEF DequeueWake
<1>9. CASE DelayOver
  BY <1>9 DEF DelayOver
<1>10. CASE WorkerExit
  BY <1>10 DEF WorkerExit
<1>11. CASE CommandEnds
  BY <1>11 DEF CommandEnds, Slot
<1>12. CASE Signal
  BY <1>12 DEF Signal
<1>13. CASE Expire
  BY <1>13 DEF Expire
<1>14. CASE HTTPShutdown
  BY <1>14 DEF HTTPShutdown
<1>15. CASE HTTPShutdownFails
  BY <1>15 DEF HTTPShutdownFails
<1>16. CASE Cancel
  BY <1>16 DEF Cancel
<1>17. CASE Wait
  BY <1>17 DEF Wait
<1>18. CASE QueueShutdown
  BY <1>18 DEF QueueShutdown, ToSet
<1>19. CASE prepareCommand
  BY <1>19 DEF prepareCommand, Slot
<1>20. CASE StartCommand
  BY <1>20 DEF StartCommand, Slot
<1>21. CASE StartFails
  BY <1>21 DEF StartFails, Slot
<1>22. CASE startHealthCheck
  BY <1>22 DEF startHealthCheck, Slot
<1>23. CASE StopHealthCheck
  BY <1>23 DEF StopHealthCheck, Slot
<1>24. CASE StopHealthReturns
  BY <1>24 DEF StopHealthReturns, Slot
<1>25. CASE HealthHangs
  BY <1>25 DEF HealthHangs, Slot
<1>26. CASE CloseMsgChan
  BY <1>26, ServerConstantsOK DEF CloseMsgChan, Slot, Busy, ServerConstantsOK
<1>27. CASE CompleteActive
  BY <1>27 DEF CompleteActive, Slot
<1> QED
  BY <1>1, <1>2, <1>3, <1>4, <1>5, <1>6, <1>7, <1>8, <1>9, <1>10, <1>11, <1>12, <1>13,
     <1>14, <1>15, <1>16, <1>17, <1>18, <1>19, <1>20, <1>21, <1>22, <1>23, <1>24, <1>25,
     <1>26, <1>27
     DEF ServerStep, Start, Worker, Run

\* A handler leaves them well typed.
LEMMA TaskTypesMove ==
  ASSUME TaskTypes, NEW c \in Conns, HandlerStep(c)
  PROVE  TaskTypes'
<1> USE DEF TaskTypes, taskVars, queueVars, lockVars
<1>1. CASE Accept(c)
  BY <1>1 DEF Accept, Move
<1>2. CASE Request(c)
  BY <1>2 DEF Request, Move
<1>3. CASE RouterEnds(c)
  BY <1>3 DEF RouterEnds, Move
<1>4. CASE Load(c)
  BY <1>4 DEF Load, Move
<1>5. CASE Refuse(c)
  BY <1>5 DEF Refuse, Move
<1>6. CASE Add(c)
  BY <1>6 DEF Add, Move
<1>7. CASE Upgrade(c)
  BY <1>7 DEF Upgrade, Move
<1>8. CASE UpgradeFails(c)
  BY <1>8 DEF UpgradeFails, Move
<1>9. CASE Handshake(c)
  BY <1>9 DEF Handshake, Move
<1>10. CASE HandshakeFails(c)
  BY <1>10 DEF HandshakeFails, Move
<1>11. CASE Enqueue(c)
  BY <1>11 DEF Enqueue, Move
<1>12. CASE UnregisterWaiting(c)
  BY <1>12, RemoveAtIs DEF UnregisterWaiting
<1>13. CASE UnregisterStarted(c)
  BY <1>13 DEF UnregisterStarted, Move
<1>14. CASE Release(c)
  BY <1>14 DEF Release, Move
<1>15. CASE CloseIdle(c)
  BY <1>15 DEF CloseIdle, Move
<1>16. CASE FeedInput(c)
  BY <1>16 DEF FeedInput
<1>17. CASE FeedTaken(c)
  BY <1>17 DEF FeedTaken, FeedReturns
<1>18. CASE FeedFails(c)
  BY <1>18 DEF FeedFails, FeedReturns
<1>19. CASE UnregisterHangs(c)
  BY <1>19 DEF UnregisterHangs
<1> QED
  BY <1>1, <1>2, <1>3, <1>4, <1>5, <1>6, <1>7, <1>8, <1>9, <1>10, <1>11, <1>12, <1>13,
     <1>14, <1>15, <1>16, <1>17, <1>18, <1>19
     DEF HandlerStep, Client, WebSocketHandler, processConnection

\* Every step does.
LEMMA TaskTypesStay ==
  ASSUME TaskTypes, Slot, [Next]_vars
  PROVE  TaskTypes'
<1>1. CASE ServerStep
  BY <1>1, TaskTypesStep
<1>2. ASSUME NEW c \in Conns, HandlerStep(c) PROVE TaskTypes'
  BY <1>2, TaskTypesMove
<1>3. CASE UNCHANGED vars
  BY <1>3 DEF vars, TaskTypes, taskVars, queueVars, lockVars
<1> QED
  BY <1>1, <1>2, <1>3, StepKinds

\* The connections stay at their places.
LEMMA ConnTypesMove ==
  ASSUME ConnTypes, NEW c \in Conns, HandlerStep(c)
  PROVE  ConnTypes'
<1> USE DEF ConnTypes, Places, Counted, connVars
<1>1. CASE Accept(c)
  BY <1>1 DEF Accept, Move
<1>2. CASE Request(c)
  BY <1>2 DEF Request, Move
<1>3. CASE RouterEnds(c)
  BY <1>3 DEF RouterEnds, Move
<1>4. CASE Load(c)
  <2>1. Cardinality(At({"add"})) \in Nat
    BY NumberNat DEF Number, At
  <2> QED
    BY <1>4, <2>1 DEF Load, Move, Larger
<1>5. CASE Refuse(c)
  BY <1>5 DEF Refuse, Move
<1>6. CASE Add(c)
  BY <1>6 DEF Add, Move
<1>7. CASE Upgrade(c)
  BY <1>7 DEF Upgrade, Move
<1>8. CASE UpgradeFails(c)
  BY <1>8 DEF UpgradeFails, Move
<1>9. CASE Handshake(c)
  BY <1>9 DEF Handshake, Move
<1>10. CASE HandshakeFails(c)
  BY <1>10 DEF HandshakeFails, Move
<1>11. CASE Enqueue(c)
  BY <1>11 DEF Enqueue, Move
<1>12. CASE UnregisterWaiting(c)
  BY <1>12 DEF UnregisterWaiting, Move
<1>13. CASE UnregisterStarted(c)
  BY <1>13 DEF UnregisterStarted, Move
<1>14. CASE Release(c)
  BY <1>14 DEF Release, Move
<1>15. CASE CloseIdle(c)
  BY <1>15 DEF CloseIdle, Move
<1>16. CASE FeedInput(c)
  BY <1>16 DEF FeedInput
<1>17. CASE FeedTaken(c)
  BY <1>17 DEF FeedTaken, FeedReturns
<1>18. CASE FeedFails(c)
  BY <1>18 DEF FeedFails, FeedReturns
<1>19. CASE UnregisterHangs(c)
  BY <1>19 DEF UnregisterHangs
<1> QED
  BY <1>1, <1>2, <1>3, <1>4, <1>5, <1>6, <1>7, <1>8, <1>9, <1>10, <1>11, <1>12, <1>13,
     <1>14, <1>15, <1>16, <1>17, <1>18, <1>19
     DEF HandlerStep, Client, WebSocketHandler, processConnection

\* Every step leaves them there.
LEMMA ConnTypesStay ==
  ASSUME ConnTypes, [Next]_vars
  PROVE  ConnTypes'
<1>1. CASE ServerStep
  BY <1>1, ServerFrame DEF ConnTypes, connVars
<1>2. ASSUME NEW c \in Conns, HandlerStep(c) PROVE ConnTypes'
  BY <1>2, ConnTypesMove
<1>3. CASE UNCHANGED vars
  BY <1>3 DEF vars, ConnTypes, connVars
<1> QED
  BY <1>1, <1>2, <1>3, StepKinds

\* The Worker fills the active slot when it starts a run and clears it at its end.
LEMMA SlotStep ==
  ASSUME TaskTypes, Slot, ServerStep
  PROVE  Slot'
<1> USE DEF TaskTypes, Slot, Busy, taskVars, queueVars, lockVars
<1>1. CASE startWorker
  BY <1>1 DEF startWorker
<1>2. CASE AssignServer
  BY <1>2 DEF AssignServer
<1>3. CASE Listen
  BY <1>3 DEF Listen
<1>4. CASE ServerClosed
  BY <1>4 DEF ServerClosed
<1>5. CASE ListenFails
  BY <1>5 DEF ListenFails
<1>6. CASE Dequeue
  BY <1>6, TailIs, ServerConstantsOK DEF Dequeue, ServerConstantsOK
<1>7. CASE DequeueEmpty
  BY <1>7 DEF DequeueEmpty
<1>8. CASE DequeueWake
  BY <1>8 DEF DequeueWake
<1>9. CASE DelayOver
  BY <1>9 DEF DelayOver
<1>10. CASE WorkerExit
  BY <1>10 DEF WorkerExit
<1>11. CASE CommandEnds
  BY <1>11 DEF CommandEnds
<1>12. CASE Signal
  BY <1>12 DEF Signal
<1>13. CASE Expire
  BY <1>13 DEF Expire
<1>14. CASE HTTPShutdown
  BY <1>14 DEF HTTPShutdown
<1>15. CASE HTTPShutdownFails
  BY <1>15 DEF HTTPShutdownFails
<1>16. CASE Cancel
  BY <1>16 DEF Cancel
<1>17. CASE Wait
  BY <1>17 DEF Wait
<1>18. CASE QueueShutdown
  BY <1>18 DEF QueueShutdown
<1>19. CASE prepareCommand
  BY <1>19 DEF prepareCommand
<1>20. CASE StartCommand
  BY <1>20 DEF StartCommand
<1>21. CASE StartFails
  BY <1>21 DEF StartFails
<1>22. CASE startHealthCheck
  BY <1>22 DEF startHealthCheck
<1>23. CASE StopHealthCheck
  BY <1>23 DEF StopHealthCheck
<1>24. CASE StopHealthReturns
  BY <1>24 DEF StopHealthReturns
<1>25. CASE HealthHangs
  BY <1>25 DEF HealthHangs
<1>26. CASE CloseMsgChan
  BY <1>26 DEF CloseMsgChan
<1>27. CASE CompleteActive
  BY <1>27 DEF CompleteActive
<1> QED
  BY <1>1, <1>2, <1>3, <1>4, <1>5, <1>6, <1>7, <1>8, <1>9, <1>10, <1>11, <1>12, <1>13,
     <1>14, <1>15, <1>16, <1>17, <1>18, <1>19, <1>20, <1>21, <1>22, <1>23, <1>24, <1>25,
     <1>26, <1>27
     DEF ServerStep, Start, Worker, Run

\* Every step agrees.
LEMMA SlotStay ==
  ASSUME TaskTypes, Slot, [Next]_vars
  PROVE  Slot'
<1>1. CASE ServerStep
  BY <1>1, SlotStep
<1>2. ASSUME NEW c \in Conns, HandlerStep(c) PROVE Slot'
  BY <1>2, HandlerFrame DEF Slot, controlVars
<1>3. CASE UNCHANGED vars
  BY <1>3 DEF vars, Slot, taskVars, queueVars, lockVars
<1> QED
  BY <1>1, <1>2, <1>3, StepKinds

-----------------------------------------------------------------------------
(* The counter. *)

\* CountExact and AdmissionBound, in terms of Number.
CountIs == activeConn = Number(conn, Counted)

BoundIs ==
  activeConn + Number(conn, {"add"}) > 0 =>
    activeConn + Number(conn, {"add"}) < MaxConn + peak

\* A move that neither adds to nor takes from the handlers admitted.
QuietMove(c) ==
  /\ UNCHANGED <<activeConn, peak>>
  /\ \E y \in Places :
       /\ conn' = [conn EXCEPT ![c] = y]
       /\ conn[c] \in Counted <=> y \in Counted
       /\ conn[c] # "add" /\ y # "add"

\* A handler is admitted by Load, counted by Add and discounted by Release only.
LEMMA MoveKinds ==
  ASSUME ConnTypes, NEW c \in Conns, HandlerStep(c)
  PROVE  Load(c) \/ Add(c) \/ Release(c) \/ QuietMove(c) \/ UNCHANGED connVars
<1> USE DEF QuietMove, ConnTypes, Places, Counted, connVars
<1>1. CASE Accept(c)
  BY <1>1 DEF Accept, Move
<1>2. CASE Request(c)
  BY <1>2 DEF Request, Move
<1>3. CASE RouterEnds(c)
  BY <1>3 DEF RouterEnds, Move
<1>4. CASE Load(c)
  BY <1>4 DEF Load
<1>5. CASE Refuse(c)
  BY <1>5 DEF Refuse, Move
<1>6. CASE Add(c)
  BY <1>6 DEF Add
<1>7. CASE Upgrade(c)
  BY <1>7 DEF Upgrade, Move
<1>8. CASE UpgradeFails(c)
  BY <1>8 DEF UpgradeFails, Move
<1>9. CASE Handshake(c)
  BY <1>9 DEF Handshake, Move
<1>10. CASE HandshakeFails(c)
  BY <1>10 DEF HandshakeFails, Move
<1>11. CASE Enqueue(c)
  BY <1>11 DEF Enqueue, Move
<1>12. CASE UnregisterWaiting(c)
  BY <1>12 DEF UnregisterWaiting, Move
<1>13. CASE UnregisterStarted(c)
  BY <1>13 DEF UnregisterStarted, Move
<1>14. CASE Release(c)
  BY <1>14 DEF Release
<1>15. CASE CloseIdle(c)
  BY <1>15 DEF CloseIdle, Move
<1>16. CASE FeedInput(c)
  BY <1>16 DEF FeedInput
<1>17. CASE FeedTaken(c)
  BY <1>17 DEF FeedTaken, FeedReturns
<1>18. CASE FeedFails(c)
  BY <1>18 DEF FeedFails, FeedReturns
<1>19. CASE UnregisterHangs(c)
  BY <1>19 DEF UnregisterHangs
<1> QED
  BY <1>1, <1>2, <1>3, <1>4, <1>5, <1>6, <1>7, <1>8, <1>9, <1>10, <1>11, <1>12, <1>13,
     <1>14, <1>15, <1>16, <1>17, <1>18, <1>19
     DEF HandlerStep, Client, WebSocketHandler, processConnection

\* What a move changes in the number at some place.
LEMMA MoveCounts ==
  ASSUME ConnTypes, NEW c \in Conns, NEW y, conn' = [conn EXCEPT ![c] = y], NEW S
  PROVE  /\ conn[c] \notin S /\ y \in S => Number(conn', S) = Number(conn, S) + 1
         /\ conn[c] \in S /\ y \notin S => Number(conn', S) = Number(conn, S) - 1
         /\ conn[c] \in S /\ y \in S => Number(conn', S) = Number(conn, S)
         /\ conn[c] \notin S /\ y \notin S => Number(conn', S) = Number(conn, S)
<1>1. \A d \in Conns : d # c => conn'[d] = conn[d]
  BY DEF ConnTypes
<1>2. conn'[c] = y
  BY DEF ConnTypes
<1>3. conn[c] \notin S /\ y \in S => Number(conn', S) = Number(conn, S) + 1
  BY <1>1, <1>2, NumberUp
<1>4. conn[c] \in S /\ y \notin S => Number(conn', S) = Number(conn, S) - 1
  BY <1>1, <1>2, NumberDown
<1>5. ASSUME conn[c] \in S /\ y \in S PROVE Number(conn', S) = Number(conn, S)
  <2>1. \A d \in Conns : conn'[d] \in S <=> conn[d] \in S
    BY <1>1, <1>2, <1>5
  <2> QED
    BY <2>1, NumberStays
<1>6. ASSUME conn[c] \notin S /\ y \notin S PROVE Number(conn', S) = Number(conn, S)
  <2>1. \A d \in Conns : conn'[d] \in S <=> conn[d] \in S
    BY <1>1, <1>2, <1>6
  <2> QED
    BY <2>1, NumberStays
<1> QED
  BY <1>3, <1>4, <1>5, <1>6

\* A step of a handler leaves the counter exact and the bound kept.
LEMMA CountMove ==
  ASSUME ConnTypes, CountIs, BoundIs, NEW c \in Conns, HandlerStep(c)
  PROVE  CountIs' /\ BoundIs'
<1> DEFINE admitted == activeConn' + Number(conn', {"add"})
<1> SUFFICES /\ activeConn' = Number(conn', Counted)
             /\ admitted > 0 => admitted < MaxConn + peak'
  BY DEF CountIs, BoundIs, Number
<1>0. /\ Number(conn, {"add"}) \in Nat /\ Number(conn, Counted) \in Nat /\ MaxConn \in Int
      /\ "add" \notin Counted /\ "load" \notin Counted /\ "upgrade" \in Counted
      /\ "failed" \in Counted /\ "release" \in Counted /\ "done" \notin Counted
  BY NumberNat, ServerConstantsOK DEF ServerConstantsOK, Counted
<1>1. CASE Load(c)
  <2>1. conn' = [conn EXCEPT ![c] = "add"] /\ conn[c] = "load" /\ activeConn' = activeConn
    BY <1>1 DEF Load, Move
  <2>2. Number(conn', {"add"}) = Number(conn, {"add"}) + 1
    <3> DEFINE S == {"add"}
    <3>1. conn[c] \notin S /\ "add" \in S
      BY <2>1
    <3> HIDE DEF S
    <3>2. Number(conn', S) = Number(conn, S) + 1
      BY <2>1, <3>1, MoveCounts
    <3> QED
      BY <3>2 DEF S
  <2>3. Number(conn', Counted) = Number(conn, Counted)
    <3>1. conn[c] \notin Counted /\ "add" \notin Counted
      BY <1>0, <2>1
    <3> QED
      BY <2>1, <3>1, MoveCounts
  <2>4. activeConn < MaxConn /\ peak' \in Nat /\ peak' >= Number(conn, {"add"}) + 1
    BY <1>0, <1>1 DEF ConnTypes, Load, Larger, Number, At
  <2> QED
    BY <1>0, <2>1, <2>2, <2>3, <2>4 DEF ConnTypes, CountIs, BoundIs
<1>2. CASE Add(c)
  <2>1. /\ conn' = [conn EXCEPT ![c] = "upgrade"] /\ conn[c] = "add"
        /\ activeConn' = activeConn + 1 /\ peak' = peak
    BY <1>2 DEF Add, Move
  <2>2. Number(conn', {"add"}) = Number(conn, {"add"}) - 1
    <3> DEFINE S == {"add"}
    <3>1. conn[c] \in S /\ "upgrade" \notin S
      BY <2>1
    <3> HIDE DEF S
    <3>2. Number(conn', S) = Number(conn, S) - 1
      BY <2>1, <3>1, MoveCounts
    <3> QED
      BY <3>2 DEF S
  <2>3. Number(conn', Counted) = Number(conn, Counted) + 1
    BY <1>0, <2>1, MoveCounts
  <2> QED
    BY <1>0, <2>1, <2>2, <2>3 DEF ConnTypes, CountIs, BoundIs
<1>3. CASE Release(c)
  <2>1. /\ conn' = [conn EXCEPT ![c] = "done"] /\ conn[c] \in {"release", "failed"}
        /\ activeConn' = activeConn - 1 /\ peak' = peak
    BY <1>3 DEF Release, Move
  <2>2. Number(conn', {"add"}) = Number(conn, {"add"})
    <3> DEFINE S == {"add"}
    <3>1. conn[c] \notin S /\ "done" \notin S
      BY <2>1
    <3> HIDE DEF S
    <3>2. Number(conn', S) = Number(conn, S)
      BY <2>1, <3>1, MoveCounts
    <3> QED
      BY <3>2 DEF S
  <2>3. Number(conn', Counted) = Number(conn, Counted) - 1
    BY <1>0, <2>1, MoveCounts
  <2> QED
    BY <1>0, <2>1, <2>2, <2>3 DEF ConnTypes, CountIs, BoundIs
<1>4. CASE QuietMove(c)
  <2>1. PICK y \in Places :
          /\ conn' = [conn EXCEPT ![c] = y]
          /\ conn[c] \in Counted <=> y \in Counted
          /\ conn[c] # "add" /\ y # "add"
    BY <1>4 DEF QuietMove
  <2>2. Number(conn', {"add"}) = Number(conn, {"add"})
    <3> DEFINE S == {"add"}
    <3>1. conn[c] \notin S /\ y \notin S
      BY <2>1
    <3> HIDE DEF S
    <3>2. Number(conn', S) = Number(conn, S)
      BY <2>1, <3>1, MoveCounts
    <3> QED
      BY <3>2 DEF S
  <2>3. Number(conn', Counted) = Number(conn, Counted)
    BY <2>1, MoveCounts
  <2> QED
    BY <1>4, <2>2, <2>3 DEF QuietMove, CountIs, BoundIs
<1>5. CASE UNCHANGED connVars
  BY <1>5 DEF connVars, CountIs, BoundIs
<1> QED
  BY <1>1, <1>2, <1>3, <1>4, <1>5, MoveKinds

\* Every step leaves the counter exact and the bound kept.
LEMMA CountStay ==
  ASSUME ConnTypes, CountIs, BoundIs, [Next]_vars
  PROVE  (CountIs /\ BoundIs)'
<1>1. CASE ServerStep
  BY <1>1, ServerFrame DEF CountIs, BoundIs, Number, connVars
<1>2. ASSUME NEW c \in Conns, HandlerStep(c) PROVE (CountIs /\ BoundIs)'
  BY <1>2, CountMove
<1>3. CASE UNCHANGED vars
  BY <1>3 DEF vars, CountIs, BoundIs, Number, connVars
<1> QED
  BY <1>1, <1>2, <1>3, StepKinds

-----------------------------------------------------------------------------
(* Shutdown and the Worker. *)

\* A Shutdown that found the server waits for a Worker that was started, and the
\* server takes no new connection.
Control ==
  /\ Slot
  /\ worker = "none" => start = "worker"
  /\ seenSrv => start \notin {"worker", "assign"} /\ inShutdown
  /\ main \in {"queue", "returned"} /\ seenSrv => worker = "exited"

\* The Worker, Start and Shutdown keep it.
LEMMA ControlStep ==
  ASSUME ShutdownTypes, TaskTypes, Control, ServerStep
  PROVE  Control'
<1>0. TaskTypes /\ Slot
  BY DEF Control
<1> USE DEF Control, ShutdownTypes, taskVars, queueVars, lockVars, shutVars
<1>1. CASE startWorker
  BY <1>1, SlotStep DEF startWorker
<1>2. CASE AssignServer
  BY <1>2, SlotStep DEF AssignServer
<1>3. CASE Listen
  BY <1>3, SlotStep DEF Listen
<1>4. CASE ServerClosed
  BY <1>4, SlotStep DEF ServerClosed
<1>5. CASE ListenFails
  BY <1>5, SlotStep DEF ListenFails
<1>6. CASE Dequeue
  BY <1>6, SlotStep DEF Dequeue
<1>7. CASE DequeueEmpty
  BY <1>7, SlotStep DEF DequeueEmpty
<1>8. CASE DequeueWake
  BY <1>8, SlotStep DEF DequeueWake
<1>9. CASE DelayOver
  BY <1>9, SlotStep DEF DelayOver
<1>10. CASE WorkerExit
  BY <1>10, SlotStep DEF WorkerExit
<1>11. CASE CommandEnds
  BY <1>11, SlotStep DEF CommandEnds
<1>12. CASE Signal
  BY <1>12, SlotStep DEF Signal
<1>13. CASE Expire
  BY <1>13, SlotStep DEF Expire
<1>14. CASE HTTPShutdown
  BY <1>14, SlotStep DEF HTTPShutdown
<1>15. CASE HTTPShutdownFails
  BY <1>15, SlotStep DEF HTTPShutdownFails
<1>16. CASE Cancel
  BY <1>16, SlotStep DEF Cancel
<1>17. CASE Wait
  BY <1>17, SlotStep DEF Wait
<1>18. CASE QueueShutdown
  BY <1>18, SlotStep DEF QueueShutdown
<1>19. CASE prepareCommand
  BY <1>19, SlotStep DEF prepareCommand
<1>20. CASE StartCommand
  BY <1>20, SlotStep DEF StartCommand
<1>21. CASE StartFails
  BY <1>21, SlotStep DEF StartFails
<1>22. CASE startHealthCheck
  BY <1>22, SlotStep DEF startHealthCheck
<1>23. CASE StopHealthCheck
  BY <1>23, SlotStep DEF StopHealthCheck
<1>24. CASE StopHealthReturns
  BY <1>24, SlotStep DEF StopHealthReturns
<1>25. CASE HealthHangs
  BY <1>25, SlotStep DEF HealthHangs
<1>26. CASE CloseMsgChan
  BY <1>26, SlotStep DEF CloseMsgChan
<1>27. CASE CompleteActive
  BY <1>27, SlotStep DEF CompleteActive
<1> QED
  BY <1>1, <1>2, <1>3, <1>4, <1>5, <1>6, <1>7, <1>8, <1>9, <1>10, <1>11, <1>12, <1>13,
     <1>14, <1>15, <1>16, <1>17, <1>18, <1>19, <1>20, <1>21, <1>22, <1>23, <1>24, <1>25,
     <1>26, <1>27
     DEF ServerStep, Start, Worker, Run

\* Every step keeps it.
LEMMA ControlStay ==
  ASSUME ShutdownTypes, TaskTypes, Control, [Next]_vars
  PROVE  Control'
<1>1. CASE ServerStep
  BY <1>1, ControlStep
<1>2. ASSUME NEW c \in Conns, HandlerStep(c) PROVE Control'
  BY <1>2, HandlerFrame DEF Control, Slot, controlVars, shutVars
<1>3. CASE UNCHANGED vars
  BY <1>3 DEF vars, Control, Slot, shutVars, taskVars, queueVars, lockVars
<1> QED
  BY <1>1, <1>2, <1>3, StepKinds

\* Once http.Server.Shutdown has returned nil, the HTTP server has no connection.
Answered ==
  main \in {"cancel", "wait", "queue", "returned"} /\ seenSrv /\ ~err =>
    \A c \in Conns : conn[c] \notin Plain

\* Only http.Server.Shutdown brings it about.
LEMMA AnsweredStep ==
  ASSUME Answered, ServerStep
  PROVE  Answered'
<1> USE DEF Answered, shutVars, connVars
<1>1. CASE startWorker
  BY <1>1 DEF startWorker
<1>2. CASE AssignServer
  BY <1>2 DEF AssignServer
<1>3. CASE Listen
  BY <1>3 DEF Listen
<1>4. CASE ServerClosed
  BY <1>4 DEF ServerClosed
<1>5. CASE ListenFails
  BY <1>5 DEF ListenFails
<1>6. CASE Dequeue
  BY <1>6 DEF Dequeue
<1>7. CASE DequeueEmpty
  BY <1>7 DEF DequeueEmpty
<1>8. CASE DequeueWake
  BY <1>8 DEF DequeueWake
<1>9. CASE DelayOver
  BY <1>9 DEF DelayOver
<1>10. CASE WorkerExit
  BY <1>10 DEF WorkerExit
<1>11. CASE CommandEnds
  BY <1>11 DEF CommandEnds
<1>12. CASE Signal
  BY <1>12 DEF Signal
<1>13. CASE Expire
  BY <1>13 DEF Expire
<1>14. CASE HTTPShutdown
  BY <1>14 DEF HTTPShutdown, At
<1>15. CASE HTTPShutdownFails
  BY <1>15 DEF HTTPShutdownFails
<1>16. CASE Cancel
  BY <1>16 DEF Cancel
<1>17. CASE Wait
  BY <1>17 DEF Wait
<1>18. CASE QueueShutdown
  BY <1>18 DEF QueueShutdown
<1>19. CASE prepareCommand
  BY <1>19 DEF prepareCommand
<1>20. CASE StartCommand
  BY <1>20 DEF StartCommand
<1>21. CASE StartFails
  BY <1>21 DEF StartFails
<1>22. CASE startHealthCheck
  BY <1>22 DEF startHealthCheck
<1>23. CASE StopHealthCheck
  BY <1>23 DEF StopHealthCheck
<1>24. CASE StopHealthReturns
  BY <1>24 DEF StopHealthReturns
<1>25. CASE HealthHangs
  BY <1>25 DEF HealthHangs
<1>26. CASE CloseMsgChan
  BY <1>26 DEF CloseMsgChan
<1>27. CASE CompleteActive
  BY <1>27 DEF CompleteActive
<1> QED
  BY <1>1, <1>2, <1>3, <1>4, <1>5, <1>6, <1>7, <1>8, <1>9, <1>10, <1>11, <1>12, <1>13,
     <1>14, <1>15, <1>16, <1>17, <1>18, <1>19, <1>20, <1>21, <1>22, <1>23, <1>24, <1>25,
     <1>26, <1>27
     DEF ServerStep, Start, Worker, Run

\* No handler goes back, and no connection is accepted any more.
LEMMA AnsweredMove ==
  ASSUME ConnTypes, Control, Answered, NEW c \in Conns, HandlerStep(c)
  PROVE  Answered'
<1> USE DEF Answered, ConnTypes, Control, Plain, shutVars, connVars
<1>1. CASE Accept(c)
  BY <1>1 DEF Accept, Move
<1>2. CASE Request(c)
  BY <1>2 DEF Request, Move
<1>3. CASE RouterEnds(c)
  BY <1>3 DEF RouterEnds, Move
<1>4. CASE Load(c)
  BY <1>4 DEF Load, Move
<1>5. CASE Refuse(c)
  BY <1>5 DEF Refuse, Move
<1>6. CASE Add(c)
  BY <1>6 DEF Add, Move
<1>7. CASE Upgrade(c)
  BY <1>7 DEF Upgrade, Move
<1>8. CASE UpgradeFails(c)
  BY <1>8 DEF UpgradeFails, Move
<1>9. CASE Handshake(c)
  BY <1>9 DEF Handshake, Move
<1>10. CASE HandshakeFails(c)
  BY <1>10 DEF HandshakeFails, Move
<1>11. CASE Enqueue(c)
  BY <1>11 DEF Enqueue, Move
<1>12. CASE UnregisterWaiting(c)
  BY <1>12 DEF UnregisterWaiting, Move
<1>13. CASE UnregisterStarted(c)
  BY <1>13 DEF UnregisterStarted, Move
<1>14. CASE Release(c)
  BY <1>14 DEF Release, Move
<1>15. CASE CloseIdle(c)
  BY <1>15 DEF CloseIdle, Move
<1>16. CASE FeedInput(c)
  BY <1>16 DEF FeedInput
<1>17. CASE FeedTaken(c)
  BY <1>17 DEF FeedTaken, FeedReturns
<1>18. CASE FeedFails(c)
  BY <1>18 DEF FeedFails, FeedReturns
<1>19. CASE UnregisterHangs(c)
  BY <1>19 DEF UnregisterHangs
<1> QED
  BY <1>1, <1>2, <1>3, <1>4, <1>5, <1>6, <1>7, <1>8, <1>9, <1>10, <1>11, <1>12, <1>13,
     <1>14, <1>15, <1>16, <1>17, <1>18, <1>19
     DEF HandlerStep, Client, WebSocketHandler, processConnection

\* Every step keeps it.
LEMMA AnsweredStay ==
  ASSUME ConnTypes, Control, Answered, [Next]_vars
  PROVE  Answered'
<1>1. CASE ServerStep
  BY <1>1, AnsweredStep
<1>2. ASSUME NEW c \in Conns, HandlerStep(c) PROVE Answered'
  BY <1>2, AnsweredMove
<1>3. CASE UNCHANGED vars
  BY <1>3 DEF vars, Answered, shutVars, connVars
<1> QED
  BY <1>1, <1>2, <1>3, StepKinds

-----------------------------------------------------------------------------
(* Where the tasks are. *)

\* What the operations on the queue keep.
LEMMA AppendKeeps ==
  ASSUME NEW S, NEW q \in Seq(S), NEW e \in S
  PROVE  ToSet(q) \cup {e} \subseteq ToSet(Append(q, e))
<1>1. /\ \A i \in DOMAIN q : i \in DOMAIN Append(q, e) /\ Append(q, e)[i] = q[i]
      /\ Len(q) + 1 \in DOMAIN Append(q, e) /\ Append(q, e)[Len(q) + 1] = e
  OBVIOUS
<1> QED
  BY <1>1 DEF ToSet

LEMMA TailKeeps ==
  ASSUME NEW S, NEW q \in Seq(S), q # <<>>
  PROVE  ToSet(q) \subseteq ToSet(Tail(q)) \cup {Head(q)}
<1>1. /\ \A i \in DOMAIN q : i = 1 \/ (i - 1 \in DOMAIN Tail(q) /\ Tail(q)[i - 1] = q[i])
      /\ Head(q) = q[1]
  BY TailIs
<1> QED
  BY <1>1 DEF ToSet

LEMMA RemoveAtKeeps ==
  ASSUME NEW S, NEW q \in Seq(S), NEW k \in DOMAIN q
  PROVE  ToSet(q) \subseteq ToSet(RemoveAt(q, k)) \cup {q[k]}
<1> DEFINE r == RemoveAt(q, k)
<1>0. /\ r \in Seq(S) /\ Len(r) = Len(q) - 1
      /\ \A i \in 1..(Len(q) - 1) : r[i] = IF i < k THEN q[i] ELSE q[i + 1]
  BY RemoveAtIs
<1>1. /\ DOMAIN r = 1..(Len(q) - 1)
      /\ DOMAIN q = 1..Len(q)
      /\ Len(q) \in Nat
      /\ \A i \in 1..(Len(q) - 1) : r[i] = IF i < k THEN q[i] ELSE q[i + 1]
  <2> HIDE DEF r
  <2> QED
    BY <1>0
<1> HIDE DEF r
<1>2. ASSUME NEW i \in DOMAIN q, i # k PROVE q[i] \in ToSet(r)
  <2>1. CASE i < k
    <3>1. i \in DOMAIN r /\ r[i] = q[i]
      BY <1>1, <2>1
    <3> QED
      BY <3>1 DEF ToSet
  <2>2. CASE i > k
    <3>1. i - 1 \in DOMAIN r /\ r[i - 1] = q[i]
      BY <1>1, <2>2
    <3> QED
      BY <3>1 DEF ToSet
  <2> QED
    BY <1>1, <1>2, <2>1, <2>2
<1> QED
  BY <1>2 DEF ToSet, r

\* A task that was enqueued waits, or is run, or has ended; the Worker closes the channel
\* before it gives up the slot.
Placed ==
  /\ \A c \in Conns : conn[c] \in {"route", "unregister"} =>
       c \in ToSet(queue) \/ c = active \/ c \in ended
  /\ worker = "complete" => active \in ended

\* The Worker takes a task from the queue to its end, and Shutdown ends the queue.
LEMMA PlacedStep ==
  ASSUME TaskTypes, Control, Placed, ServerStep
  PROVE  Placed'
<1> USE DEF Placed, connVars, taskVars, queueVars, lockVars
<1>1. CASE startWorker
  BY <1>1 DEF startWorker
<1>2. CASE AssignServer
  BY <1>2 DEF AssignServer
<1>3. CASE Listen
  BY <1>3 DEF Listen
<1>4. CASE ServerClosed
  BY <1>4 DEF ServerClosed
<1>5. CASE ListenFails
  BY <1>5 DEF ListenFails
<1>6. CASE Dequeue
  <2>1. ToSet(queue) \subseteq ToSet(queue') \cup {active'}
    BY <1>6, TailKeeps DEF Dequeue, TaskTypes
  <2>2. active = NoConn
    BY <1>6 DEF Dequeue, Control, Slot, Busy
  <2> QED
    BY <1>6, <2>1, <2>2, ServerConstantsOK DEF Dequeue, ServerConstantsOK
<1>7. CASE DequeueEmpty
  BY <1>7 DEF DequeueEmpty
<1>8. CASE DequeueWake
  BY <1>8 DEF DequeueWake
<1>9. CASE DelayOver
  BY <1>9 DEF DelayOver
<1>10. CASE WorkerExit
  BY <1>10 DEF WorkerExit
<1>11. CASE CommandEnds
  BY <1>11 DEF CommandEnds
<1>12. CASE Signal
  BY <1>12 DEF Signal
<1>13. CASE Expire
  BY <1>13 DEF Expire
<1>14. CASE HTTPShutdown
  BY <1>14 DEF HTTPShutdown
<1>15. CASE HTTPShutdownFails
  BY <1>15 DEF HTTPShutdownFails
<1>16. CASE Cancel
  BY <1>16 DEF Cancel
<1>17. CASE Wait
  BY <1>17 DEF Wait
<1>18. CASE QueueShutdown
  BY <1>18 DEF QueueShutdown
<1>19. CASE prepareCommand
  BY <1>19 DEF prepareCommand
<1>20. CASE StartCommand
  BY <1>20 DEF StartCommand
<1>21. CASE StartFails
  BY <1>21 DEF StartFails
<1>22. CASE startHealthCheck
  BY <1>22 DEF startHealthCheck
<1>23. CASE StopHealthCheck
  BY <1>23 DEF StopHealthCheck
<1>24. CASE StopHealthReturns
  BY <1>24 DEF StopHealthReturns
<1>25. CASE HealthHangs
  BY <1>25 DEF HealthHangs
<1>26. CASE CloseMsgChan
  BY <1>26 DEF CloseMsgChan
<1>27. CASE CompleteActive
  BY <1>27 DEF CompleteActive
<1> QED
  BY <1>1, <1>2, <1>3, <1>4, <1>5, <1>6, <1>7, <1>8, <1>9, <1>10, <1>11, <1>12, <1>13,
     <1>14, <1>15, <1>16, <1>17, <1>18, <1>19, <1>20, <1>21, <1>22, <1>23, <1>24, <1>25,
     <1>26, <1>27
     DEF ServerStep, Start, Worker, Run

\* A handler puts its task in the queue, and takes it out when it ends the task.
LEMMA PlacedMove ==
  ASSUME TaskTypes, ConnTypes, Placed, NEW c \in Conns, HandlerStep(c)
  PROVE  Placed'
<1> USE DEF Placed, connVars, taskVars, queueVars, lockVars
<1>1. CASE Accept(c)
  BY <1>1 DEF Accept, Move, ConnTypes
<1>2. CASE Request(c)
  BY <1>2 DEF Request, Move, ConnTypes
<1>3. CASE RouterEnds(c)
  BY <1>3 DEF RouterEnds, Move, ConnTypes
<1>4. CASE Load(c)
  BY <1>4 DEF Load, Move, ConnTypes
<1>5. CASE Refuse(c)
  BY <1>5 DEF Refuse, Move, ConnTypes
<1>6. CASE Add(c)
  BY <1>6 DEF Add, Move, ConnTypes
<1>7. CASE Upgrade(c)
  BY <1>7 DEF Upgrade, Move, ConnTypes
<1>8. CASE UpgradeFails(c)
  BY <1>8 DEF UpgradeFails, Move, ConnTypes
<1>9. CASE Handshake(c)
  BY <1>9 DEF Handshake, Move, ConnTypes
<1>10. CASE HandshakeFails(c)
  BY <1>10 DEF HandshakeFails, Move, ConnTypes
<1>11. CASE Enqueue(c)
  <2>1. ToSet(queue) \cup {c} \subseteq ToSet(queue')
    BY <1>11, AppendKeeps DEF Enqueue, TaskTypes
  <2>2. \A d \in Conns : d # c => conn'[d] = conn[d]
    BY <1>11 DEF Enqueue, Move, ConnTypes
  <2> QED
    BY <1>11, <2>1, <2>2 DEF Enqueue
<1>12. CASE UnregisterWaiting(c)
  <2>1. ToSet(queue) \subseteq ToSet(queue') \cup {c}
    BY <1>12, RemoveAtKeeps DEF UnregisterWaiting, TaskTypes
  <2>2. \A d \in Conns : d # c => conn'[d] = conn[d]
    BY <1>12 DEF UnregisterWaiting, Move, ConnTypes
  <2> QED
    BY <1>12, <2>1, <2>2 DEF UnregisterWaiting
<1>13. CASE UnregisterStarted(c)
  BY <1>13 DEF UnregisterStarted, Move, ConnTypes
<1>14. CASE Release(c)
  BY <1>14 DEF Release, Move, ConnTypes
<1>15. CASE CloseIdle(c)
  BY <1>15 DEF CloseIdle, Move, ConnTypes
<1>16. CASE FeedInput(c)
  BY <1>16 DEF FeedInput, ConnTypes
<1>17. CASE FeedTaken(c)
  BY <1>17 DEF FeedTaken, FeedReturns, ConnTypes
<1>18. CASE FeedFails(c)
  BY <1>18 DEF FeedFails, FeedReturns, ConnTypes
<1>19. CASE UnregisterHangs(c)
  BY <1>19 DEF UnregisterHangs, ConnTypes
<1> QED
  BY <1>1, <1>2, <1>3, <1>4, <1>5, <1>6, <1>7, <1>8, <1>9, <1>10, <1>11, <1>12, <1>13,
     <1>14, <1>15, <1>16, <1>17, <1>18, <1>19
     DEF HandlerStep, Client, WebSocketHandler, processConnection

\* Every step leaves every task somewhere.
LEMMA PlacedStay ==
  ASSUME TaskTypes, ConnTypes, Control, Placed, [Next]_vars
  PROVE  Placed'
<1>1. CASE ServerStep
  BY <1>1, PlacedStep
<1>2. ASSUME NEW c \in Conns, HandlerStep(c) PROVE Placed'
  BY <1>2, PlacedMove
<1>3. CASE UNCHANGED vars
  BY <1>3 DEF vars, Placed, connVars, taskVars, queueVars, lockVars
<1> QED
  BY <1>1, <1>2, <1>3, StepKinds

-----------------------------------------------------------------------------
(* The inductive invariant. *)

Invariant ==
  Types /\ CountIs /\ BoundIs /\ Control /\ Answered /\ Placed

\* It holds at first ...
LEMMA InvariantInit == Init => Invariant
<1> SUFFICES ASSUME Init PROVE Invariant
  OBVIOUS
<1>1. Types
  BY InitTypes
<1>2. Number(conn, Counted) = 0 /\ Number(conn, {"add"}) = 0
  <2>1. /\ {c \in Conns : conn[c] \in Counted} = {}
        /\ {c \in Conns : conn[c] \in {"add"}} = {}
    BY DEF Init, Counted
  <2> QED
    BY <2>1, FS_EmptySet DEF Number
<1>3. CountIs /\ BoundIs
  BY <1>2 DEF Init, CountIs, BoundIs
<1>4. Control
  BY DEF Init, Control, Slot, Busy
<1>5. Answered /\ Placed
  BY DEF Init, Answered, Placed
<1> QED
  BY <1>1, <1>3, <1>4, <1>5 DEF Invariant

\* ... and every step keeps it.
LEMMA InvariantStays == Invariant /\ [Next]_vars => Invariant'
<1> SUFFICES ASSUME Invariant, [Next]_vars PROVE Invariant'
  OBVIOUS
<1>1. ShutdownTypes /\ TaskTypes /\ ConnTypes /\ Slot
  BY DEF Invariant, Types, Control
<1>2. Types'
  BY <1>1, ShutdownTypesStay, TaskTypesStay, ConnTypesStay DEF Types
<1>3. (CountIs /\ BoundIs)'
  BY <1>1, CountStay DEF Invariant
<1>4. Control'
  BY <1>1, ControlStay DEF Invariant
<1>5. Answered'
  BY <1>1, AnsweredStay DEF Invariant
<1>6. Placed'
  BY <1>1, PlacedStay DEF Invariant
<1> QED
  BY <1>2, <1>3, <1>4, <1>5, <1>6 DEF Invariant

\* So it always holds.
THEOREM InvariantHolds == Spec => []Invariant
BY InvariantInit, InvariantStays, PTL DEF Spec

-----------------------------------------------------------------------------
(* What follows from it. *)

\* The state is well typed; the counter of connections is never negative.
THEOREM TypeCorrect == Spec => []TypeOK
<1>1. Invariant => TypeOK
  <2> SUFFICES ASSUME Invariant PROVE TypeOK
    OBVIOUS
  <2>1. activeConn \in Nat
    BY NumberNat DEF Invariant, CountIs
  <2> QED
    BY <2>1 DEF Invariant, Types, ConnTypes, Places, TypeOK
<1> QED
  BY <1>1, InvariantHolds, PTL

\* Every handler that was counted and has not been discounted is counted once.
THEOREM CountIsExact == Spec => []CountExact
<1>1. Invariant => CountExact
  BY DEF Invariant, CountIs, CountExact, Number, At
<1> QED
  BY <1>1, InvariantHolds, PTL

\* The limit is exceeded by no more than the handlers between Load and Add at a time.
THEOREM AdmissionIsBounded == Spec => []AdmissionBound
<1>1. Invariant => AdmissionBound
  BY DEF Invariant, BoundIs, AdmissionBound, Number, At
<1> QED
  BY <1>1, InvariantHolds, PTL

\* A Shutdown that found the server leaves no Worker.
THEOREM NoWorkIsLeft == Spec => []NoWorkAfterShutdown
<1>1. Invariant => NoWorkAfterShutdown
  BY DEF Invariant, Control, NoWorkAfterShutdown
<1> QED
  BY <1>1, InvariantHolds, PTL

\* A Shutdown that returns nil leaves no request unanswered.
THEOREM NilIsAnswered == Spec => []NilMeansAnswered
<1>1. Invariant => NilMeansAnswered
  BY DEF Invariant, Answered, NilMeansAnswered, At
<1> QED
  BY <1>1, InvariantHolds, PTL

\* A Shutdown that returns leaves no task that was enqueued and has not ended.
THEOREM TasksAreEnded == Spec => ShutdownEndsTasks
<1> DEFINE Step == main' = "returned" /\ main # "returned" /\ seenSrv =>
                     \A c \in Conns : conn[c] \in {"route", "unregister"} => c \in ended'
<1>1. Invariant /\ [Next]_vars => [Step]_vars
  <2> SUFFICES ASSUME Invariant, Next, main' = "returned", main # "returned", seenSrv,
                      NEW c \in Conns, conn[c] \in {"route", "unregister"}
               PROVE  c \in ended'
    BY DEF vars
  <2>1. QueueShutdown
    <3>1. CASE ServerStep
      BY <3>1 DEF ServerStep, Start, startWorker, AssignServer, Listen, ServerClosed,
        ListenFails, Worker, Dequeue, DequeueEmpty, DequeueWake, DelayOver, WorkerExit,
        Run, prepareCommand, StartCommand, StartFails, startHealthCheck, StopHealthCheck,
        StopHealthReturns, CloseMsgChan, CompleteActive, CommandEnds, HealthHangs, Signal,
        Expire, HTTPShutdown, HTTPShutdownFails, Cancel, Wait, shutVars
    <3>2. ASSUME NEW d \in Conns, HandlerStep(d) PROVE FALSE
      BY <3>2, HandlerFrame DEF controlVars, shutVars
    <3> QED
      BY <3>1, <3>2, StepKinds DEF vars, shutVars
  <2>2. active = NoConn
    BY <2>1 DEF QueueShutdown, Invariant, Control, Slot, Busy
  <2>3. c \in ToSet(queue) \/ c \in ended
    BY <2>2, ServerConstantsOK DEF Invariant, Placed, ServerConstantsOK
  <2> QED
    BY <2>1, <2>3 DEF QueueShutdown
<1> QED
  BY <1>1, InvariantHolds, PTL DEF Spec, ShutdownEndsTasks

-----------------------------------------------------------------------------
(* The server keeps the promise of the task queue (TaskLifecycle). *)

\* The tasks the server has ever known: those that wait, the active one, the ended.
Known == ToSet(queue) \cup {active} \cup ended

\* Where a connection's handler has not enqueued its task yet.
Early == {"out", "accepted", "load", "add", "upgrade", "handshake", "enqueue"}

\* A task that has not been enqueued is not known: no task comes twice.
Fresh == \A c \in Conns : conn[c] \in Early => c \notin Known

\* The operations on the queue bring no other task.
LEMMA AppendBrings ==
  ASSUME NEW S, NEW q \in Seq(S), NEW e \in S
  PROVE  ToSet(Append(q, e)) \subseteq ToSet(q) \cup {e}
BY DEF ToSet

LEMMA TailBrings ==
  ASSUME NEW S, NEW q \in Seq(S), q # <<>>
  PROVE  ToSet(Tail(q)) \cup {Head(q)} \subseteq ToSet(q)
<1>1. /\ \A i \in DOMAIN Tail(q) : i + 1 \in DOMAIN q /\ Tail(q)[i] = q[i + 1]
      /\ 1 \in DOMAIN q /\ Head(q) = q[1]
  BY TailIs
<1> QED
  BY <1>1 DEF ToSet

LEMMA RemoveAtBrings ==
  ASSUME NEW S, NEW q \in Seq(S), NEW k \in DOMAIN q
  PROVE  ToSet(RemoveAt(q, k)) \subseteq ToSet(q)
<1> DEFINE r == RemoveAt(q, k)
<1>0. /\ r \in Seq(S) /\ Len(r) = Len(q) - 1
      /\ \A i \in 1..(Len(q) - 1) : r[i] = IF i < k THEN q[i] ELSE q[i + 1]
  BY RemoveAtIs
<1> HIDE DEF r
<1>1. \A i \in DOMAIN r : \E j \in DOMAIN q : r[i] = q[j]
  <2> SUFFICES ASSUME NEW i \in DOMAIN r PROVE \E j \in DOMAIN q : r[i] = q[j]
    OBVIOUS
  <2>1. i \in 1..(Len(q) - 1) /\ i \in DOMAIN q /\ i + 1 \in DOMAIN q
    BY <1>0
  <2> QED
    BY <1>0, <2>1
<1> QED
  BY <1>1 DEF ToSet, r

\* The server itself brings no task ...
LEMMA KnownStep ==
  ASSUME TaskTypes, ServerStep
  PROVE  Known' \subseteq Known \cup {NoConn}
<1> USE DEF Known, taskVars, queueVars, lockVars
<1>1. CASE Start \/ ListenFails \/ Signal \/ Expire \/ HTTPShutdown \/ HTTPShutdownFails
           \/ Cancel \/ Wait
  BY <1>1 DEF Start, startWorker, AssignServer, Listen, ServerClosed, ListenFails, Signal,
     Expire, HTTPShutdown, HTTPShutdownFails, Cancel, Wait
<1>2. CASE Dequeue
  <2>1. ToSet(queue') \cup {active'} \subseteq ToSet(queue)
    BY <1>2, TailBrings DEF Dequeue, TaskTypes
  <2> QED
    BY <1>2, <2>1 DEF Dequeue
<1>3. CASE DequeueEmpty \/ DequeueWake \/ DelayOver \/ WorkerExit
  BY <1>3 DEF DequeueEmpty, DequeueWake, DelayOver, WorkerExit
<1>4. CASE Run \/ CommandEnds \/ HealthHangs \/ CloseMsgChan \/ CompleteActive
  BY <1>4 DEF Run, prepareCommand, StartCommand, StartFails, startHealthCheck,
     StopHealthCheck, StopHealthReturns, CommandEnds, HealthHangs, CloseMsgChan,
     CompleteActive
<1>5. CASE QueueShutdown
  <2>1. ToSet(queue') = {}
    BY <1>5 DEF QueueShutdown, ToSet
  <2> QED
    BY <1>5, <2>1 DEF QueueShutdown
<1> QED
  BY <1>1, <1>2, <1>3, <1>4, <1>5 DEF ServerStep, Worker

\* ... and a handler only its own, when it enqueues it.
LEMMA KnownMove ==
  ASSUME TaskTypes, NEW c \in Conns, HandlerStep(c)
  PROVE  \/ Known' \subseteq Known
         \/ Enqueue(c) /\ Known' \subseteq Known \cup {c}
<1> USE DEF Known, taskVars, queueVars, lockVars
<1>1. CASE Enqueue(c)
  BY <1>1, AppendBrings DEF Enqueue, TaskTypes
<1>2. CASE UnregisterWaiting(c)
  <2>1. PICK i \in DOMAIN queue : queue[i] = c /\ queue' = RemoveAt(queue, i)
    BY <1>2 DEF UnregisterWaiting
  <2>2. queue \in Seq(Conns)
    BY DEF TaskTypes
  <2>3. ToSet(queue') \subseteq ToSet(queue)
    BY <2>1, <2>2, RemoveAtBrings
  <2>4. c \in ToSet(queue)
    BY <2>1 DEF ToSet
  <2> QED
    BY <1>2, <2>3, <2>4 DEF UnregisterWaiting
<1>3. CASE UnregisterStarted(c)
  BY <1>3 DEF UnregisterStarted
<1>4. CASE ~Enqueue(c) /\ ~UnregisterWaiting(c) /\ ~UnregisterStarted(c)
  BY <1>4 DEF HandlerStep, Client, WebSocketHandler, processConnection, Accept, Request,
     FeedInput, FeedReturns, FeedTaken, FeedFails, UnregisterHangs, RouterEnds, Load, Refuse, Add, Upgrade, UpgradeFails, Handshake, HandshakeFails, Release,
     CloseIdle
<1> QED
  BY <1>1, <1>2, <1>3, <1>4

\* A handler moves only its own connection, and never back.
LEMMA EarlyMove ==
  ASSUME ConnTypes, NEW c \in Conns, HandlerStep(c), NEW d \in Conns, conn'[d] \in Early
  PROVE  conn[d] \in Early /\ ~(Enqueue(c) /\ d = c)
<1> USE DEF ConnTypes, Early, Move
<1>1. CASE Client(c)
  BY <1>1 DEF Client, Accept, Request, FeedInput, FeedTaken, FeedReturns, RouterEnds, Enqueue,
     connVars
<1>2. CASE Load(c) \/ Refuse(c) \/ Add(c) \/ Upgrade(c) \/ UpgradeFails(c)
  BY <1>2 DEF Load, Refuse, Add, Upgrade, UpgradeFails, Enqueue
<1>3. CASE Handshake(c) \/ HandshakeFails(c) \/ CloseIdle(c)
  BY <1>3 DEF Handshake, HandshakeFails, CloseIdle, Enqueue
<1>4. CASE processConnection(c)
  BY <1>4 DEF processConnection, Enqueue, FeedFails, FeedReturns, UnregisterWaiting,
     UnregisterStarted, UnregisterHangs, Release, connVars
<1> QED
  BY <1>1, <1>2, <1>3, <1>4 DEF HandlerStep, WebSocketHandler

\* So no step makes a task known that was not enqueued.
LEMMA FreshStays == TaskTypes /\ ConnTypes /\ Fresh /\ [Next]_vars => Fresh'
<1> SUFFICES ASSUME TaskTypes, ConnTypes, Fresh, [Next]_vars,
                    NEW d \in Conns, conn'[d] \in Early
             PROVE  d \notin Known'
  BY DEF Fresh
<1>1. CASE ServerStep
  <2>1. UNCHANGED conn
    BY <1>1, ServerFrame DEF connVars
  <2> QED
    BY <1>1, <2>1, KnownStep, ServerConstantsOK DEF Fresh, ServerConstantsOK
<1>2. ASSUME NEW c \in Conns, HandlerStep(c) PROVE d \notin Known'
  <2>1. conn[d] \in Early /\ ~(Enqueue(c) /\ d = c)
    BY <1>2, EarlyMove
  <2> QED
    BY <1>2, <2>1, KnownMove DEF Fresh
<1>3. CASE UNCHANGED vars
  BY <1>3 DEF vars, Fresh, Known, connVars, taskVars, queueVars, lockVars
<1> QED
  BY <1>1, <1>2, <1>3, StepKinds

\* Every step of the server is a step of the lifecycle, but for the exception.
LEMMA StepLifecycle ==
  ASSUME Invariant, Fresh, [Next]_vars
  PROVE  [EndsUnderWorker \/ Lifecycle!Next]_(Lifecycle!vars)
<1>0. TaskTypes /\ Control
  BY DEF Invariant, Types
<1>s. UNCHANGED <<queue, ended, Serving>> => UNCHANGED Lifecycle!vars
  BY DEF Lifecycle!vars
<1>w. UNCHANGED <<queueVars, worker>> => UNCHANGED Lifecycle!vars
  BY <1>s DEF queueVars, Serving
<1>1. CASE Start \/ ListenFails \/ Signal \/ Expire \/ HTTPShutdown \/ HTTPShutdownFails
           \/ Cancel \/ Wait
  <2>1. UNCHANGED queueVars
    BY <1>1 DEF Start, startWorker, AssignServer, Listen, ServerClosed, ListenFails, Signal,
       Expire, HTTPShutdown, HTTPShutdownFails, Cancel, Wait, taskVars
  <2>2. UNCHANGED worker \/ (worker = "none" /\ worker' = "dequeue")
    BY <1>0, <1>1 DEF Start, startWorker, AssignServer, Listen, ServerClosed, ListenFails,
       Signal, Expire, HTTPShutdown, HTTPShutdownFails, Cancel, Wait, Control, Slot
  <2> QED
    BY <1>s, <2>1, <2>2 DEF Serving, queueVars
<1>2. CASE Dequeue
  <2>1. active = NoConn
    BY <1>0, <1>2 DEF Dequeue, Control, Slot, Busy
  <2>2. Lifecycle!Start
    BY <1>2, <2>1 DEF Dequeue, Serving, Lifecycle!Start
  <2> QED
    BY <2>2 DEF Lifecycle!Next
<1>3. CASE DequeueEmpty \/ DequeueWake \/ DelayOver \/ WorkerExit
  BY <1>3, <1>s DEF DequeueEmpty, DequeueWake, DelayOver, WorkerExit, Serving,
     taskVars, queueVars
<1>4. CASE CloseMsgChan
  <2>1. active # NoConn
    BY <1>0, <1>4 DEF CloseMsgChan, Control, Slot, Busy
  <2>2. Lifecycle!Finish
    BY <1>4, <2>1 DEF CloseMsgChan, Serving, Lifecycle!Finish
  <2> QED
    BY <2>2 DEF Lifecycle!Next
<1>8. CASE Run \/ CommandEnds \/ HealthHangs \/ CompleteActive
  <2>1. CASE Run
    BY <1>s, <2>1 DEF Run, prepareCommand, StartCommand, StartFails, startHealthCheck,
       StopHealthCheck, StopHealthReturns, Serving, taskVars, queueVars
  <2>2. CASE CommandEnds \/ HealthHangs \/ CompleteActive
    BY <1>s, <2>2 DEF CommandEnds, HealthHangs, CompleteActive, Serving, taskVars, queueVars
  <2> QED
    BY <1>8, <2>1, <2>2
<1>5. CASE QueueShutdown
  <2>1. CASE Serving = NoConn
    <3>1. Serving' = NoConn
      BY <1>5, <2>1 DEF QueueShutdown, Serving
    <3>2. Lifecycle!Close
      BY <1>5, <2>1, <3>1 DEF QueueShutdown, Lifecycle!Close, ToSet, Lifecycle!ToSet
    <3> QED
      BY <3>2 DEF Lifecycle!Next
  <2>2. CASE Serving # NoConn
    BY <1>0, <1>5, <2>2 DEF QueueShutdown, EndsUnderWorker, Control, Serving
  <2> QED
    BY <2>1, <2>2
<1>6. ASSUME NEW c \in Conns, HandlerStep(c)
      PROVE  [Lifecycle!Next]_(Lifecycle!vars)
  <2>0. UNCHANGED <<worker, active>> /\ Serving' = Serving
    BY <1>6, HandlerFrame DEF controlVars, Serving
  <2>1. CASE Enqueue(c)
    <3>1. c \notin ToSet(queue) \cup {Serving} \cup ended
      BY <2>1, ServerConstantsOK DEF Enqueue, Move, Fresh, Early, Known, Serving,
         ServerConstantsOK
    <3>2. Lifecycle!Submit(c)
      BY <2>0, <2>1, <3>1 DEF Enqueue, Lifecycle!Submit, ToSet, Lifecycle!ToSet
    <3> QED
      BY <3>2 DEF Lifecycle!Next
  <2>2. CASE UnregisterWaiting(c)
    <3>1. PICK i \in DOMAIN queue : queue[i] = c /\ queue' = RemoveAt(queue, i)
      BY <2>2 DEF UnregisterWaiting
    <3>2. Lifecycle!GiveUp(i)
      BY <2>0, <2>2, <3>1 DEF UnregisterWaiting, Lifecycle!GiveUp, RemoveAt, Lifecycle!RemoveAt
    <3> QED
      BY <3>1, <3>2 DEF Lifecycle!Next
  <2>3. CASE UnregisterStarted(c)
    BY <2>0, <2>3 DEF UnregisterStarted, queueVars, Lifecycle!vars
  <2>4. CASE ~Enqueue(c) /\ ~UnregisterWaiting(c) /\ ~UnregisterStarted(c)
    BY <1>6, <1>w, <2>4 DEF HandlerStep, Client, WebSocketHandler, processConnection, Accept,
       Request, FeedInput, FeedReturns, FeedTaken, FeedFails, UnregisterHangs, RouterEnds, Load, Refuse, Add, Upgrade, UpgradeFails, Handshake,
       HandshakeFails, Release, CloseIdle, taskVars
  <2> QED
    BY <2>1, <2>2, <2>3, <2>4
<1>7. CASE UNCHANGED vars
  BY <1>7, <1>w DEF vars, taskVars
<1> QED
  BY <1>1, <1>2, <1>3, <1>4, <1>5, <1>6, <1>7, <1>8, StepKinds DEF ServerStep, Worker

\* Whatever handlers, clients and Shutdown do, tasks are served first come, first
\* served, one at a time, none twice and none forgotten; nobody is being served when the
\* queue ends, unless Shutdown came before Start had assigned s.srv.
THEOREM ServerImplementsLifecycle == Spec => ImplementsLifecycle
<1>1. Init => Lifecycle!Init
  BY DEF Init, Lifecycle!Init, Serving
<1>2. Init => Fresh
  BY ServerConstantsOK DEF Init, Fresh, Known, Early, ToSet, ServerConstantsOK
<1>3. Invariant /\ Fresh /\ [Next]_vars => Fresh'
  BY FreshStays DEF Invariant, Types
<1>4. Invariant /\ Fresh /\ [Next]_vars => [EndsUnderWorker \/ Lifecycle!Next]_(Lifecycle!vars)
  BY StepLifecycle
<1> QED
  BY <1>1, <1>2, <1>3, <1>4, InvariantHolds, PTL DEF Spec, ImplementsLifecycle

=============================================================================
