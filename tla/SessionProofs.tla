---------------------------- MODULE SessionProofs -----------------------------
(***************************************************************************)
(* Theorems about SessionLife: for any capacity of the outbox and of the   *)
(* inbox, and any number of messages and of commands.                      *)
(***************************************************************************)
EXTENDS SessionLife, TLAPS

-----------------------------------------------------------------------------
(* Type correctness. *)

\* Every goroutine goes from one of its places to another.
LEMMA PlacesStay ==
  PlacesOK /\ [Next]_vars => PlacesOK'
<1> SUFFICES ASSUME PlacesOK, [Next]_vars PROVE PlacesOK'
  OBVIOUS
<1> USE DEF PlacesOK, Go, Closers, Stoppers, inputVars, queueVars, healthVars, closeVars
<1>1. CASE HandshakeFails
  BY <1>1 DEF HandshakeFails, CloseThen, CallClose
<1>2. CASE HandshakeDone
  BY <1>2 DEF HandshakeDone
<1>3. CASE RegisterSession
  BY <1>3 DEF RegisterSession
<1>4. CASE Enqueue
  BY <1>4 DEF Enqueue
<1>5. CASE AwaitReader
  BY <1>5 DEF AwaitReader
<1>6. CASE UnregisterBegin
  BY <1>6 DEF UnregisterBegin, CallStop
<1>7. CASE UnregisterEnd
  BY <1>7 DEF UnregisterEnd, CloseThen, CallClose
<1>8. CASE CloseReturns
  BY <1>8 DEF CloseReturns
<1>9. CASE RouteOutbox
  BY <1>9 DEF RouteOutbox, BeginWrite, HandlerPanics, ServerPanics
<1>10. CASE RouteOutboxClosed
  BY <1>10 DEF RouteOutboxClosed, BeginWrite, HandlerPanics, ServerPanics
<1>11. CASE RouteInbox
  BY <1>11 DEF RouteInbox
<1>12. CASE FeedInput
  BY <1>12 DEF FeedInput
<1>13. CASE RouteCtxDone
  BY <1>13 DEF RouteCtxDone
<1>14. CASE WriteDone
  BY <1>14 DEF WriteDone
<1>15. CASE WriteFails
  BY <1>15 DEF WriteFails, CloseThen, CallClose
<1>16. CASE FinishedWritten
  BY <1>16 DEF FinishedWritten, CloseThen, CallClose
<1>17. ASSUME NEW a \in Closers, CloseEnter(a) PROVE PlacesOK'
  BY <1>17 DEF CloseEnter, CallStop
<1>18. ASSUME NEW a \in Closers, CloseCancel(a) PROVE PlacesOK'
  BY <1>18 DEF CloseCancel
<1>19. ASSUME NEW a \in Closers, CloseConn(a) PROVE PlacesOK'
  BY <1>19 DEF CloseConn
<1>20. ASSUME NEW a \in Stoppers, StopCheck(a) PROVE PlacesOK'
  BY <1>20 DEF StopCheck
<1>21. ASSUME NEW a \in Stoppers, StopWait(a) PROVE PlacesOK'
  BY <1>21 DEF StopWait
<1>22. CASE ReadCommand
  BY <1>22 DEF ReadCommand
<1>23. CASE ReadFails
  BY <1>23 DEF ReadFails
<1>24. CASE SendCommand
  BY <1>24 DEF SendCommand
<1>25. CASE ReaderCancelled
  BY <1>25 DEF ReaderCancelled
<1>26. CASE HealthCtxDone
  BY <1>26 DEF HealthCtxDone
<1>27. CASE HealthTick
  BY <1>27 DEF HealthTick, Writing, HandlerPanics, ServerPanics
<1>28. CASE PingDone
  BY <1>28 DEF PingDone
<1>29. CASE PingFails
  BY <1>29 DEF PingFails, CallClose
<1>30. CASE HealthReturns
  BY <1>30 DEF HealthReturns
<1>31. CASE Dequeue
  BY <1>31 DEF Dequeue
<1>32. CASE StartFails
  BY <1>32 DEF StartFails
<1>33. CASE StartHealthCheck
  BY <1>33 DEF StartHealthCheck
<1>34. CASE StartHealthGo
  BY <1>34 DEF StartHealthGo
<1>35. CASE RunOutput
  BY <1>35 DEF RunOutput, Room
<1>36. CASE RunEnds
  BY <1>36 DEF RunEnds
<1>37. CASE StopHealthCheck
  BY <1>37 DEF StopHealthCheck, CallStop
<1>38. CASE StopHealthReturns
  BY <1>38 DEF StopHealthReturns
<1>39. CASE CloseMsgChan
  BY <1>39 DEF CloseMsgChan
<1>40. CASE CompleteActive
  BY <1>40 DEF CompleteActive
<1>41. CASE KeepAlive
  BY <1>41 DEF KeepAlive, Room
<1>42. CASE Shutdown
  BY <1>42 DEF Shutdown
<1>43. CASE PeerGone
  BY <1>43 DEF PeerGone
<1>44. CASE UNCHANGED vars
  BY <1>44 DEF vars
<1>45. CASE FeedTaken \/ FeedFails
  BY <1>45 DEF FeedTaken, FeedFails, FeedReturns
<1>46. CASE prepareCommand
  BY <1>46 DEF prepareCommand
<1>47. CASE Start
  BY <1>47 DEF Start
<1>48. CASE SendError
  BY <1>48 DEF SendError, Room
<1>49. CASE OthersStick
  BY <1>49 DEF OthersStick
<1> QED
  BY <1>1, <1>2, <1>3, <1>4, <1>5, <1>6, <1>7, <1>8, <1>9, <1>10, <1>11, <1>12, <1>13,
     <1>14, <1>15, <1>16, <1>17, <1>18, <1>19, <1>20, <1>21, <1>22, <1>23, <1>24, <1>25,
     <1>26, <1>27, <1>28, <1>29, <1>30, <1>31, <1>32, <1>33, <1>34, <1>35, <1>36, <1>37,
     <1>38, <1>39, <1>40, <1>41, <1>42, <1>43, <1>44, <1>45, <1>46, <1>47, <1>48, <1>49
     DEF Next, Handler, processConnection, Router, Close, Stop, Reader, Health, Worker,
         Closers, Stoppers

\* Every step keeps the channels within their capacity.
LEMMA ValuesStay ==
  ValuesOK /\ [Next]_vars => ValuesOK'
<1> SUFFICES ASSUME ValuesOK, [Next]_vars PROVE ValuesOK'
  OBVIOUS
<1> USE SessionConstantsOK DEF SessionConstantsOK, ValuesOK, flags, inputVars, queueVars,
              healthVars, closeVars
<1>1. CASE HandshakeFails
  BY <1>1 DEF HandshakeFails, CloseThen, CallClose
<1>2. CASE HandshakeDone
  BY <1>2 DEF HandshakeDone
<1>3. CASE RegisterSession
  BY <1>3 DEF RegisterSession
<1>4. CASE Enqueue
  BY <1>4 DEF Enqueue
<1>5. CASE AwaitReader
  BY <1>5 DEF AwaitReader
<1>6. CASE UnregisterBegin
  BY <1>6 DEF UnregisterBegin, CallStop
<1>7. CASE UnregisterEnd
  BY <1>7 DEF UnregisterEnd, CloseThen, CallClose
<1>8. CASE CloseReturns
  BY <1>8 DEF CloseReturns
<1>9. CASE RouteOutbox
  <2>1. outbox' = outbox - 1 /\ outbox' \in 0..OutboxSize
    BY <1>9 DEF RouteOutbox
  <2>2. alive' \in BOOLEAN /\ ending' \in BOOLEAN
    BY <1>9 DEF RouteOutbox, BeginWrite, HandlerPanics, ServerPanics
  <2> QED
    BY <1>9, <2>1, <2>2 DEF RouteOutbox
<1>10. CASE RouteOutboxClosed
  BY <1>10 DEF RouteOutboxClosed, BeginWrite, HandlerPanics, ServerPanics
<1>11. CASE RouteInbox
  BY <1>11 DEF RouteInbox
<1>12. CASE FeedInput
  BY <1>12 DEF FeedInput
<1>13. CASE RouteCtxDone
  BY <1>13 DEF RouteCtxDone
<1>14. CASE WriteDone
  BY <1>14 DEF WriteDone
<1>15. CASE WriteFails
  BY <1>15 DEF WriteFails, CloseThen, CallClose
<1>16. CASE FinishedWritten
  BY <1>16 DEF FinishedWritten, CloseThen, CallClose
<1>17. ASSUME NEW a \in Closers, CloseEnter(a) PROVE ValuesOK'
  BY <1>17 DEF CloseEnter, CallStop
<1>18. ASSUME NEW a \in Closers, CloseCancel(a) PROVE ValuesOK'
  BY <1>18 DEF CloseCancel
<1>19. ASSUME NEW a \in Closers, CloseConn(a) PROVE ValuesOK'
  BY <1>19 DEF CloseConn
<1>20. ASSUME NEW a \in Stoppers, StopCheck(a) PROVE ValuesOK'
  BY <1>20 DEF StopCheck
<1>21. ASSUME NEW a \in Stoppers, StopWait(a) PROVE ValuesOK'
  BY <1>21 DEF StopWait
<1>22. CASE ReadCommand
  BY <1>22 DEF ReadCommand
<1>23. CASE ReadFails
  BY <1>23 DEF ReadFails
<1>24. CASE SendCommand
  BY <1>24 DEF SendCommand
<1>25. CASE ReaderCancelled
  BY <1>25 DEF ReaderCancelled
<1>26. CASE HealthCtxDone
  BY <1>26 DEF HealthCtxDone
<1>27. CASE HealthTick
  BY <1>27 DEF HealthTick, Writing, HandlerPanics, ServerPanics
<1>28. CASE PingDone
  BY <1>28 DEF PingDone
<1>29. CASE PingFails
  BY <1>29 DEF PingFails, CallClose
<1>30. CASE HealthReturns
  BY <1>30 DEF HealthReturns
<1>31. CASE Dequeue
  BY <1>31 DEF Dequeue
<1>32. CASE StartFails
  BY <1>32 DEF StartFails
<1>33. CASE StartHealthCheck
  BY <1>33 DEF StartHealthCheck
<1>34. CASE StartHealthGo
  BY <1>34 DEF StartHealthGo
<1>35. CASE RunOutput
  BY <1>35 DEF RunOutput, Room
<1>36. CASE RunEnds
  BY <1>36 DEF RunEnds
<1>37. CASE StopHealthCheck
  BY <1>37 DEF StopHealthCheck, CallStop
<1>38. CASE StopHealthReturns
  BY <1>38 DEF StopHealthReturns
<1>39. CASE CloseMsgChan
  BY <1>39 DEF CloseMsgChan
<1>40. CASE CompleteActive
  BY <1>40 DEF CompleteActive
<1>41. CASE KeepAlive
  BY <1>41 DEF KeepAlive, Room
<1>42. CASE Shutdown
  BY <1>42 DEF Shutdown
<1>43. CASE PeerGone
  BY <1>43 DEF PeerGone
<1>44. CASE UNCHANGED vars
  BY <1>44 DEF vars
<1>45. CASE FeedTaken \/ FeedFails
  BY <1>45 DEF FeedTaken, FeedFails, FeedReturns
<1>46. CASE prepareCommand
  BY <1>46 DEF prepareCommand
<1>47. CASE Start
  BY <1>47 DEF Start
<1>48. CASE SendError
  BY <1>48 DEF SendError, Room
<1>49. CASE OthersStick
  BY <1>49 DEF OthersStick
<1> QED
  BY <1>1, <1>2, <1>3, <1>4, <1>5, <1>6, <1>7, <1>8, <1>9, <1>10, <1>11, <1>12, <1>13,
     <1>14, <1>15, <1>16, <1>17, <1>18, <1>19, <1>20, <1>21, <1>22, <1>23, <1>24, <1>25,
     <1>26, <1>27, <1>28, <1>29, <1>30, <1>31, <1>32, <1>33, <1>34, <1>35, <1>36, <1>37,
     <1>38, <1>39, <1>40, <1>41, <1>42, <1>43, <1>44, <1>45, <1>46, <1>47, <1>48, <1>49
     DEF Next, Handler, processConnection, Router, Close, Stop, Reader, Health, Worker,
         Closers, Stoppers

\* The state is well typed; the outbox and the inbox hold no more than their capacity.
THEOREM TypeCorrect == Spec => []TypeOK
<1>1. Init => TypeOK
  <2>1. Init => PlacesOK
    BY DEF Init, PlacesOK, Closers, Stoppers
  <2>2. Init => ValuesOK
    <3>1. 0 \in 0..OutboxSize /\ 0 \in 0..MaxOutput /\ 0 \in 0..InboxSize /\ 0 \in 0..MaxInput
      BY SessionConstantsOK DEF SessionConstantsOK
    <3> QED
      BY <3>1 DEF Init, ValuesOK
  <2> QED
    BY <2>1, <2>2 DEF TypeOK
<1>2. TypeOK /\ [Next]_vars => TypeOK'
  BY PlacesStay, ValuesStay DEF TypeOK
<1> QED
  BY <1>1, <1>2, PTL DEF Spec

-----------------------------------------------------------------------------
(* The parts of the inductive invariant. *)

\* Where the Worker has not started a health goroutine for the task.
Unstarted == {"idle", "queued", "removed", "prepare", "start", "failing", "startHealth",
              "starting"}

\* How far the Worker is, who is in Close and in StopHealthCheck, and who holds the mutex.
CloseInv ==
  /\ \A a \in Closers : closing[a] \in {"stop", "conn"} <=> once = a
  /\ closing["handler"] # "no" => pc["handler"] = "closing"
  /\ closing["health"] # "no" => pc["health"] = "closing"
  /\ pc["handler"] \in {"handshake", "register", "enqueue"} => pc["worker"] = "idle"
  /\ pc["worker"] \in Unstarted => pc["health"] = "off"
  /\ stopping["worker"] # "no" => pc["worker"] = "stopping"
  /\ stopping["handler"] # "no" =>
       pc["handler"] = "removing" \/ closing["handler"] = "stop"
  /\ stopping["health"] # "no" => closing["health"] = "stop"
  /\ pc["worker"] \in {"starting", "stopping"} <=> mu = "worker"
  /\ pc["handler"] \in {"removing", "feeding"} <=> mu = "handler"

\* Every way to the end of a session begins with a reason for it.
EndingInv ==
  /\ \A a \in Closers : closing[a] # "no" => ending
  /\ pc["handler"] \in {"closing", "awaitReader", "unregister", "removing", "done"} => ending
  /\ cancelled => ending
  /\ ~connOpen => ending

\* The session is registered while its handler routes, and not when it is done.
Routing == {"enqueue", "route", "write", "writeFinished", "feed", "feeding", "awaitReader",
            "unregister", "removing"}

PhaseInv ==
  /\ pc["handler"] \in Routing => registered
  /\ pc["handler"] = "closing" /\ after # "done" => registered
  /\ pc["handler"] \in {"handshake", "done"} => ~registered
  /\ pc["handler"] = "closing" /\ after = "done" => ~registered
  /\ ~registered => pc["worker"] # "starting"
  /\ outClosed => pc["worker"] \in {"removed", "complete", "done"}
  /\ pc["handler"] = "writeFinished" => outClosed

\* What healthCancel, healthDone and healthWg tell of one another.
HealthInv ==
  /\ pc["worker"] \in Unstarted => ~added
  /\ added /\ ~healthCancel => healthDone
  /\ pc["worker"] = "starting" /\ ~healthCancel => healthDone
  /\ \A a \in Stoppers : stopping[a] = "wait" => healthDone
  /\ ~registered /\ added => healthDone
  /\ pc["handler"] = "removing" /\ stopping["handler"] # "check" /\ added => healthDone

\* As long as nobody is closing the session healthCancel is set whenever the goroutine
\* is counted, so that the Worker waits for its end.
WaitedInv ==
  once = "new" =>
    /\ added \/ pc["worker"] = "starting" => healthCancel
    /\ pc["worker"] = "stopping" /\ stopping["worker"] = "no" => ~added
    /\ pc["worker"] \in {"stopped", "complete", "done"} /\ registered => ~added

\* The function of once cancels the context; whoever returns from Close finds it cancelled,
\* and the router goes to wait for the reader only then.
CancelInv ==
  /\ once = "done" => cancelled
  /\ \A a \in Closers : closing[a] = "conn" => cancelled
  /\ pc["handler"] = "closing" /\ closing["handler"] = "no" => once = "done"
  /\ pc["handler"] = "awaitReader" => cancelled

-----------------------------------------------------------------------------
(* Each of them is kept by every step. *)

\* Two goroutines are never at once in Close or at the mutex.
LEMMA CloseStays ==
  PlacesOK /\ CloseInv /\ [Next]_vars => CloseInv'
<1> SUFFICES ASSUME PlacesOK, CloseInv, [Next]_vars PROVE CloseInv'
  OBVIOUS
<1> USE DEF PlacesOK, Go, Closers, Stoppers, inputVars, queueVars, healthVars, closeVars,
            CloseInv, Unstarted
<1>1. CASE HandshakeFails
  BY <1>1 DEF HandshakeFails, CloseThen, CallClose
<1>2. CASE HandshakeDone
  BY <1>2 DEF HandshakeDone
<1>3. CASE RegisterSession
  BY <1>3 DEF RegisterSession
<1>4. CASE Enqueue
  BY <1>4 DEF Enqueue
<1>5. CASE AwaitReader
  BY <1>5 DEF AwaitReader
<1>6. CASE UnregisterBegin
  BY <1>6 DEF UnregisterBegin, CallStop
<1>7. CASE UnregisterEnd
  BY <1>7 DEF UnregisterEnd, CloseThen, CallClose
<1>8. CASE CloseReturns
  BY <1>8 DEF CloseReturns
<1>9. CASE RouteOutbox
  BY <1>9 DEF RouteOutbox, BeginWrite, HandlerPanics, ServerPanics
<1>10. CASE RouteOutboxClosed
  BY <1>10 DEF RouteOutboxClosed, BeginWrite, HandlerPanics, ServerPanics
<1>11. CASE RouteInbox
  BY <1>11 DEF RouteInbox
<1>12. CASE FeedInput
  BY <1>12 DEF FeedInput
<1>13. CASE RouteCtxDone
  BY <1>13 DEF RouteCtxDone
<1>14. CASE WriteDone
  BY <1>14 DEF WriteDone
<1>15. CASE WriteFails
  BY <1>15 DEF WriteFails, CloseThen, CallClose
<1>16. CASE FinishedWritten
  BY <1>16 DEF FinishedWritten, CloseThen, CallClose
<1>17. ASSUME NEW a \in Closers, CloseEnter(a) PROVE CloseInv'
  BY <1>17 DEF CloseEnter, CallStop
<1>18. ASSUME NEW a \in Closers, CloseCancel(a) PROVE CloseInv'
  BY <1>18 DEF CloseCancel
<1>19. ASSUME NEW a \in Closers, CloseConn(a) PROVE CloseInv'
  BY <1>19 DEF CloseConn
<1>20. ASSUME NEW a \in Stoppers, StopCheck(a) PROVE CloseInv'
  BY <1>20 DEF StopCheck
<1>21. ASSUME NEW a \in Stoppers, StopWait(a) PROVE CloseInv'
  BY <1>21 DEF StopWait
<1>22. CASE ReadCommand
  BY <1>22 DEF ReadCommand
<1>23. CASE ReadFails
  BY <1>23 DEF ReadFails
<1>24. CASE SendCommand
  BY <1>24 DEF SendCommand
<1>25. CASE ReaderCancelled
  BY <1>25 DEF ReaderCancelled
<1>26. CASE HealthCtxDone
  BY <1>26 DEF HealthCtxDone
<1>27. CASE HealthTick
  BY <1>27 DEF HealthTick, Writing, HandlerPanics, ServerPanics
<1>28. CASE PingDone
  BY <1>28 DEF PingDone
<1>29. CASE PingFails
  BY <1>29 DEF PingFails, CallClose
<1>30. CASE HealthReturns
  BY <1>30 DEF HealthReturns
<1>31. CASE Dequeue
  BY <1>31 DEF Dequeue
<1>32. CASE StartFails
  BY <1>32 DEF StartFails
<1>33. CASE StartHealthCheck
  BY <1>33 DEF StartHealthCheck
<1>34. CASE StartHealthGo
  <2>1. /\ pc'["handler"] = pc["handler"] /\ pc'["worker"] = "run" /\ mu' = "free"
        /\ UNCHANGED <<closing, once, stopping>>
    BY <1>34 DEF StartHealthGo
  <2>2. pc["worker"] = "starting" /\ mu = "worker" /\ pc["health"] = "off"
    BY <1>34 DEF StartHealthGo
  <2> QED
    BY <2>1, <2>2
<1>35. CASE RunOutput
  BY <1>35 DEF RunOutput, Room
<1>36. CASE RunEnds
  BY <1>36 DEF RunEnds
<1>37. CASE StopHealthCheck
  BY <1>37 DEF StopHealthCheck, CallStop
<1>38. CASE StopHealthReturns
  BY <1>38 DEF StopHealthReturns
<1>39. CASE CloseMsgChan
  BY <1>39 DEF CloseMsgChan
<1>40. CASE CompleteActive
  BY <1>40 DEF CompleteActive
<1>41. CASE KeepAlive
  BY <1>41 DEF KeepAlive, Room
<1>42. CASE Shutdown
  BY <1>42 DEF Shutdown
<1>43. CASE PeerGone
  BY <1>43 DEF PeerGone
<1>44. CASE UNCHANGED vars
  BY <1>44 DEF vars
<1>45. CASE FeedTaken \/ FeedFails
  BY <1>45 DEF FeedTaken, FeedFails, FeedReturns
<1>46. CASE prepareCommand
  BY <1>46 DEF prepareCommand
<1>47. CASE Start
  BY <1>47 DEF Start
<1>48. CASE SendError
  BY <1>48 DEF SendError, Room
<1>49. CASE OthersStick
  BY <1>49 DEF OthersStick
<1> QED
  BY <1>1, <1>2, <1>3, <1>4, <1>5, <1>6, <1>7, <1>8, <1>9, <1>10, <1>11, <1>12, <1>13,
     <1>14, <1>15, <1>16, <1>17, <1>18, <1>19, <1>20, <1>21, <1>22, <1>23, <1>24, <1>25,
     <1>26, <1>27, <1>28, <1>29, <1>30, <1>31, <1>32, <1>33, <1>34, <1>35, <1>36, <1>37,
     <1>38, <1>39, <1>40, <1>41, <1>42, <1>43, <1>44, <1>45, <1>46, <1>47, <1>48, <1>49
     DEF Next, Handler, processConnection, Router, Close, Stop, Reader, Health, Worker,
         Closers, Stoppers

\* No goroutine begins to end the session without a reason.
LEMMA EndingStays ==
  PlacesOK /\ CloseInv /\ EndingInv /\ [Next]_vars => EndingInv'
<1> SUFFICES ASSUME PlacesOK, CloseInv, EndingInv, [Next]_vars PROVE EndingInv'
  OBVIOUS
<1> USE DEF PlacesOK, Go, Closers, Stoppers, inputVars, queueVars, healthVars, closeVars,
            flags, CloseInv, EndingInv
<1>1. CASE HandshakeFails
  BY <1>1 DEF HandshakeFails, CloseThen, CallClose
<1>2. CASE HandshakeDone
  BY <1>2 DEF HandshakeDone
<1>3. CASE RegisterSession
  BY <1>3 DEF RegisterSession
<1>4. CASE Enqueue
  BY <1>4 DEF Enqueue
<1>5. CASE AwaitReader
  BY <1>5 DEF AwaitReader
<1>6. CASE UnregisterBegin
  BY <1>6 DEF UnregisterBegin, CallStop
<1>7. CASE UnregisterEnd
  BY <1>7 DEF UnregisterEnd, CloseThen, CallClose
<1>8. CASE CloseReturns
  BY <1>8 DEF CloseReturns
<1>9. CASE RouteOutbox
  BY <1>9 DEF RouteOutbox, BeginWrite, HandlerPanics, ServerPanics
<1>10. CASE RouteOutboxClosed
  BY <1>10 DEF RouteOutboxClosed, BeginWrite, HandlerPanics, ServerPanics
<1>11. CASE RouteInbox
  BY <1>11 DEF RouteInbox
<1>12. CASE FeedInput
  BY <1>12 DEF FeedInput
<1>13. CASE RouteCtxDone
  BY <1>13 DEF RouteCtxDone
<1>14. CASE WriteDone
  BY <1>14 DEF WriteDone
<1>15. CASE WriteFails
  BY <1>15 DEF WriteFails, CloseThen, CallClose
<1>16. CASE FinishedWritten
  BY <1>16 DEF FinishedWritten, CloseThen, CallClose
<1>17. ASSUME NEW a \in Closers, CloseEnter(a) PROVE EndingInv'
  BY <1>17 DEF CloseEnter, CallStop
<1>18. ASSUME NEW a \in Closers, CloseCancel(a) PROVE EndingInv'
  BY <1>18 DEF CloseCancel
<1>19. ASSUME NEW a \in Closers, CloseConn(a) PROVE EndingInv'
  BY <1>19 DEF CloseConn
<1>20. ASSUME NEW a \in Stoppers, StopCheck(a) PROVE EndingInv'
  BY <1>20 DEF StopCheck
<1>21. ASSUME NEW a \in Stoppers, StopWait(a) PROVE EndingInv'
  BY <1>21 DEF StopWait
<1>22. CASE ReadCommand
  BY <1>22 DEF ReadCommand
<1>23. CASE ReadFails
  BY <1>23 DEF ReadFails
<1>24. CASE SendCommand
  BY <1>24 DEF SendCommand
<1>25. CASE ReaderCancelled
  BY <1>25 DEF ReaderCancelled
<1>26. CASE HealthCtxDone
  BY <1>26 DEF HealthCtxDone
<1>27. CASE HealthTick
  BY <1>27 DEF HealthTick, Writing, HandlerPanics, ServerPanics
<1>28. CASE PingDone
  BY <1>28 DEF PingDone
<1>29. CASE PingFails
  BY <1>29 DEF PingFails, CallClose
<1>30. CASE HealthReturns
  BY <1>30 DEF HealthReturns
<1>31. CASE Dequeue
  BY <1>31 DEF Dequeue
<1>32. CASE StartFails
  BY <1>32 DEF StartFails
<1>33. CASE StartHealthCheck
  BY <1>33 DEF StartHealthCheck
<1>34. CASE StartHealthGo
  BY <1>34 DEF StartHealthGo
<1>35. CASE RunOutput
  BY <1>35 DEF RunOutput, Room
<1>36. CASE RunEnds
  BY <1>36 DEF RunEnds
<1>37. CASE StopHealthCheck
  BY <1>37 DEF StopHealthCheck, CallStop
<1>38. CASE StopHealthReturns
  BY <1>38 DEF StopHealthReturns
<1>39. CASE CloseMsgChan
  BY <1>39 DEF CloseMsgChan
<1>40. CASE CompleteActive
  BY <1>40 DEF CompleteActive
<1>41. CASE KeepAlive
  BY <1>41 DEF KeepAlive, Room
<1>42. CASE Shutdown
  BY <1>42 DEF Shutdown
<1>43. CASE PeerGone
  BY <1>43 DEF PeerGone
<1>44. CASE UNCHANGED vars
  BY <1>44 DEF vars
<1>45. CASE FeedTaken \/ FeedFails
  BY <1>45 DEF FeedTaken, FeedFails, FeedReturns
<1>46. CASE prepareCommand
  BY <1>46 DEF prepareCommand
<1>47. CASE Start
  BY <1>47 DEF Start
<1>48. CASE SendError
  BY <1>48 DEF SendError, Room
<1>49. CASE OthersStick
  BY <1>49 DEF OthersStick
<1> QED
  BY <1>1, <1>2, <1>3, <1>4, <1>5, <1>6, <1>7, <1>8, <1>9, <1>10, <1>11, <1>12, <1>13,
     <1>14, <1>15, <1>16, <1>17, <1>18, <1>19, <1>20, <1>21, <1>22, <1>23, <1>24, <1>25,
     <1>26, <1>27, <1>28, <1>29, <1>30, <1>31, <1>32, <1>33, <1>34, <1>35, <1>36, <1>37,
     <1>38, <1>39, <1>40, <1>41, <1>42, <1>43, <1>44, <1>45, <1>46, <1>47, <1>48, <1>49
     DEF Next, Handler, processConnection, Router, Close, Stop, Reader, Health, Worker,
         Closers, Stoppers

\* Registration and the Worker's progress follow the handler.
LEMMA PhaseStays ==
  PlacesOK /\ CloseInv /\ PhaseInv /\ [Next]_vars => PhaseInv'
<1> SUFFICES ASSUME PlacesOK, CloseInv, PhaseInv, [Next]_vars PROVE PhaseInv'
  OBVIOUS
<1> USE DEF PlacesOK, Go, Closers, Stoppers, inputVars, queueVars, healthVars, closeVars,
            CloseInv, PhaseInv, Routing
<1>1. CASE HandshakeFails
  BY <1>1 DEF HandshakeFails, CloseThen, CallClose
<1>2. CASE HandshakeDone
  BY <1>2 DEF HandshakeDone
<1>3. CASE RegisterSession
  BY <1>3 DEF RegisterSession
<1>4. CASE Enqueue
  BY <1>4 DEF Enqueue
<1>5. CASE AwaitReader
  BY <1>5 DEF AwaitReader
<1>6. CASE UnregisterBegin
  BY <1>6 DEF UnregisterBegin, CallStop
<1>7. CASE UnregisterEnd
  BY <1>7 DEF UnregisterEnd, CloseThen, CallClose
<1>8. CASE CloseReturns
  BY <1>8 DEF CloseReturns
<1>9. CASE RouteOutbox
  BY <1>9 DEF RouteOutbox, BeginWrite, HandlerPanics, ServerPanics
<1>10. CASE RouteOutboxClosed
  BY <1>10 DEF RouteOutboxClosed, BeginWrite, HandlerPanics, ServerPanics
<1>11. CASE RouteInbox
  BY <1>11 DEF RouteInbox
<1>12. CASE FeedInput
  BY <1>12 DEF FeedInput
<1>13. CASE RouteCtxDone
  BY <1>13 DEF RouteCtxDone
<1>14. CASE WriteDone
  BY <1>14 DEF WriteDone
<1>15. CASE WriteFails
  BY <1>15 DEF WriteFails, CloseThen, CallClose
<1>16. CASE FinishedWritten
  BY <1>16 DEF FinishedWritten, CloseThen, CallClose
<1>17. ASSUME NEW a \in Closers, CloseEnter(a) PROVE PhaseInv'
  BY <1>17 DEF CloseEnter, CallStop
<1>18. ASSUME NEW a \in Closers, CloseCancel(a) PROVE PhaseInv'
  BY <1>18 DEF CloseCancel
<1>19. ASSUME NEW a \in Closers, CloseConn(a) PROVE PhaseInv'
  BY <1>19 DEF CloseConn
<1>20. ASSUME NEW a \in Stoppers, StopCheck(a) PROVE PhaseInv'
  BY <1>20 DEF StopCheck
<1>21. ASSUME NEW a \in Stoppers, StopWait(a) PROVE PhaseInv'
  BY <1>21 DEF StopWait
<1>22. CASE ReadCommand
  BY <1>22 DEF ReadCommand
<1>23. CASE ReadFails
  BY <1>23 DEF ReadFails
<1>24. CASE SendCommand
  BY <1>24 DEF SendCommand
<1>25. CASE ReaderCancelled
  BY <1>25 DEF ReaderCancelled
<1>26. CASE HealthCtxDone
  BY <1>26 DEF HealthCtxDone
<1>27. CASE HealthTick
  BY <1>27 DEF HealthTick, Writing, HandlerPanics, ServerPanics
<1>28. CASE PingDone
  BY <1>28 DEF PingDone
<1>29. CASE PingFails
  BY <1>29 DEF PingFails, CallClose
<1>30. CASE HealthReturns
  BY <1>30 DEF HealthReturns
<1>31. CASE Dequeue
  BY <1>31 DEF Dequeue
<1>32. CASE StartFails
  BY <1>32 DEF StartFails
<1>33. CASE StartHealthCheck
  BY <1>33 DEF StartHealthCheck
<1>34. CASE StartHealthGo
  BY <1>34 DEF StartHealthGo
<1>35. CASE RunOutput
  BY <1>35 DEF RunOutput, Room
<1>36. CASE RunEnds
  BY <1>36 DEF RunEnds
<1>37. CASE StopHealthCheck
  BY <1>37 DEF StopHealthCheck, CallStop
<1>38. CASE StopHealthReturns
  BY <1>38 DEF StopHealthReturns
<1>39. CASE CloseMsgChan
  BY <1>39 DEF CloseMsgChan
<1>40. CASE CompleteActive
  BY <1>40 DEF CompleteActive
<1>41. CASE KeepAlive
  BY <1>41 DEF KeepAlive, Room
<1>42. CASE Shutdown
  BY <1>42 DEF Shutdown
<1>43. CASE PeerGone
  BY <1>43 DEF PeerGone
<1>44. CASE UNCHANGED vars
  BY <1>44 DEF vars
<1>45. CASE FeedTaken \/ FeedFails
  BY <1>45 DEF FeedTaken, FeedFails, FeedReturns
<1>46. CASE prepareCommand
  BY <1>46 DEF prepareCommand
<1>47. CASE Start
  BY <1>47 DEF Start
<1>48. CASE SendError
  BY <1>48 DEF SendError, Room
<1>49. CASE OthersStick
  BY <1>49 DEF OthersStick
<1> QED
  BY <1>1, <1>2, <1>3, <1>4, <1>5, <1>6, <1>7, <1>8, <1>9, <1>10, <1>11, <1>12, <1>13,
     <1>14, <1>15, <1>16, <1>17, <1>18, <1>19, <1>20, <1>21, <1>22, <1>23, <1>24, <1>25,
     <1>26, <1>27, <1>28, <1>29, <1>30, <1>31, <1>32, <1>33, <1>34, <1>35, <1>36, <1>37,
     <1>38, <1>39, <1>40, <1>41, <1>42, <1>43, <1>44, <1>45, <1>46, <1>47, <1>48, <1>49
     DEF Next, Handler, processConnection, Router, Close, Stop, Reader, Health, Worker,
         Closers, Stoppers

\* A health goroutine nobody waits for any more has been told to stop.
LEMMA HealthStays ==
  PlacesOK /\ CloseInv /\ PhaseInv /\ HealthInv /\ [Next]_vars => HealthInv'
<1> SUFFICES ASSUME PlacesOK, CloseInv, PhaseInv, HealthInv, [Next]_vars PROVE HealthInv'
  OBVIOUS
<1> USE DEF PlacesOK, Go, Closers, Stoppers, inputVars, queueVars, healthVars, closeVars,
            CloseInv, PhaseInv, Routing, HealthInv, Unstarted
<1>1. CASE HandshakeFails
  BY <1>1 DEF HandshakeFails, CloseThen, CallClose
<1>2. CASE HandshakeDone
  BY <1>2 DEF HandshakeDone
<1>3. CASE RegisterSession
  BY <1>3 DEF RegisterSession
<1>4. CASE Enqueue
  BY <1>4 DEF Enqueue
<1>5. CASE AwaitReader
  BY <1>5 DEF AwaitReader
<1>6. CASE UnregisterBegin
  BY <1>6 DEF UnregisterBegin, CallStop
<1>7. CASE UnregisterEnd
  BY <1>7 DEF UnregisterEnd, CloseThen, CallClose
<1>8. CASE CloseReturns
  BY <1>8 DEF CloseReturns
<1>9. CASE RouteOutbox
  BY <1>9 DEF RouteOutbox, BeginWrite, HandlerPanics, ServerPanics
<1>10. CASE RouteOutboxClosed
  BY <1>10 DEF RouteOutboxClosed, BeginWrite, HandlerPanics, ServerPanics
<1>11. CASE RouteInbox
  BY <1>11 DEF RouteInbox
<1>12. CASE FeedInput
  BY <1>12 DEF FeedInput
<1>13. CASE RouteCtxDone
  BY <1>13 DEF RouteCtxDone
<1>14. CASE WriteDone
  BY <1>14 DEF WriteDone
<1>15. CASE WriteFails
  BY <1>15 DEF WriteFails, CloseThen, CallClose
<1>16. CASE FinishedWritten
  BY <1>16 DEF FinishedWritten, CloseThen, CallClose
<1>17. ASSUME NEW a \in Closers, CloseEnter(a) PROVE HealthInv'
  BY <1>17 DEF CloseEnter, CallStop
<1>18. ASSUME NEW a \in Closers, CloseCancel(a) PROVE HealthInv'
  BY <1>18 DEF CloseCancel
<1>19. ASSUME NEW a \in Closers, CloseConn(a) PROVE HealthInv'
  BY <1>19 DEF CloseConn
<1>20. ASSUME NEW a \in Stoppers, StopCheck(a) PROVE HealthInv'
  BY <1>20 DEF StopCheck
<1>21. ASSUME NEW a \in Stoppers, StopWait(a) PROVE HealthInv'
  BY <1>21 DEF StopWait
<1>22. CASE ReadCommand
  BY <1>22 DEF ReadCommand
<1>23. CASE ReadFails
  BY <1>23 DEF ReadFails
<1>24. CASE SendCommand
  BY <1>24 DEF SendCommand
<1>25. CASE ReaderCancelled
  BY <1>25 DEF ReaderCancelled
<1>26. CASE HealthCtxDone
  BY <1>26 DEF HealthCtxDone
<1>27. CASE HealthTick
  BY <1>27 DEF HealthTick, Writing, HandlerPanics, ServerPanics
<1>28. CASE PingDone
  BY <1>28 DEF PingDone
<1>29. CASE PingFails
  BY <1>29 DEF PingFails, CallClose
<1>30. CASE HealthReturns
  BY <1>30 DEF HealthReturns
<1>31. CASE Dequeue
  BY <1>31 DEF Dequeue
<1>32. CASE StartFails
  BY <1>32 DEF StartFails
<1>33. CASE StartHealthCheck
  BY <1>33 DEF StartHealthCheck
<1>34. CASE StartHealthGo
  BY <1>34 DEF StartHealthGo
<1>35. CASE RunOutput
  BY <1>35 DEF RunOutput, Room
<1>36. CASE RunEnds
  BY <1>36 DEF RunEnds
<1>37. CASE StopHealthCheck
  BY <1>37 DEF StopHealthCheck, CallStop
<1>38. CASE StopHealthReturns
  BY <1>38 DEF StopHealthReturns
<1>39. CASE CloseMsgChan
  BY <1>39 DEF CloseMsgChan
<1>40. CASE CompleteActive
  BY <1>40 DEF CompleteActive
<1>41. CASE KeepAlive
  BY <1>41 DEF KeepAlive, Room
<1>42. CASE Shutdown
  BY <1>42 DEF Shutdown
<1>43. CASE PeerGone
  BY <1>43 DEF PeerGone
<1>44. CASE UNCHANGED vars
  BY <1>44 DEF vars
<1>45. CASE FeedTaken \/ FeedFails
  BY <1>45 DEF FeedTaken, FeedFails, FeedReturns
<1>46. CASE prepareCommand
  BY <1>46 DEF prepareCommand
<1>47. CASE Start
  BY <1>47 DEF Start
<1>48. CASE SendError
  BY <1>48 DEF SendError, Room
<1>49. CASE OthersStick
  BY <1>49 DEF OthersStick
<1> QED
  BY <1>1, <1>2, <1>3, <1>4, <1>5, <1>6, <1>7, <1>8, <1>9, <1>10, <1>11, <1>12, <1>13,
     <1>14, <1>15, <1>16, <1>17, <1>18, <1>19, <1>20, <1>21, <1>22, <1>23, <1>24, <1>25,
     <1>26, <1>27, <1>28, <1>29, <1>30, <1>31, <1>32, <1>33, <1>34, <1>35, <1>36, <1>37,
     <1>38, <1>39, <1>40, <1>41, <1>42, <1>43, <1>44, <1>45, <1>46, <1>47, <1>48, <1>49
     DEF Next, Handler, processConnection, Router, Close, Stop, Reader, Health, Worker,
         Closers, Stoppers

\* Until somebody closes the session, whoever stops the goroutine waits for its end.
LEMMA WaitedStays ==
  PlacesOK /\ CloseInv /\ PhaseInv /\ HealthInv /\ WaitedInv /\ [Next]_vars => WaitedInv'
<1> SUFFICES ASSUME PlacesOK, CloseInv, PhaseInv, HealthInv, WaitedInv, [Next]_vars PROVE WaitedInv'
  OBVIOUS
<1> USE DEF PlacesOK, Go, Closers, Stoppers, inputVars, queueVars, healthVars, closeVars,
            CloseInv, PhaseInv, Routing, HealthInv, WaitedInv, Unstarted
<1>1. CASE HandshakeFails
  BY <1>1 DEF HandshakeFails, CloseThen, CallClose
<1>2. CASE HandshakeDone
  BY <1>2 DEF HandshakeDone
<1>3. CASE RegisterSession
  BY <1>3 DEF RegisterSession
<1>4. CASE Enqueue
  BY <1>4 DEF Enqueue
<1>5. CASE AwaitReader
  BY <1>5 DEF AwaitReader
<1>6. CASE UnregisterBegin
  BY <1>6 DEF UnregisterBegin, CallStop
<1>7. CASE UnregisterEnd
  BY <1>7 DEF UnregisterEnd, CloseThen, CallClose
<1>8. CASE CloseReturns
  BY <1>8 DEF CloseReturns
<1>9. CASE RouteOutbox
  BY <1>9 DEF RouteOutbox, BeginWrite, HandlerPanics, ServerPanics
<1>10. CASE RouteOutboxClosed
  BY <1>10 DEF RouteOutboxClosed, BeginWrite, HandlerPanics, ServerPanics
<1>11. CASE RouteInbox
  BY <1>11 DEF RouteInbox
<1>12. CASE FeedInput
  BY <1>12 DEF FeedInput
<1>13. CASE RouteCtxDone
  BY <1>13 DEF RouteCtxDone
<1>14. CASE WriteDone
  BY <1>14 DEF WriteDone
<1>15. CASE WriteFails
  BY <1>15 DEF WriteFails, CloseThen, CallClose
<1>16. CASE FinishedWritten
  BY <1>16 DEF FinishedWritten, CloseThen, CallClose
<1>17. ASSUME NEW a \in Closers, CloseEnter(a) PROVE WaitedInv'
  BY <1>17 DEF CloseEnter, CallStop
<1>18. ASSUME NEW a \in Closers, CloseCancel(a) PROVE WaitedInv'
  BY <1>18 DEF CloseCancel
<1>19. ASSUME NEW a \in Closers, CloseConn(a) PROVE WaitedInv'
  BY <1>19 DEF CloseConn
<1>20. ASSUME NEW a \in Stoppers, StopCheck(a) PROVE WaitedInv'
  BY <1>20 DEF StopCheck
<1>21. ASSUME NEW a \in Stoppers, StopWait(a) PROVE WaitedInv'
  BY <1>21 DEF StopWait
<1>22. CASE ReadCommand
  BY <1>22 DEF ReadCommand
<1>23. CASE ReadFails
  BY <1>23 DEF ReadFails
<1>24. CASE SendCommand
  BY <1>24 DEF SendCommand
<1>25. CASE ReaderCancelled
  BY <1>25 DEF ReaderCancelled
<1>26. CASE HealthCtxDone
  BY <1>26 DEF HealthCtxDone
<1>27. CASE HealthTick
  BY <1>27 DEF HealthTick, Writing, HandlerPanics, ServerPanics
<1>28. CASE PingDone
  BY <1>28 DEF PingDone
<1>29. CASE PingFails
  BY <1>29 DEF PingFails, CallClose
<1>30. CASE HealthReturns
  BY <1>30 DEF HealthReturns
<1>31. CASE Dequeue
  BY <1>31 DEF Dequeue
<1>32. CASE StartFails
  BY <1>32 DEF StartFails
<1>33. CASE StartHealthCheck
  BY <1>33 DEF StartHealthCheck
<1>34. CASE StartHealthGo
  BY <1>34 DEF StartHealthGo
<1>35. CASE RunOutput
  BY <1>35 DEF RunOutput, Room
<1>36. CASE RunEnds
  BY <1>36 DEF RunEnds
<1>37. CASE StopHealthCheck
  BY <1>37 DEF StopHealthCheck, CallStop
<1>38. CASE StopHealthReturns
  BY <1>38 DEF StopHealthReturns
<1>39. CASE CloseMsgChan
  BY <1>39 DEF CloseMsgChan
<1>40. CASE CompleteActive
  BY <1>40 DEF CompleteActive
<1>41. CASE KeepAlive
  BY <1>41 DEF KeepAlive, Room
<1>42. CASE Shutdown
  BY <1>42 DEF Shutdown
<1>43. CASE PeerGone
  BY <1>43 DEF PeerGone
<1>44. CASE UNCHANGED vars
  BY <1>44 DEF vars
<1>45. CASE FeedTaken \/ FeedFails
  BY <1>45 DEF FeedTaken, FeedFails, FeedReturns
<1>46. CASE prepareCommand
  BY <1>46 DEF prepareCommand
<1>47. CASE Start
  BY <1>47 DEF Start
<1>48. CASE SendError
  BY <1>48 DEF SendError, Room
<1>49. CASE OthersStick
  BY <1>49 DEF OthersStick
<1> QED
  BY <1>1, <1>2, <1>3, <1>4, <1>5, <1>6, <1>7, <1>8, <1>9, <1>10, <1>11, <1>12, <1>13,
     <1>14, <1>15, <1>16, <1>17, <1>18, <1>19, <1>20, <1>21, <1>22, <1>23, <1>24, <1>25,
     <1>26, <1>27, <1>28, <1>29, <1>30, <1>31, <1>32, <1>33, <1>34, <1>35, <1>36, <1>37,
     <1>38, <1>39, <1>40, <1>41, <1>42, <1>43, <1>44, <1>45, <1>46, <1>47, <1>48, <1>49
     DEF Next, Handler, processConnection, Router, Close, Stop, Reader, Health, Worker,
         Closers, Stoppers

\* Whoever has returned from Close has cancelled the context.
LEMMA CancelStays ==
  PlacesOK /\ CloseInv /\ CancelInv /\ [Next]_vars => CancelInv'
<1> SUFFICES ASSUME PlacesOK, CloseInv, CancelInv, [Next]_vars PROVE CancelInv'
  OBVIOUS
<1> USE DEF PlacesOK, Go, Closers, Stoppers, inputVars, queueVars, healthVars, closeVars,
            CloseInv, CancelInv
<1>1. CASE HandshakeFails
  BY <1>1 DEF HandshakeFails, CloseThen, CallClose
<1>2. CASE HandshakeDone
  BY <1>2 DEF HandshakeDone
<1>3. CASE RegisterSession
  BY <1>3 DEF RegisterSession
<1>4. CASE Enqueue
  BY <1>4 DEF Enqueue
<1>5. CASE AwaitReader
  BY <1>5 DEF AwaitReader
<1>6. CASE UnregisterBegin
  BY <1>6 DEF UnregisterBegin, CallStop
<1>7. CASE UnregisterEnd
  BY <1>7 DEF UnregisterEnd, CloseThen, CallClose
<1>8. CASE CloseReturns
  BY <1>8 DEF CloseReturns
<1>9. CASE RouteOutbox
  BY <1>9 DEF RouteOutbox, BeginWrite, HandlerPanics, ServerPanics
<1>10. CASE RouteOutboxClosed
  BY <1>10 DEF RouteOutboxClosed, BeginWrite, HandlerPanics, ServerPanics
<1>11. CASE RouteInbox
  BY <1>11 DEF RouteInbox
<1>12. CASE FeedInput
  BY <1>12 DEF FeedInput
<1>13. CASE RouteCtxDone
  BY <1>13 DEF RouteCtxDone
<1>14. CASE WriteDone
  BY <1>14 DEF WriteDone
<1>15. CASE WriteFails
  BY <1>15 DEF WriteFails, CloseThen, CallClose
<1>16. CASE FinishedWritten
  BY <1>16 DEF FinishedWritten, CloseThen, CallClose
<1>17. ASSUME NEW a \in Closers, CloseEnter(a) PROVE CancelInv'
  BY <1>17 DEF CloseEnter, CallStop
<1>18. ASSUME NEW a \in Closers, CloseCancel(a) PROVE CancelInv'
  BY <1>18 DEF CloseCancel
<1>19. ASSUME NEW a \in Closers, CloseConn(a) PROVE CancelInv'
  BY <1>19 DEF CloseConn
<1>20. ASSUME NEW a \in Stoppers, StopCheck(a) PROVE CancelInv'
  BY <1>20 DEF StopCheck
<1>21. ASSUME NEW a \in Stoppers, StopWait(a) PROVE CancelInv'
  BY <1>21 DEF StopWait
<1>22. CASE ReadCommand
  BY <1>22 DEF ReadCommand
<1>23. CASE ReadFails
  BY <1>23 DEF ReadFails
<1>24. CASE SendCommand
  BY <1>24 DEF SendCommand
<1>25. CASE ReaderCancelled
  BY <1>25 DEF ReaderCancelled
<1>26. CASE HealthCtxDone
  BY <1>26 DEF HealthCtxDone
<1>27. CASE HealthTick
  BY <1>27 DEF HealthTick, Writing, HandlerPanics, ServerPanics
<1>28. CASE PingDone
  BY <1>28 DEF PingDone
<1>29. CASE PingFails
  BY <1>29 DEF PingFails, CallClose
<1>30. CASE HealthReturns
  BY <1>30 DEF HealthReturns
<1>31. CASE Dequeue
  BY <1>31 DEF Dequeue
<1>32. CASE StartFails
  BY <1>32 DEF StartFails
<1>33. CASE StartHealthCheck
  BY <1>33 DEF StartHealthCheck
<1>34. CASE StartHealthGo
  BY <1>34 DEF StartHealthGo
<1>35. CASE RunOutput
  BY <1>35 DEF RunOutput, Room
<1>36. CASE RunEnds
  BY <1>36 DEF RunEnds
<1>37. CASE StopHealthCheck
  BY <1>37 DEF StopHealthCheck, CallStop
<1>38. CASE StopHealthReturns
  BY <1>38 DEF StopHealthReturns
<1>39. CASE CloseMsgChan
  BY <1>39 DEF CloseMsgChan
<1>40. CASE CompleteActive
  BY <1>40 DEF CompleteActive
<1>41. CASE KeepAlive
  BY <1>41 DEF KeepAlive, Room
<1>42. CASE Shutdown
  BY <1>42 DEF Shutdown
<1>43. CASE PeerGone
  BY <1>43 DEF PeerGone
<1>44. CASE UNCHANGED vars
  BY <1>44 DEF vars
<1>45. CASE FeedTaken \/ FeedFails
  BY <1>45 DEF FeedTaken, FeedFails, FeedReturns
<1>46. CASE prepareCommand
  BY <1>46 DEF prepareCommand
<1>47. CASE Start
  BY <1>47 DEF Start
<1>48. CASE SendError
  BY <1>48 DEF SendError, Room
<1>49. CASE OthersStick
  BY <1>49 DEF OthersStick
<1> QED
  BY <1>1, <1>2, <1>3, <1>4, <1>5, <1>6, <1>7, <1>8, <1>9, <1>10, <1>11, <1>12, <1>13,
     <1>14, <1>15, <1>16, <1>17, <1>18, <1>19, <1>20, <1>21, <1>22, <1>23, <1>24, <1>25,
     <1>26, <1>27, <1>28, <1>29, <1>30, <1>31, <1>32, <1>33, <1>34, <1>35, <1>36, <1>37,
     <1>38, <1>39, <1>40, <1>41, <1>42, <1>43, <1>44, <1>45, <1>46, <1>47, <1>48, <1>49
     DEF Next, Handler, processConnection, Router, Close, Stop, Reader, Health, Worker,
         Closers, Stoppers

-----------------------------------------------------------------------------
(* The inductive invariant and what follows from it. *)

Inv ==
  PlacesOK /\ CloseInv /\ EndingInv /\ PhaseInv /\ HealthInv /\ WaitedInv /\ CancelInv

\* The inductive invariant holds in every state of a session.
THEOREM InvariantHolds == Spec => []Inv
<1>1. Init => Inv
  BY DEF Init, Inv, PlacesOK, CloseInv, EndingInv, PhaseInv, HealthInv, WaitedInv, CancelInv,
     Routing, Unstarted, Closers, Stoppers
<1>2. Inv /\ [Next]_vars => Inv'
  BY PlacesStay, CloseStays, EndingStays, PhaseStays, HealthStays, WaitedStays, CancelStays
     DEF Inv
<1> QED
  BY <1>1, <1>2, PTL DEF Spec

\* The connection is closed only after task_finished was written or could not be, a write
\* has failed, or the queue manager has dropped the task.
THEOREM SignalComesFirst == Spec => []SignalBeforeClose
<1>1. Inv => SignalBeforeClose
  BY DEF Inv, EndingInv, SignalBeforeClose
<1> QED
  BY <1>1, InvariantHolds, PTL

\* While the router writes task_finished no health goroutine is left that could write a
\* ping, unless somebody else is closing the session already.
THEOREM FinishedIsAlone == Spec => []FinishedAlone
<1>1. Inv => FinishedAlone
  BY DEF Inv, PhaseInv, Routing, HealthInv, WaitedInv, Unstarted, FinishedAlone
<1> QED
  BY <1>1, InvariantHolds, PTL

\* A handler that has returned leaves no health goroutine that was not told to stop,
\* wherever the Worker was when the session was unregistered.
THEOREM NoPingerIsLeft == Spec => []NoPingerLeft
<1>1. Inv => NoPingerLeft
  BY DEF Inv, PhaseInv, HealthInv, NoPingerLeft
<1> QED
  BY <1>1, InvariantHolds, PTL

\* The only circles of goroutines that wait for one another are that of the health
\* goroutine which waits for its own end, in Close or behind the handler's Close, and that of
\* the router in FeedInput with the Worker: by the order health, handler, reader, worker no
\* other goroutine waits for one before it that waits.
THEOREM OnlyKnownCircles == Spec => []NoCircularWait
<1>1. ASSUME Inv, ~SelfWait, ~FeedCircle PROVE NoCircularWait
  <2> SUFFICES ASSUME NEW waiting \in SUBSET Goroutines,
                      \A g \in waiting : \E h \in waiting : Awaits(g, h)
               PROVE  waiting = {}
    BY <1>1 DEF NoCircularWait
  <2> USE <1>1 DEF Inv, PlacesOK, CloseInv, Closers, Stoppers
  <2>1. "health" \notin waiting
    <3> SUFFICES ASSUME "health" \in waiting PROVE FALSE
      OBVIOUS
    <3>1. closing["health"] = "once" /\ once = "handler" /\ "handler" \in waiting
      <4>1. PICK h \in waiting : Awaits("health", h)
        OBVIOUS
      <4> QED
        BY <4>1 DEF Awaits, TakesMutex, SelfWait, Goroutines
    <3>2. stopping["handler"] = "wait"
      BY <3>1 DEF Awaits, TakesMutex, Feeding, Goroutines
    <3> QED
      BY <3>1, <3>2 DEF SelfWait
  <2>2. "worker" \in waiting => ~Feeding
    <3> SUFFICES ASSUME NEW w \in waiting, Awaits("worker", w), Feeding PROVE FALSE
      OBVIOUS
    <3>1. w = "health"
      BY DEF Awaits, FeedCircle
    <3> QED
      BY <2>1, <3>1
  <2>3. "handler" \notin waiting
    <3> SUFFICES ASSUME "handler" \in waiting PROVE FALSE
      OBVIOUS
    <3>1. PICK h \in waiting : Awaits("handler", h)
      OBVIOUS
    <3>2. CASE h = "reader"
      <4>1. pc["handler"] = "awaitReader" /\ ~cancelled
        <5>1. PICK r \in waiting : Awaits("reader", r)
          BY <3>2
        <5> QED
          BY <3>1, <3>2, <5>1 DEF Awaits, TakesMutex
      <4> QED
        BY <4>1 DEF CancelInv
    <3>3. CASE h = "worker"
      <4>1. pc["worker"] \in {"starting", "stopping"}
        BY <2>2, <3>1, <3>3 DEF Awaits, TakesMutex
      <4>2. PICK w \in waiting : Awaits("worker", w)
        BY <3>3
      <4> QED
        BY <2>1, <4>1, <4>2 DEF Awaits, TakesMutex, OutputWaits
    <3>4. h # "handler"
      BY <3>1 DEF Awaits, TakesMutex
    <3> QED
      BY <2>1, <3>2, <3>3, <3>4 DEF Goroutines
  <2>4. "reader" \notin waiting
    BY <2>3 DEF Awaits, TakesMutex
  <2>5. "worker" \notin waiting
    <3> SUFFICES ASSUME NEW w \in waiting, Awaits("worker", w) PROVE FALSE
      OBVIOUS
    <3> QED
      BY <2>1, <2>3 DEF Awaits, TakesMutex
  <2> QED
    BY <2>1, <2>3, <2>4, <2>5 DEF Goroutines
<1>2. Inv => NoCircularWait
  BY <1>1 DEF NoCircularWait
<1> QED
  BY <1>2, InvariantHolds, PTL

=============================================================================
