---------------------------- MODULE ClientProofs -----------------------------
(***************************************************************************)
(* Theorems about ClientLoop, for an interactive client or not and for any *)
(* number of messages under way.                                           *)
(***************************************************************************)
EXTENDS ClientLoop, TLAPS

-----------------------------------------------------------------------------
(* Type correctness. *)

\* The process goes on after the start of a write, or does not.
LEMMA StartWriteIs ==
  ASSUME NEW p, StartWrite(p)
  PROVE  alive' \in BOOLEAN
<1>1. CASE writing = {}
  BY <1>1 DEF StartWrite
<1>2. CASE writing # {}
  BY <1>2 DEF StartWrite
<1> QED
  BY <1>1, <1>2

\* A message asks for a rate and is handed over whole.
LEMMA ReadMessageIs ==
  ASSUME TypeOK, ReadMessage
  PROVE  ValuesOK'
<1> DEFINE m == Head(wire)
<1>1. /\ m \in News \cup {"output"}
      /\ wire' \in Seq(News \cup {"output"})
      /\ Len(wire') <= MaxWire
  BY ClientConstantsOK DEF ReadMessage, TypeOK, ValuesOK, ClientConstantsOK
<1>2. m \in News => Rate(m) \in Rates
  BY DEF Rate, Rates, News
<1>3. pingCh' \in Seq(Rates) /\ Len(pingCh') <= 1
  <2> HIDE DEF m
  <2>1. CASE m \in News
    <3>1. pingCh' = IF pingCh = <<>> THEN <<Rate(m)>> ELSE pingCh
      BY <2>1 DEF ReadMessage, nonBlockingSend, m
    <3>2. <<Rate(m)>> \in Seq(Rates) /\ Len(<<Rate(m)>>) = 1
      BY <1>2, <2>1
    <3> QED
      BY <1>2, <2>1, <3>1, <3>2 DEF TypeOK, ValuesOK
  <2>2. CASE m \notin News
    BY <2>2 DEF ReadMessage, TypeOK, ValuesOK, m
  <2> QED
    BY <2>1, <2>2
<1> QED
  BY <1>1, <1>3 DEF ReadMessage, TypeOK, ValuesOK, held, connVars, feedVars

\* Every step leaves the flags Boolean.
LEMMA FlagsStay == TypeOK /\ [Next]_vars => FlagsOK'
<1> SUFFICES ASSUME TypeOK, [Next]_vars PROVE FlagsOK'
  OBVIOUS
<1> USE DEF TypeOK, FlagsOK, StartWrite, Written, WriteFails, connVars, ctxVars
<1>1. CASE PrepareFails
  BY <1>1 DEF PrepareFails
<1>2. CASE MakeRaw
  BY <1>2 DEF MakeRaw
<1>3. CASE Restore
  BY <1>3 DEF Restore
<1>4. CASE SetupTunnel
  BY <1>4 DEF SetupTunnel
<1>5. CASE SetupTunnelFails
  BY <1>5 DEF SetupTunnelFails
<1>6. CASE Dial
  BY <1>6 DEF Dial
<1>7. CASE DialFails
  BY <1>7 DEF DialFails
<1>8. CASE SendRequest
  BY <1>8, StartWriteIs DEF SendRequest
<1>9. CASE RequestSent
  BY <1>9 DEF RequestSent
<1>10. CASE RequestFails
  BY <1>10 DEF RequestFails
<1>11. CASE CheckCancelled
  BY <1>11 DEF CheckCancelled
<1>12. CASE CheckGoesOn
  BY <1>12 DEF CheckGoesOn
<1>13. CASE ReadMessage
  BY <1>13 DEF ReadMessage
<1>14. CASE ReadFails
  BY <1>14 DEF ReadFails
<1>15. CASE SendClose
  BY <1>15, StartWriteIs DEF SendClose
<1>16. CASE CloseSent
  BY <1>16 DEF CloseSent
<1>17. CASE CancelStdin
  BY <1>17 DEF CancelStdin
<1>18. CASE CloseConn
  BY <1>18 DEF CloseConn
<1>19. CASE CloseTunnel
  BY <1>19 DEF CloseTunnel
<1>20. CASE PingerCancelled
  BY <1>20 DEF PingerCancelled
<1>21. CASE TakeInterval
  BY <1>21 DEF TakeInterval
<1>22. CASE Tick
  BY <1>22, StartWriteIs DEF Tick
<1>23. CASE PingSent
  BY <1>23 DEF PingSent
<1>24. CASE PingFails
  BY <1>24 DEF PingFails
<1>25. CASE FeedCheck
  BY <1>25 DEF FeedCheck
<1>26. CASE SendInput
  BY <1>26, StartWriteIs DEF SendInput
<1>27. CASE InputSent
  BY <1>27 DEF InputSent
<1>28. CASE InputFails
  BY <1>28 DEF InputFails
<1>29. CASE AfterRead
  BY <1>29 DEF AfterRead
<1>30. CASE Cancel
  BY <1>30 DEF Cancel
<1>31. CASE ServerRuns
  BY <1>31 DEF ServerRuns
<1>32. CASE PeerGone
  BY <1>32 DEF PeerGone
<1>33. ASSUME NEW chunk \in BOOLEAN, NEW err \in {"none", "eof", "fatal"},
             StdinRead(chunk, err)
      PROVE  FlagsOK'
  BY <1>33 DEF StdinRead
<1>34. ASSUME NEW m \in {"queue_position", "task_started", "output", "task_finished"},
             NEW next \in {"waiting", "running", "finished"}, ServerSends(m, next)
      PROVE  FlagsOK'
  BY <1>34 DEF ServerSends
<1>35. CASE UNCHANGED vars
  BY <1>35 DEF vars
<1> QED
  BY <1>1, <1>2, <1>3, <1>4, <1>5, <1>6, <1>7, <1>8, <1>9, <1>10, <1>11, <1>12, <1>13,
     <1>14, <1>15, <1>16, <1>17, <1>18, <1>19, <1>20, <1>21, <1>22, <1>23, <1>24, <1>25,
     <1>26, <1>27, <1>28, <1>29, <1>30, <1>31, <1>32, <1>33, <1>34, <1>35
     DEF Next, RunCommand, Execute, pingLoop, readStdinLoop, FeederSteps, Environment

\* Every goroutine goes from one of its places to another.
LEMMA PlacesStay == TypeOK /\ [Next]_vars => PlacesOK'
<1> SUFFICES ASSUME TypeOK, [Next]_vars PROVE PlacesOK'
  OBVIOUS
<1> USE DEF TypeOK, PlacesOK, Go
<1>1. CASE PrepareFails
  BY <1>1 DEF PrepareFails
<1>2. CASE MakeRaw
  BY <1>2 DEF MakeRaw
<1>3. CASE Restore
  BY <1>3 DEF Restore
<1>4. CASE SetupTunnel
  BY <1>4 DEF SetupTunnel
<1>5. CASE SetupTunnelFails
  BY <1>5 DEF SetupTunnelFails
<1>6. CASE Dial
  BY <1>6 DEF Dial
<1>7. CASE DialFails
  BY <1>7 DEF DialFails
<1>8. CASE SendRequest
  BY <1>8 DEF SendRequest
<1>9. CASE RequestSent
  BY <1>9 DEF RequestSent
<1>10. CASE RequestFails
  BY <1>10 DEF RequestFails
<1>11. CASE CheckCancelled
  BY <1>11 DEF CheckCancelled
<1>12. CASE CheckGoesOn
  BY <1>12 DEF CheckGoesOn
<1>13. CASE ReadMessage
  BY <1>13 DEF ReadMessage
<1>14. CASE ReadFails
  BY <1>14 DEF ReadFails
<1>15. CASE SendClose
  BY <1>15 DEF SendClose
<1>16. CASE CloseSent
  BY <1>16 DEF CloseSent
<1>17. CASE CancelStdin
  BY <1>17 DEF CancelStdin
<1>18. CASE CloseConn
  BY <1>18 DEF CloseConn
<1>19. CASE CloseTunnel
  BY <1>19 DEF CloseTunnel
<1>20. CASE PingerCancelled
  BY <1>20 DEF PingerCancelled
<1>21. CASE TakeInterval
  BY <1>21 DEF TakeInterval
<1>22. CASE Tick
  BY <1>22 DEF Tick
<1>23. CASE PingSent
  BY <1>23 DEF PingSent
<1>24. CASE PingFails
  BY <1>24 DEF PingFails
<1>25. CASE FeedCheck
  BY <1>25 DEF FeedCheck
<1>26. CASE SendInput
  BY <1>26 DEF SendInput
<1>27. CASE InputSent
  BY <1>27 DEF InputSent
<1>28. CASE InputFails
  BY <1>28 DEF InputFails
<1>29. CASE AfterRead
  BY <1>29 DEF AfterRead
<1>30. CASE Cancel
  BY <1>30 DEF Cancel
<1>31. CASE ServerRuns
  BY <1>31 DEF ServerRuns
<1>32. CASE PeerGone
  BY <1>32 DEF PeerGone
<1>33. ASSUME NEW chunk \in BOOLEAN, NEW err \in {"none", "eof", "fatal"},
             StdinRead(chunk, err)
      PROVE  PlacesOK'
  BY <1>33 DEF StdinRead
<1>34. ASSUME NEW m \in {"queue_position", "task_started", "output", "task_finished"},
             NEW next \in {"waiting", "running", "finished"}, ServerSends(m, next)
      PROVE  PlacesOK'
  BY <1>34 DEF ServerSends
<1>35. CASE UNCHANGED vars
  BY <1>35 DEF vars
<1> QED
  BY <1>1, <1>2, <1>3, <1>4, <1>5, <1>6, <1>7, <1>8, <1>9, <1>10, <1>11, <1>12, <1>13,
     <1>14, <1>15, <1>16, <1>17, <1>18, <1>19, <1>20, <1>21, <1>22, <1>23, <1>24, <1>25,
     <1>26, <1>27, <1>28, <1>29, <1>30, <1>31, <1>32, <1>33, <1>34, <1>35
     DEF Next, RunCommand, Execute, pingLoop, readStdinLoop, FeederSteps, Environment

\* Every step keeps the channels within their bounds.
LEMMA ValuesStay == TypeOK /\ [Next]_vars => ValuesOK'
<1> SUFFICES ASSUME TypeOK, [Next]_vars PROVE ValuesOK'
  OBVIOUS
<1> USE DEF TypeOK, ValuesOK, Rates, StartWrite, Written, WriteFails,
            held, connVars, pingVars, feedVars, serverVars
<1>1. CASE PrepareFails
  BY <1>1 DEF PrepareFails
<1>2. CASE MakeRaw
  BY <1>2 DEF MakeRaw
<1>3. CASE Restore
  BY <1>3 DEF Restore
<1>4. CASE SetupTunnel
  BY <1>4 DEF SetupTunnel
<1>5. CASE SetupTunnelFails
  BY <1>5 DEF SetupTunnelFails
<1>6. CASE Dial
  BY <1>6 DEF Dial
<1>7. CASE DialFails
  BY <1>7 DEF DialFails
<1>8. CASE SendRequest
  BY <1>8 DEF SendRequest
<1>9. CASE RequestSent
  BY <1>9 DEF RequestSent
<1>10. CASE RequestFails
  BY <1>10 DEF RequestFails
<1>11. CASE CheckCancelled
  BY <1>11 DEF CheckCancelled
<1>12. CASE CheckGoesOn
  BY <1>12 DEF CheckGoesOn
<1>13. CASE ReadMessage
  BY <1>13, ReadMessageIs
<1>14. CASE ReadFails
  BY <1>14 DEF ReadFails
<1>15. CASE SendClose
  BY <1>15 DEF SendClose
<1>16. CASE CloseSent
  BY <1>16 DEF CloseSent
<1>17. CASE CancelStdin
  BY <1>17 DEF CancelStdin
<1>18. CASE CloseConn
  BY <1>18 DEF CloseConn
<1>19. CASE CloseTunnel
  BY <1>19 DEF CloseTunnel
<1>20. CASE PingerCancelled
  BY <1>20 DEF PingerCancelled
<1>21. CASE TakeInterval
  BY <1>21 DEF TakeInterval
<1>22. CASE Tick
  BY <1>22 DEF Tick
<1>23. CASE PingSent
  BY <1>23 DEF PingSent
<1>24. CASE PingFails
  BY <1>24 DEF PingFails
<1>25. CASE FeedCheck
  BY <1>25 DEF FeedCheck
<1>26. CASE SendInput
  BY <1>26 DEF SendInput
<1>27. CASE InputSent
  BY <1>27 DEF InputSent
<1>28. CASE InputFails
  BY <1>28 DEF InputFails
<1>29. CASE AfterRead
  BY <1>29 DEF AfterRead
<1>30. CASE Cancel
  BY <1>30 DEF Cancel
<1>31. CASE ServerRuns
  BY <1>31 DEF ServerRuns
<1>32. CASE PeerGone
  BY <1>32 DEF PeerGone
<1>33. ASSUME NEW chunk \in BOOLEAN, NEW err \in {"none", "eof", "fatal"},
             StdinRead(chunk, err)
      PROVE  ValuesOK'
  BY <1>33 DEF StdinRead
<1>34. ASSUME NEW m \in {"queue_position", "task_started", "output", "task_finished"},
             NEW next \in {"waiting", "running", "finished"}, ServerSends(m, next)
      PROVE  ValuesOK'
  BY <1>34, ClientConstantsOK DEF ServerSends, News, ClientConstantsOK
<1>35. CASE UNCHANGED vars
  BY <1>35 DEF vars
<1> QED
  BY <1>1, <1>2, <1>3, <1>4, <1>5, <1>6, <1>7, <1>8, <1>9, <1>10, <1>11, <1>12, <1>13,
     <1>14, <1>15, <1>16, <1>17, <1>18, <1>19, <1>20, <1>21, <1>22, <1>23, <1>24, <1>25,
     <1>26, <1>27, <1>28, <1>29, <1>30, <1>31, <1>32, <1>33, <1>34, <1>35
     DEF Next, RunCommand, Execute, pingLoop, readStdinLoop, FeederSteps, Environment

\* The state is well typed: the channel of intervals holds at most one of them and no
\* more messages are under way than there is room for.
THEOREM TypeCorrect == Spec => []TypeOK
<1>1. Init => TypeOK
  <2> SUFFICES ASSUME Init PROVE TypeOK
    OBVIOUS
  <2>1. FlagsOK
    BY DEF Init, FlagsOK
  <2>2. PlacesOK
    BY DEF Init, PlacesOK
  <2>3. ValuesOK
    BY ClientConstantsOK DEF Init, ValuesOK, Rates, ClientConstantsOK
  <2> QED
    BY <2>1, <2>2, <2>3 DEF TypeOK
<1>2. TypeOK /\ [Next]_vars => TypeOK'
  BY FlagsStay, PlacesStay, ValuesStay DEF TypeOK
<1> QED
  BY <1>1, <1>2, PTL DEF Spec

-----------------------------------------------------------------------------
(* The first frame. Until the request has been sent no news can have been read,   *)
(* so the ping loop has neither a ticker nor an interval that would start one.    *)

RequestInv ==
  pc["main"] \in {"run", "tunnel", "dial", "request", "requesting"} =>
    /\ writing \subseteq {"main"}
    /\ ticker = "off"
    /\ pingCh = <<>>
    /\ pc["pinger"] # "ping"
    /\ pc["feeder"] = "off"

\* The execute command is the first frame and no other write meets it (Execute starts the
\* ping loop before it sends the command).
THEOREM RequestIsFirst == Spec => []RequestFirst
<1>1. Init => RequestInv
  BY DEF Init, RequestInv
<1>2. TypeOK /\ RequestInv /\ [Next]_vars => RequestInv'
  <2> SUFFICES ASSUME TypeOK, RequestInv, [Next]_vars PROVE RequestInv'
    OBVIOUS
  <2> USE DEF TypeOK, PlacesOK, RequestInv, Go, StartWrite, Written, WriteFails,
              connVars, ctxVars, pingVars, feedVars
  <2>1. CASE PrepareFails
    BY <2>1 DEF PrepareFails
  <2>2. CASE MakeRaw
    BY <2>2 DEF MakeRaw
  <2>3. CASE Restore
    BY <2>3 DEF Restore
  <2>4. CASE SetupTunnel
    BY <2>4 DEF SetupTunnel
  <2>5. CASE SetupTunnelFails
    BY <2>5 DEF SetupTunnelFails
  <2>6. CASE Dial
    BY <2>6 DEF Dial
  <2>7. CASE DialFails
    BY <2>7 DEF DialFails
  <2>8. CASE SendRequest
    BY <2>8 DEF SendRequest
  <2>9. CASE RequestSent
    BY <2>9 DEF RequestSent
  <2>10. CASE RequestFails
    BY <2>10 DEF RequestFails
  <2>11. CASE CheckCancelled
    BY <2>11 DEF CheckCancelled
  <2>12. CASE CheckGoesOn
    BY <2>12 DEF CheckGoesOn
  <2>13. CASE ReadMessage
    BY <2>13 DEF ReadMessage
  <2>14. CASE ReadFails
    BY <2>14 DEF ReadFails
  <2>15. CASE SendClose
    BY <2>15 DEF SendClose
  <2>16. CASE CloseSent
    BY <2>16 DEF CloseSent
  <2>17. CASE CancelStdin
    BY <2>17 DEF CancelStdin
  <2>18. CASE CloseConn
    BY <2>18 DEF CloseConn
  <2>19. CASE CloseTunnel
    BY <2>19 DEF CloseTunnel
  <2>20. CASE PingerCancelled
    BY <2>20 DEF PingerCancelled
  <2>21. CASE TakeInterval
    BY <2>21 DEF TakeInterval
  <2>22. CASE Tick
    BY <2>22 DEF Tick
  <2>23. CASE PingSent
    BY <2>23 DEF PingSent
  <2>24. CASE PingFails
    BY <2>24 DEF PingFails
  <2>25. CASE FeedCheck
    BY <2>25 DEF FeedCheck
  <2>26. CASE SendInput
    BY <2>26 DEF SendInput
  <2>27. CASE InputSent
    BY <2>27 DEF InputSent
  <2>28. CASE InputFails
    BY <2>28 DEF InputFails
  <2>29. CASE AfterRead
    BY <2>29 DEF AfterRead
  <2>30. CASE Cancel
    BY <2>30 DEF Cancel
  <2>31. CASE ServerRuns
    BY <2>31 DEF ServerRuns
  <2>32. CASE PeerGone
    BY <2>32 DEF PeerGone
  <2>33. ASSUME NEW chunk \in BOOLEAN, NEW err \in {"none", "eof", "fatal"},
                StdinRead(chunk, err)
         PROVE  RequestInv'
    BY <2>33 DEF StdinRead, ValuesOK
  <2>34. ASSUME NEW m \in {"queue_position", "task_started", "output", "task_finished"},
                NEW next \in {"waiting", "running", "finished"}, ServerSends(m, next)
         PROVE  RequestInv'
    BY <2>34 DEF ServerSends
  <2>35. CASE UNCHANGED vars
    BY <2>35 DEF vars
  <2> QED
    BY <2>1, <2>2, <2>3, <2>4, <2>5, <2>6, <2>7, <2>8, <2>9, <2>10, <2>11, <2>12, <2>13,
       <2>14, <2>15, <2>16, <2>17, <2>18, <2>19, <2>20, <2>21, <2>22, <2>23, <2>24,
       <2>25, <2>26, <2>27, <2>28, <2>29, <2>30, <2>31, <2>32, <2>33, <2>34, <2>35
       DEF Next, RunCommand, Execute, pingLoop, readStdinLoop, FeederSteps, Environment
<1>3. RequestInv => RequestFirst
  BY DEF RequestInv, RequestFirst
<1> QED
  BY <1>1, <1>2, <1>3, TypeCorrect, PTL DEF Spec

-----------------------------------------------------------------------------
(* Late input. After the late chunk stdin is cancelled, and from its check of the *)
(* context the stdin loop does not come to another read.                          *)

ChunkInv ==
  /\ late \in {0, 1}
  /\ late = 1 => stdinDone /\ pc["feeder"] # "read"

\* After cancelStdin the stdin loop takes at most one chunk from the terminal.
THEOREM OnlyOneChunkLate == Spec => []OneChunkLate
<1>1. Init => ChunkInv
  BY DEF Init, ChunkInv
<1>2. TypeOK /\ ChunkInv /\ [Next]_vars => ChunkInv'
  <2> SUFFICES ASSUME TypeOK, ChunkInv, [Next]_vars PROVE ChunkInv'
    OBVIOUS
  <2> USE DEF TypeOK, PlacesOK, ChunkInv, Go, ctxVars, feedVars
  <2>1. CASE PrepareFails
    BY <2>1 DEF PrepareFails
  <2>2. CASE MakeRaw
    BY <2>2 DEF MakeRaw
  <2>3. CASE Restore
    BY <2>3 DEF Restore
  <2>4. CASE SetupTunnel
    BY <2>4 DEF SetupTunnel
  <2>5. CASE SetupTunnelFails
    BY <2>5 DEF SetupTunnelFails
  <2>6. CASE Dial
    BY <2>6 DEF Dial
  <2>7. CASE DialFails
    BY <2>7 DEF DialFails
  <2>8. CASE SendRequest
    BY <2>8 DEF SendRequest
  <2>9. CASE RequestSent
    BY <2>9 DEF RequestSent
  <2>10. CASE RequestFails
    BY <2>10 DEF RequestFails
  <2>11. CASE CheckCancelled
    BY <2>11 DEF CheckCancelled
  <2>12. CASE CheckGoesOn
    BY <2>12 DEF CheckGoesOn
  <2>13. CASE ReadMessage
    BY <2>13 DEF ReadMessage
  <2>14. CASE ReadFails
    BY <2>14 DEF ReadFails
  <2>15. CASE SendClose
    BY <2>15 DEF SendClose
  <2>16. CASE CloseSent
    BY <2>16 DEF CloseSent
  <2>17. CASE CancelStdin
    BY <2>17 DEF CancelStdin
  <2>18. CASE CloseConn
    BY <2>18 DEF CloseConn
  <2>19. CASE CloseTunnel
    BY <2>19 DEF CloseTunnel
  <2>20. CASE PingerCancelled
    BY <2>20 DEF PingerCancelled
  <2>21. CASE TakeInterval
    BY <2>21 DEF TakeInterval
  <2>22. CASE Tick
    BY <2>22 DEF Tick
  <2>23. CASE PingSent
    BY <2>23 DEF PingSent
  <2>24. CASE PingFails
    BY <2>24 DEF PingFails
  <2>25. CASE FeedCheck
    BY <2>25 DEF FeedCheck, StdinDone
  <2>26. CASE SendInput
    BY <2>26 DEF SendInput
  <2>27. CASE InputSent
    BY <2>27 DEF InputSent
  <2>28. CASE InputFails
    BY <2>28 DEF InputFails
  <2>29. CASE AfterRead
    BY <2>29 DEF AfterRead
  <2>30. CASE Cancel
    BY <2>30 DEF Cancel
  <2>31. CASE ServerRuns
    BY <2>31 DEF ServerRuns
  <2>32. CASE PeerGone
    BY <2>32 DEF PeerGone
  <2>33. ASSUME NEW chunk \in BOOLEAN, NEW err \in {"none", "eof", "fatal"},
                StdinRead(chunk, err)
         PROVE  ChunkInv'
    BY <2>33 DEF StdinRead, ValuesOK
  <2>34. ASSUME NEW m \in {"queue_position", "task_started", "output", "task_finished"},
                NEW next \in {"waiting", "running", "finished"}, ServerSends(m, next)
         PROVE  ChunkInv'
    BY <2>34 DEF ServerSends
  <2>35. CASE UNCHANGED vars
    BY <2>35 DEF vars
  <2> QED
    BY <2>1, <2>2, <2>3, <2>4, <2>5, <2>6, <2>7, <2>8, <2>9, <2>10, <2>11, <2>12, <2>13,
       <2>14, <2>15, <2>16, <2>17, <2>18, <2>19, <2>20, <2>21, <2>22, <2>23, <2>24,
       <2>25, <2>26, <2>27, <2>28, <2>29, <2>30, <2>31, <2>32, <2>33, <2>34, <2>35
       DEF Next, RunCommand, Execute, pingLoop, readStdinLoop, FeederSteps, Environment
<1>3. ChunkInv => OneChunkLate
  BY DEF ChunkInv, OneChunkLate
<1> QED
  BY <1>1, <1>2, <1>3, TypeCorrect, PTL DEF Spec

-----------------------------------------------------------------------------
(* What Execute and the run command hold: the tunnel is opened before the dial    *)
(* and closed after the connection, whether the dial has succeeded or not.        *)

HeldInv ==
  /\ connOpen => pc["main"] \in {"request", "requesting", "check", "read", "finish", "closing",
                                "leave", "close"}
  /\ pc["main"] \in {"run", "tunnel"} => tunnel = "none"
  /\ tunnel = "closed" => pc["main"] \in {"returned", "exit"}
  /\ pc["main"] \in {"returned", "exit"} => tunnel # "open"
  /\ pc["main"] \in {"run", "exit"} => tty = "cooked"

\* Whichever step of the run command or of Execute fails, the connection, the tunnel and
\* the terminal are given back in that order.
THEOREM NothingIsLeftOpen == Spec => []NothingLeftOpen
<1>1. Init => HeldInv
  BY DEF Init, HeldInv
<1>2. TypeOK /\ HeldInv /\ [Next]_vars => HeldInv'
  <2> SUFFICES ASSUME TypeOK, HeldInv, [Next]_vars PROVE HeldInv'
    OBVIOUS
  <2> USE DEF TypeOK, PlacesOK, HeldInv, Go, StartWrite, Written, WriteFails,
              held, connVars
  <2>1. CASE PrepareFails
    BY <2>1 DEF PrepareFails
  <2>2. CASE MakeRaw
    BY <2>2 DEF MakeRaw
  <2>3. CASE Restore
    BY <2>3 DEF Restore
  <2>4. CASE SetupTunnel
    BY <2>4 DEF SetupTunnel
  <2>5. CASE SetupTunnelFails
    BY <2>5 DEF SetupTunnelFails
  <2>6. CASE Dial
    BY <2>6 DEF Dial
  <2>7. CASE DialFails
    BY <2>7 DEF DialFails
  <2>8. CASE SendRequest
    BY <2>8 DEF SendRequest
  <2>9. CASE RequestSent
    BY <2>9 DEF RequestSent
  <2>10. CASE RequestFails
    BY <2>10 DEF RequestFails
  <2>11. CASE CheckCancelled
    BY <2>11 DEF CheckCancelled
  <2>12. CASE CheckGoesOn
    BY <2>12 DEF CheckGoesOn
  <2>13. CASE ReadMessage
    BY <2>13 DEF ReadMessage
  <2>14. CASE ReadFails
    BY <2>14 DEF ReadFails
  <2>15. CASE SendClose
    BY <2>15 DEF SendClose
  <2>16. CASE CloseSent
    BY <2>16 DEF CloseSent
  <2>17. CASE CancelStdin
    BY <2>17 DEF CancelStdin
  <2>18. CASE CloseConn
    BY <2>18 DEF CloseConn
  <2>19. CASE CloseTunnel
    BY <2>19 DEF CloseTunnel
  <2>20. CASE PingerCancelled
    BY <2>20 DEF PingerCancelled
  <2>21. CASE TakeInterval
    BY <2>21 DEF TakeInterval
  <2>22. CASE Tick
    BY <2>22 DEF Tick
  <2>23. CASE PingSent
    BY <2>23 DEF PingSent
  <2>24. CASE PingFails
    BY <2>24 DEF PingFails
  <2>25. CASE FeedCheck
    BY <2>25 DEF FeedCheck
  <2>26. CASE SendInput
    BY <2>26 DEF SendInput
  <2>27. CASE InputSent
    BY <2>27 DEF InputSent
  <2>28. CASE InputFails
    BY <2>28 DEF InputFails
  <2>29. CASE AfterRead
    BY <2>29 DEF AfterRead
  <2>30. CASE Cancel
    BY <2>30 DEF Cancel
  <2>31. CASE ServerRuns
    BY <2>31 DEF ServerRuns
  <2>32. CASE PeerGone
    BY <2>32 DEF PeerGone
  <2>33. ASSUME NEW chunk \in BOOLEAN, NEW err \in {"none", "eof", "fatal"},
                StdinRead(chunk, err)
         PROVE  HeldInv'
    BY <2>33 DEF StdinRead
  <2>34. ASSUME NEW m \in {"queue_position", "task_started", "output", "task_finished"},
                NEW next \in {"waiting", "running", "finished"}, ServerSends(m, next)
         PROVE  HeldInv'
    BY <2>34 DEF ServerSends
  <2>35. CASE UNCHANGED vars
    BY <2>35 DEF vars
  <2> QED
    BY <2>1, <2>2, <2>3, <2>4, <2>5, <2>6, <2>7, <2>8, <2>9, <2>10, <2>11, <2>12, <2>13,
       <2>14, <2>15, <2>16, <2>17, <2>18, <2>19, <2>20, <2>21, <2>22, <2>23, <2>24,
       <2>25, <2>26, <2>27, <2>28, <2>29, <2>30, <2>31, <2>32, <2>33, <2>34, <2>35
       DEF Next, RunCommand, Execute, pingLoop, readStdinLoop, FeederSteps, Environment
<1>3. HeldInv => NothingLeftOpen
  BY DEF HeldInv, NothingLeftOpen
<1> QED
  BY <1>1, <1>2, <1>3, TypeCorrect, PTL DEF Spec

=============================================================================
