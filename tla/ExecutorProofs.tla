---------------------------- MODULE ExecutorProofs ----------------------------
(***************************************************************************)
(* Theorems about Executor: for any capacity of the outbox and of the      *)
(* command's pipes, and any number of tokens and of calls of FeedInput.    *)
(***************************************************************************)
EXTENDS Executor, TLAPS

-----------------------------------------------------------------------------
(* Type correctness: of all but the outbox, and of the outbox. *)

Messages == [stream : Streams, n : Nat]

OutboxOK ==
  /\ outbox \in Seq(Messages)
  /\ Len(outbox) <= OutboxSize

\* A message that finds room, or is not sent, leaves the outbox within its capacity.
LEMMA RoomForOne ==
  ASSUME OutboxOK, NEW m \in Messages,
         (Room /\ outbox' = Append(outbox, m)) \/ outbox' = outbox
  PROVE  OutboxOK'
<1>1. CASE Room /\ outbox' = Append(outbox, m)
  <2>1. outbox' \in Seq(Messages) /\ Len(outbox') = Len(outbox) + 1
    BY <1>1 DEF OutboxOK
  <2>2. Len(outbox) \in Nat /\ Len(outbox) < OutboxSize
    BY <1>1 DEF OutboxOK, Room
  <2> QED
    BY <2>1, <2>2, ExecutorConstantsOK DEF OutboxOK, ExecutorConstantsOK
<1>2. CASE outbox' = outbox
  BY <1>2 DEF OutboxOK
<1> QED
  BY <1>1, <1>2

\* Receiving makes room, and what is received is a message.
LEMMA ReceiveIs ==
  ASSUME OutboxOK, outbox # <<>>, outbox' = Tail(outbox)
  PROVE  /\ OutboxOK'
         /\ Head(outbox) \in Messages
<1>1. Head(outbox) \in Messages /\ Tail(outbox) \in Seq(Messages)
  BY DEF OutboxOK
<1>2. Len(Tail(outbox)) = Len(outbox) - 1 /\ Len(outbox) \in Nat
  BY DEF OutboxOK
<1> QED
  BY <1>1, <1>2, ExecutorConstantsOK DEF OutboxOK, ExecutorConstantsOK

\* What is in the outbox are messages.
LEMMA ElementIs ==
  ASSUME OutboxOK, NEW i \in DOMAIN outbox
  PROVE  outbox[i] \in Messages /\ outbox[i].n \in Nat /\ i \in Nat
<1>1. outbox \in Seq(Messages) /\ DOMAIN outbox = 1..Len(outbox) /\ Len(outbox) \in Nat
  BY DEF OutboxOK
<1>2. outbox[i] \in Messages
  BY <1>1
<1> QED
  BY <1>1, <1>2, ExecutorConstantsOK DEF Messages, ExecutorConstantsOK

\* The error message is a message.
LEMMA ErrorIsMessage == Token("stderr", 0) \in Messages
BY ExecutorConstantsOK DEF Token, Messages, Streams, ExecutorConstantsOK

\* Every step keeps the type.
LEMMA TypeStays == TypeOK /\ [Next]_vars => TypeOK'
<1> SUFFICES ASSUME TypeOK, [Next]_vars PROVE TypeOK'
  OBVIOUS
<1>0. OutboxOK
  BY DEF TypeOK, OutboxOK, Messages
<1> USE ExecutorConstantsOK DEF ExecutorConstantsOK, client, input, output, fixed
<1>1. CASE validateArgs
  BY <1>1 DEF validateArgs, TypeOK
<1>2. CASE validateArgsFails
  <2>1. OutboxOK'
    BY <1>2, <1>0, ErrorIsMessage, RoomForOne DEF validateArgsFails, SendError
  <2> QED
    BY <1>2, <2>1 DEF validateArgsFails, SendError, TypeOK, OutboxOK, Messages
<1>3. CASE prepareCommand
  BY <1>3 DEF prepareCommand, TypeOK
<1>4. CASE Start
  BY <1>4 DEF Start, TypeOK
<1>5. CASE StartFails
  BY <1>5 DEF StartFails, TypeOK
<1>6. CASE handleStartError
  <2>1. OutboxOK'
    BY <1>6, <1>0, ErrorIsMessage, RoomForOne DEF handleStartError, SendError
  <2> QED
    BY <1>6, <2>1 DEF handleStartError, SendError, TypeOK, OutboxOK, Messages
<1>7. CASE startHealthCheck
  BY <1>7 DEF startHealthCheck, TypeOK
<1>8. CASE readOutput
  BY <1>8 DEF readOutput, TypeOK
<1>9. CASE closeStdin
  BY <1>9 DEF closeStdin, TypeOK
<1>10. CASE Wait
  BY <1>10 DEF Wait, TypeOK
<1>11. CASE stopHealthCheck
  BY <1>11 DEF stopHealthCheck, TypeOK
<1>12. CASE CompleteActive
  BY <1>12 DEF CompleteActive, TypeOK
<1>13. ASSUME NEW p \in Streams, ReadToken(p) PROVE TypeOK'
  BY <1>13 DEF ReadToken, TypeOK
<1>14. ASSUME NEW p \in Streams, ReadEOF(p) PROVE TypeOK'
  BY <1>14 DEF ReadEOF, TypeOK
<1>15. ASSUME NEW p \in Streams, SendToken(p) PROVE TypeOK'
  <2>1. Token(p, taken[p]) \in Messages
    BY <1>15 DEF TypeOK, Token, Messages
  <2>2. OutboxOK'
    BY <1>15, <1>0, <2>1, RoomForOne DEF SendToken
  <2> QED
    BY <1>15, <2>2 DEF SendToken, TypeOK, OutboxOK, Messages
<1>16. ASSUME NEW p \in Streams, StreamCancelled(p) PROVE TypeOK'
  BY <1>16 DEF StreamCancelled, TypeOK
<1>17. CASE FeedInput
  BY <1>17 DEF FeedInput, TypeOK
<1>18. CASE FeedFails
  BY <1>18 DEF FeedFails, TypeOK
<1>19. CASE CopierTakes
  BY <1>19 DEF CopierTakes, TypeOK
<1>20. CASE CopierWrites
  BY <1>20 DEF CopierWrites, TypeOK
<1>21. CASE CopierEnds
  BY <1>21 DEF CopierEnds, TypeOK
<1>22. CASE ProcReads
  BY <1>22 DEF ProcReads, TypeOK
<1>23. CASE ProcForks
  BY <1>23 DEF ProcForks, TypeOK
<1>24. CASE HeirExits
  BY <1>24 DEF HeirExits, TypeOK
<1>25. CASE ProcExits
  BY <1>25 DEF ProcExits, TypeOK
<1>26. ASSUME NEW p \in Streams, ProcWrites(p) PROVE TypeOK'
  <2>1. written \in [Streams -> Nat] /\ written' = [written EXCEPT ![p] = @ + 1]
    BY <1>26 DEF ProcWrites, TypeOK
  <2>2. written' \in [Streams -> Nat]
    BY <1>26, <2>1
  <2>3. proc' \in {"none", "running", "exited"} \cup Streams
    BY <1>26 DEF ProcWrites, TypeOK
  <2>4. UNCHANGED <<fixed, pc, cancelled, mu, client, input, heir, reader, taken, outbox, got>>
    BY <1>26 DEF ProcWrites
  <2> QED
    BY <2>2, <2>3, <2>4 DEF TypeOK
<1>27. CASE RouterReceive
  <2>1. OutboxOK' /\ Head(outbox) \in Messages
    BY <1>27, <1>0, ReceiveIs DEF RouterReceive
  <2>2. got' \in [Streams -> Nat]
    BY <1>27, <2>1 DEF RouterReceive, TypeOK, Messages
  <2>3. router' \in {"select", "call", "feed", "close"}
    BY <1>27 DEF RouterReceive
  <2>4. UNCHANGED <<fixed, pc, cancelled, mu, health, input, proc, heir, written, reader, taken>>
    BY <1>27 DEF RouterReceive
  <2> QED
    BY <2>1, <2>2, <2>3, <2>4 DEF TypeOK, OutboxOK, Messages
<1>28. CASE Cancel
  BY <1>28 DEF Cancel, TypeOK
<1>29. CASE UNCHANGED vars
  BY <1>29 DEF vars, TypeOK
<1>30. CASE ReturnError
  BY <1>30 DEF ReturnError, TypeOK
<1>31. CASE CloseMsgChan
  BY <1>31 DEF CloseMsgChan, TypeOK
<1>32. CASE stopHealthReturns
  BY <1>32 DEF stopHealthReturns, TypeOK
<1>33. CASE CloseCancels
  BY <1>33 DEF CloseCancels, TypeOK
<1>34. CASE RouteInbox
  BY <1>34 DEF RouteInbox, TypeOK
<1>35. ASSUME NEW p \in Streams, ProcBlocks(p) PROVE TypeOK'
  BY <1>35 DEF ProcBlocks, TypeOK
<1>36. CASE HealthEnds
  BY <1>36 DEF HealthEnds, TypeOK
<1>37. CASE PingFails
  BY <1>37 DEF PingFails, TypeOK
<1> QED
  BY <1>1, <1>2, <1>3, <1>4, <1>5, <1>6, <1>7, <1>8, <1>9, <1>10, <1>11, <1>12, <1>13,
     <1>14, <1>15, <1>16, <1>17, <1>18, <1>19, <1>20, <1>21, <1>22, <1>23, <1>24, <1>25,
     <1>26, <1>27, <1>28, <1>29, <1>30, <1>31, <1>32, <1>33, <1>34, <1>35, <1>36,
     <1>37
     DEF Next, executeTask, Worker, streamOutput, Router, Copier, Command

\* And so does the start.
LEMMA StartsTyped == Init => TypeOK
<1> SUFFICES ASSUME Init PROVE TypeOK
  OBVIOUS
<1>1. OutboxOK
  <2>1. outbox \in Seq(Messages) /\ Len(outbox) = 0
    BY DEF Init
  <2> QED
    BY <2>1, ExecutorConstantsOK DEF OutboxOK, ExecutorConstantsOK
<1>2. 0 \in Nat /\ 0 \in 0..MaxInputs /\ 0 \in 0..StdinSize
  BY ExecutorConstantsOK DEF ExecutorConstantsOK
<1>3. /\ written \in [Streams -> Nat]
      /\ taken \in [Streams -> Nat]
      /\ got \in [Streams -> Nat]
      /\ reader \in [Streams -> {"off", "read", "send", "done"}]
  BY <1>2 DEF Init
<1>4. fed \in 0..MaxInputs /\ kernel \in 0..StdinSize
  BY <1>2 DEF Init
<1> QED
  BY <1>1, <1>3, <1>4 DEF Init, TypeOK, OutboxOK, Messages

\* The state is well typed, and the outbox never holds more than its capacity.
THEOREM TypeCorrect == Spec => []TypeOK
<1>1. Init => TypeOK
  BY StartsTyped
<1>2. TypeOK /\ [Next]_vars => TypeOK'
  BY TypeStays
<1> QED
  BY <1>1, <1>2, PTL DEF Spec

-----------------------------------------------------------------------------
(* Where executeTask is tells what there is: before Start neither a command nor a *)
(* goroutine, after the wait for the streams neither of those, after Wait no      *)
(* command either, and at the end no health goroutine. Who holds the mutex is     *)
(* where it is held.                                                              *)

ControlInv ==
  /\ pc \in {"args", "prepare", "start", "startError", "failed"} => proc = "none" /\ copier = "none"
  /\ pc \in {"args", "prepare", "start", "startError", "failed", "startHealth"} =>
       \A s \in Streams : reader[s] = "off"
  /\ pc \in {"startHealth", "readOutput", "closeStdin", "wait", "stopHealth", "stopping"} =>
       proc # "none"
  /\ pc \in {"closeStdin", "wait", "stopHealth", "stopping"} => \A s \in Streams : reader[s] = "done"
  /\ pc \in {"returned", "closed", "done"} => \A s \in Streams : reader[s] \in {"off", "done"}
  /\ pc \in {"stopHealth", "stopping", "returned", "closed", "done"} =>
       ~Running /\ copier \in {"none", "gone"}
  /\ pc \in {"args", "prepare", "start", "startError", "failed", "startHealth"} => health = "off"
  /\ pc \in {"returned", "closed", "done"} => health \in {"off", "gone"}
  /\ mu = "feed" <=> router = "feed"
  /\ mu = "worker" <=> pc = "stopping"
  /\ proc = "none" => heir = "none"
  /\ proc = "none" => \A s \in Streams : reader[s] = "off"

\* Every step keeps it.
LEMMA ControlStays == TypeOK /\ ControlInv /\ [Next]_vars => ControlInv'
<1> SUFFICES ASSUME TypeOK, ControlInv, [Next]_vars PROVE ControlInv'
  OBVIOUS
<1> USE DEF TypeOK, ControlInv, Running, client, input, output
<1>1. CASE validateArgs
  BY <1>1 DEF validateArgs
<1>2. CASE validateArgsFails
  BY <1>2 DEF validateArgsFails, SendError
<1>3. CASE prepareCommand
  BY <1>3 DEF prepareCommand
<1>4. CASE Start
  BY <1>4 DEF Start
<1>5. CASE StartFails
  BY <1>5 DEF StartFails
<1>6. CASE handleStartError
  BY <1>6 DEF handleStartError, SendError
<1>7. CASE startHealthCheck
  BY <1>7 DEF startHealthCheck
<1>8. CASE readOutput
  BY <1>8 DEF readOutput
<1>9. CASE closeStdin
  BY <1>9 DEF closeStdin
<1>10. CASE Wait
  BY <1>10 DEF Wait, Streams
<1>11. CASE stopHealthCheck
  BY <1>11 DEF stopHealthCheck
<1>12. CASE CompleteActive
  BY <1>12 DEF CompleteActive
<1>13. ASSUME NEW p \in Streams, ReadToken(p) PROVE ControlInv'
  BY <1>13 DEF ReadToken
<1>14. ASSUME NEW p \in Streams, ReadEOF(p) PROVE ControlInv'
  BY <1>14 DEF ReadEOF
<1>15. ASSUME NEW p \in Streams, SendToken(p) PROVE ControlInv'
  BY <1>15 DEF SendToken
<1>16. ASSUME NEW p \in Streams, StreamCancelled(p) PROVE ControlInv'
  BY <1>16 DEF StreamCancelled
<1>17. CASE FeedInput
  BY <1>17 DEF FeedInput
<1>18. CASE FeedFails
  BY <1>18 DEF FeedFails
<1>19. CASE CopierTakes
  BY <1>19 DEF CopierTakes
<1>20. CASE CopierWrites
  BY <1>20 DEF CopierWrites
<1>21. CASE CopierEnds
  BY <1>21 DEF CopierEnds
<1>22. CASE ProcReads
  BY <1>22 DEF ProcReads
<1>23. CASE ProcForks
  BY <1>23 DEF ProcForks
<1>24. CASE HeirExits
  BY <1>24 DEF HeirExits
<1>25. CASE ProcExits
  BY <1>25 DEF ProcExits, Streams
<1>26. ASSUME NEW p \in Streams, ProcWrites(p) PROVE ControlInv'
  BY <1>26 DEF ProcWrites, Streams
<1>27. CASE RouterReceive
  BY <1>27 DEF RouterReceive
<1>28. CASE Cancel
  BY <1>28 DEF Cancel
<1>29. CASE UNCHANGED vars
  BY <1>29 DEF vars
<1>30. CASE ReturnError
  BY <1>30 DEF ReturnError, Streams
<1>31. CASE CloseMsgChan
  BY <1>31 DEF CloseMsgChan
<1>32. CASE stopHealthReturns
  BY <1>32 DEF stopHealthReturns
<1>33. CASE CloseCancels
  BY <1>33 DEF CloseCancels
<1>34. CASE RouteInbox
  BY <1>34 DEF RouteInbox
<1>35. ASSUME NEW p \in Streams, ProcBlocks(p) PROVE ControlInv'
  BY <1>35 DEF ProcBlocks, Streams
<1>36. CASE HealthEnds
  BY <1>36 DEF HealthEnds
<1>37. CASE PingFails
  BY <1>37 DEF PingFails
<1> QED
  BY <1>1, <1>2, <1>3, <1>4, <1>5, <1>6, <1>7, <1>8, <1>9, <1>10, <1>11, <1>12, <1>13,
     <1>14, <1>15, <1>16, <1>17, <1>18, <1>19, <1>20, <1>21, <1>22, <1>23, <1>24, <1>25,
     <1>26, <1>27, <1>28, <1>29, <1>30, <1>31, <1>32, <1>33, <1>34, <1>35, <1>36,
     <1>37
     DEF Next, executeTask, Worker, streamOutput, Router, Copier, Command

-----------------------------------------------------------------------------
(* The two output goroutines. One that has ended without a cancellation has read  *)
(* all there is and all there will be, because nobody holds the pipe any more.    *)

ReaderInv(s) ==
  /\ taken[s] <= written[s]
  /\ reader[s] = "off" => taken[s] = 0
  /\ reader[s] = "send" => taken[s] > 0
  /\ reader[s] = "done" /\ ~cancelled => taken[s] = written[s] /\ ~PipeHeld

\* Every step keeps it.
LEMMA ReaderStays ==
  ASSUME TypeOK, ControlInv, [Next]_vars, NEW s \in Streams, ReaderInv(s)
  PROVE  ReaderInv(s)'
<1> USE DEF TypeOK, ReaderInv, PipeHeld, Running, client, input, output
<1>1. CASE validateArgs
  BY <1>1 DEF validateArgs
<1>2. CASE validateArgsFails
  BY <1>2 DEF validateArgsFails, SendError
<1>3. CASE prepareCommand
  BY <1>3 DEF prepareCommand
<1>4. CASE Start
  BY <1>4 DEF Start, ControlInv
<1>5. CASE StartFails
  BY <1>5 DEF StartFails
<1>6. CASE handleStartError
  BY <1>6 DEF handleStartError, SendError
<1>7. CASE startHealthCheck
  BY <1>7 DEF startHealthCheck, ControlInv
<1>8. CASE readOutput
  BY <1>8 DEF readOutput
<1>9. CASE closeStdin
  BY <1>9 DEF closeStdin
<1>10. CASE Wait
  BY <1>10 DEF Wait
<1>11. CASE stopHealthCheck
  BY <1>11 DEF stopHealthCheck
<1>12. CASE CompleteActive
  BY <1>12 DEF CompleteActive
<1>13. ASSUME NEW p \in Streams, ReadToken(p) PROVE ReaderInv(s)'
  BY <1>13 DEF ReadToken
<1>14. ASSUME NEW p \in Streams, ReadEOF(p) PROVE ReaderInv(s)'
  BY <1>14 DEF ReadEOF
<1>15. ASSUME NEW p \in Streams, SendToken(p) PROVE ReaderInv(s)'
  BY <1>15 DEF SendToken
<1>16. ASSUME NEW p \in Streams, StreamCancelled(p) PROVE ReaderInv(s)'
  BY <1>16 DEF StreamCancelled
<1>17. CASE FeedInput
  BY <1>17 DEF FeedInput
<1>18. CASE FeedFails
  BY <1>18 DEF FeedFails
<1>19. CASE CopierTakes
  BY <1>19 DEF CopierTakes
<1>20. CASE CopierWrites
  BY <1>20 DEF CopierWrites
<1>21. CASE CopierEnds
  BY <1>21 DEF CopierEnds
<1>22. CASE ProcReads
  BY <1>22 DEF ProcReads
<1>23. CASE ProcForks
  BY <1>23 DEF ProcForks
<1>24. CASE HeirExits
  BY <1>24 DEF HeirExits
<1>25. CASE ProcExits
  BY <1>25 DEF ProcExits
<1>26. ASSUME NEW p \in Streams, ProcWrites(p) PROVE ReaderInv(s)'
  BY <1>26 DEF ProcWrites
<1>27. CASE RouterReceive
  BY <1>27 DEF RouterReceive
<1>28. CASE Cancel
  BY <1>28 DEF Cancel
<1>29. CASE UNCHANGED vars
  BY <1>29 DEF vars
<1>30. CASE ReturnError
  BY <1>30 DEF ReturnError
<1>31. CASE CloseMsgChan
  BY <1>31 DEF CloseMsgChan
<1>32. CASE stopHealthReturns
  BY <1>32 DEF stopHealthReturns
<1>33. CASE CloseCancels
  BY <1>33 DEF CloseCancels
<1>34. CASE RouteInbox
  BY <1>34 DEF RouteInbox
<1>35. ASSUME NEW p \in Streams, ProcBlocks(p) PROVE ReaderInv(s)'
  BY <1>35 DEF ProcBlocks
<1>36. CASE HealthEnds
  BY <1>36 DEF HealthEnds
<1>37. CASE PingFails
  BY <1>37 DEF PingFails
<1> QED
  BY <1>1, <1>2, <1>3, <1>4, <1>5, <1>6, <1>7, <1>8, <1>9, <1>10, <1>11, <1>12, <1>13,
     <1>14, <1>15, <1>16, <1>17, <1>18, <1>19, <1>20, <1>21, <1>22, <1>23, <1>24, <1>25,
     <1>26, <1>27, <1>28, <1>29, <1>30, <1>31, <1>32, <1>33, <1>34, <1>35, <1>36,
     <1>37
     DEF Next, executeTask, Worker, streamOutput, Router, Copier, Command

-----------------------------------------------------------------------------
(* The tokens of a stream: those up to Sent have been sent, in order, and unless  *)
(* the goroutine gave up on the last one each is in the outbox or received.       *)

Sent(s) == IF reader[s] = "send" THEN taken[s] - 1 ELSE taken[s]

TokensInv(s) ==
  /\ got[s] <= Sent(s)
  /\ \A i \in Of(s) : got[s] < outbox[i].n /\ outbox[i].n <= Sent(s)
  /\ \A i, j \in Of(s) : i < j => outbox[i].n < outbox[j].n
  /\ \A i \in Of(s) : \A k \in 1..outbox[i].n : Delivered(s, k)
  /\ reader[s] # "done" \/ ~cancelled => \A k \in 1..Sent(s) : Delivered(s, k)

\* An error message is in the outbox only if no goroutine was ever started.
ErrorInv ==
  \A i \in DOMAIN outbox :
    outbox[i].n = 0 =>
      pc \in {"failed", "returned", "closed", "done"} /\ \A s \in Streams : reader[s] = "off"

\* A step that sends and receives nothing keeps it.
LEMMA TokensFrame ==
  ASSUME NEW s \in Streams, TokensInv(s), UNCHANGED <<outbox, got>>, Sent(s)' = Sent(s),
         reader'[s] # "done" \/ ~cancelled' => reader[s] # "done" \/ ~cancelled
  PROVE  TokensInv(s)'
<1>1. Of(s)' = Of(s)
  BY DEF Of
<1>2. ASSUME NEW k PROVE Delivered(s, k)' <=> Delivered(s, k)
  BY <1>1 DEF Delivered
<1> QED
  BY <1>1, <1>2 DEF TokensInv

\* What is in the outbox after a message was appended.
LEMMA AppendIs ==
  ASSUME OutboxOK, NEW m \in Messages, outbox' = Append(outbox, m)
  PROVE  /\ DOMAIN outbox' = DOMAIN outbox \cup {Len(outbox) + 1}
         /\ \A i \in DOMAIN outbox : outbox'[i] = outbox[i] /\ i \in Nat /\ i < Len(outbox) + 1
         /\ outbox'[Len(outbox) + 1] = m
         /\ Len(outbox) \in Nat
<1>1. /\ outbox \in Seq(Messages) /\ Len(outbox) \in Nat /\ DOMAIN outbox = 1..Len(outbox)
      /\ outbox' \in Seq(Messages) /\ DOMAIN outbox' = 1..(Len(outbox) + 1)
  BY DEF OutboxOK
<1> QED
  BY <1>1 DEF OutboxOK

\* What is in the outbox after the first message was received.
LEMMA TailIs ==
  ASSUME OutboxOK, outbox # <<>>, outbox' = Tail(outbox)
  PROVE  /\ 1 \in DOMAIN outbox
         /\ Head(outbox) = outbox[1]
         /\ DOMAIN outbox \subseteq Nat
         /\ \A i \in DOMAIN outbox' : i + 1 \in DOMAIN outbox /\ outbox'[i] = outbox[i + 1]
         /\ \A i \in DOMAIN outbox : i # 1 => i - 1 \in DOMAIN outbox'
         /\ DOMAIN outbox' \subseteq Nat
         /\ \A i \in DOMAIN outbox : 1 <= i
         /\ \A i \in DOMAIN outbox' : 1 <= i
<1>1. /\ outbox \in Seq(Messages) /\ Len(outbox) \in Nat /\ DOMAIN outbox = 1..Len(outbox)
      /\ outbox' \in Seq(Messages) /\ Len(outbox') = Len(outbox) - 1
      /\ DOMAIN outbox' = 1..(Len(outbox) - 1)
      /\ Len(outbox) > 0
  BY DEF OutboxOK
<1> QED
  BY <1>1 DEF OutboxOK

\* The message of another stream, or an error message, changes nothing for a stream.
LEMMA TokensOther ==
  ASSUME OutboxOK, NEW s \in Streams, TokensInv(s), NEW m \in Messages,
         outbox' = Append(outbox, m), m.stream # s \/ m.n = 0, got' = got,
         Sent(s)' = Sent(s), reader'[s] = reader[s], cancelled' = cancelled
  PROVE  TokensInv(s)'
<1>1. Of(s)' = Of(s)
  BY AppendIs DEF Of
<1>2. \A i \in Of(s) : outbox'[i] = outbox[i]
  BY AppendIs DEF Of
<1>3. ASSUME NEW k PROVE Delivered(s, k)' <=> Delivered(s, k)
  BY <1>1, <1>2 DEF Delivered
<1> QED
  BY <1>1, <1>2, <1>3 DEF TokensInv

\* The next token of the stream is the one its order asks for.
LEMMA TokensSend ==
  ASSUME TypeOK, NEW s \in Streams, TokensInv(s), ReaderInv(s), SendToken(s)
  PROVE  TokensInv(s)'
<1> DEFINE m == Token(s, taken[s])
<1> DEFINE e == Len(outbox) + 1
<1>1. OutboxOK /\ m \in Messages /\ m.stream = s /\ m.n = taken[s]
  BY DEF TypeOK, OutboxOK, Messages, Token
<1>2. taken[s] \in Nat /\ taken[s] > 0 /\ Sent(s) = taken[s] - 1 /\ got[s] \in Nat
  BY DEF SendToken, ReaderInv, Sent, TypeOK
<1>3. Sent(s)' = taken[s] /\ got' = got /\ reader'[s] = "read"
  BY DEF SendToken, Sent, TypeOK
<1>4. /\ DOMAIN outbox' = DOMAIN outbox \cup {e}
      /\ \A i \in DOMAIN outbox : outbox'[i] = outbox[i] /\ i \in Nat /\ i < e
      /\ outbox'[e] = m /\ e \in Nat
  BY <1>1, AppendIs DEF SendToken
<1> HIDE DEF e, m
<1>5. Of(s)' = Of(s) \cup {e}
  BY <1>1, <1>2, <1>4 DEF Of
<1>6. \A i \in Of(s) : outbox'[i] = outbox[i] /\ i < e /\ i \in Nat /\ outbox[i].n \in Nat
  BY <1>1, <1>4, ElementIs DEF Of
<1>7. \A k : Delivered(s, k) => Delivered(s, k)'
  BY <1>3, <1>5, <1>6 DEF Delivered
<1>8. \A k \in 1..taken[s] : Delivered(s, k)'
  <2> SUFFICES ASSUME NEW k \in 1..taken[s] PROVE Delivered(s, k)'
    OBVIOUS
  <2>1. CASE k = taken[s]
    BY <2>1, <1>1, <1>4, <1>5 DEF Delivered
  <2>2. CASE k # taken[s]
    <3>1. k \in 1..Sent(s)
      BY <2>2, <1>2
    <3>2. reader[s] # "done"
      BY DEF SendToken
    <3> QED
      BY <3>1, <3>2, <1>7 DEF TokensInv
  <2> QED
    BY <2>1, <2>2
<1>9. \A i \in Of(s)' : got[s] < outbox'[i].n /\ outbox'[i].n <= taken[s]
  BY <1>1, <1>2, <1>4, <1>5, <1>6 DEF TokensInv
<1>10. \A i, j \in Of(s)' : i < j => outbox'[i].n < outbox'[j].n
  BY <1>1, <1>2, <1>4, <1>5, <1>6 DEF TokensInv
<1>11. \A i \in Of(s)' : \A k \in 1..outbox'[i].n : Delivered(s, k)'
  <2> SUFFICES ASSUME NEW i \in Of(s)', NEW k \in 1..outbox'[i].n PROVE Delivered(s, k)'
    OBVIOUS
  <2>1. outbox'[i].n \in Nat
    BY <1>1, <1>2, <1>4, <1>5, <1>6
  <2>2. k \in 1..taken[s]
    BY <2>1, <1>9, <1>2
  <2> QED
    BY <2>2, <1>8
<1> QED
  BY <1>2, <1>3, <1>8, <1>9, <1>10, <1>11 DEF TokensInv

\* The router receives the lowest token of the stream that is in the outbox.
LEMMA TokensReceive ==
  ASSUME TypeOK, NEW s \in Streams, TokensInv(s), ReaderInv(s), ErrorInv, RouterReceive
  PROVE  TokensInv(s)'
<1> DEFINE m == Head(outbox)
<1>1. OutboxOK
  BY DEF TypeOK, OutboxOK, Messages
<1>2. /\ 1 \in DOMAIN outbox
      /\ m = outbox[1]
      /\ DOMAIN outbox \subseteq Nat
      /\ \A i \in DOMAIN outbox' : i + 1 \in DOMAIN outbox /\ outbox'[i] = outbox[i + 1]
      /\ \A i \in DOMAIN outbox : i # 1 => i - 1 \in DOMAIN outbox'
      /\ DOMAIN outbox' \subseteq Nat
      /\ \A i \in DOMAIN outbox : 1 <= i
      /\ \A i \in DOMAIN outbox' : 1 <= i
  BY <1>1, TailIs DEF RouterReceive
<1>3. m \in Messages /\ m.stream \in Streams /\ m.n \in Nat
  BY <1>1, ReceiveIs DEF RouterReceive, Messages
<1>4. /\ got' = [got EXCEPT ![m.stream] = m.n]
      /\ UNCHANGED <<reader, taken, cancelled>>
  BY DEF RouterReceive
<1>5. Sent(s)' = Sent(s) /\ Sent(s) \in Nat /\ got[s] \in Nat
  BY <1>4 DEF Sent, TypeOK, ReaderInv
<1>6. \A i \in DOMAIN outbox : outbox[i].n \in Nat
  BY <1>1, ElementIs
<1> HIDE DEF m
<1>7. /\ \A i \in Of(s)' : i + 1 \in Of(s) /\ outbox'[i] = outbox[i + 1] /\ i \in Nat
      /\ \A i \in Of(s) : i # 1 => i - 1 \in Of(s)' /\ outbox'[i - 1] = outbox[i] /\ i \in Nat
  BY <1>2 DEF Of
<1>8. CASE 1 \in Of(s)
  <2>1. got'[s] = m.n
    BY <1>2, <1>3, <1>4, <1>8 DEF Of, TypeOK
  <2>2. m.n <= Sent(s)
    BY <1>2, <1>8 DEF TokensInv
  <2>3. \A i \in Of(s)' : m.n < outbox'[i].n /\ outbox'[i].n <= Sent(s)
    <3> SUFFICES ASSUME NEW i \in Of(s)' PROVE m.n < outbox'[i].n /\ outbox'[i].n <= Sent(s)
      OBVIOUS
    <3>1. i + 1 \in Of(s) /\ outbox'[i] = outbox[i + 1] /\ i \in Nat /\ i # 0
      BY <1>2, <1>7 DEF Of
    <3>2. 1 < i + 1
      BY <3>1
    <3> QED
      BY <1>2, <1>8, <3>1, <3>2 DEF TokensInv
  <2>4. \A k \in Nat : Delivered(s, k) => Delivered(s, k)'
    <3> SUFFICES ASSUME NEW k \in Nat, Delivered(s, k) PROVE Delivered(s, k)'
      OBVIOUS
    <3>1. CASE k <= got[s]
      <4>1. got[s] < m.n
        BY <1>2, <1>8 DEF TokensInv
      <4> QED
        BY <3>1, <4>1, <2>1, <1>3, <1>5 DEF Delivered
    <3>2. CASE \E i \in Of(s) : outbox[i].n = k
      <4>1. PICK i \in Of(s) : outbox[i].n = k
        BY <3>2
      <4>2. CASE i = 1
        BY <4>1, <4>2, <1>2, <1>3, <2>1 DEF Delivered
      <4>3. CASE i # 1
        BY <4>1, <4>3, <1>7 DEF Delivered
      <4> QED
        BY <4>2, <4>3
    <3> QED
      BY <3>1, <3>2 DEF Delivered
  <2>5. \A i, j \in Of(s)' : i < j => outbox'[i].n < outbox'[j].n
    <3> SUFFICES ASSUME NEW i \in Of(s)', NEW j \in Of(s)', i < j
                 PROVE  outbox'[i].n < outbox'[j].n
      OBVIOUS
    <3>1. i + 1 < j + 1
      BY <1>7
    <3> QED
      BY <1>7, <3>1 DEF TokensInv
  <2>6. \A i \in Of(s)' : \A k \in 1..outbox'[i].n : Delivered(s, k)'
    BY <1>7, <2>4 DEF TokensInv
  <2>7. reader'[s] # "done" \/ ~cancelled' => \A k \in 1..Sent(s) : Delivered(s, k)'
    BY <1>4, <2>4 DEF TokensInv
  <2> QED
    BY <1>5, <2>1, <2>2, <2>3, <2>5, <2>6, <2>7 DEF TokensInv
<1>9. CASE 1 \notin Of(s)
  <2>1. got'[s] = got[s]
    <3>1. CASE m.stream # s
      BY <3>1, <1>3, <1>4 DEF TypeOK
    <3>2. CASE m.stream = s
      <4>1. m.n = 0
        BY <3>2, <1>2, <1>9 DEF Of
      <4>2. reader[s] = "off"
        BY <4>1, <1>2 DEF ErrorInv
      <4>3. taken[s] = 0
        BY <4>2 DEF ReaderInv
      <4>4. got[s] = 0
        BY <4>2, <4>3, <1>5 DEF TokensInv, Sent
      <4> QED
        BY <3>2, <4>1, <4>4, <1>4 DEF TypeOK
    <3> QED
      BY <3>1, <3>2
  <2>2. \A k : Delivered(s, k) => Delivered(s, k)'
    BY <1>7, <1>9, <2>1 DEF Delivered
  <2>3. \A i, j \in Of(s)' : i < j => outbox'[i].n < outbox'[j].n
    <3> SUFFICES ASSUME NEW i \in Of(s)', NEW j \in Of(s)', i < j
                 PROVE  outbox'[i].n < outbox'[j].n
      OBVIOUS
    <3>1. i + 1 < j + 1
      BY <1>7
    <3> QED
      BY <1>7, <3>1 DEF TokensInv
  <2>4. \A i \in Of(s)' : \A k \in 1..outbox'[i].n : Delivered(s, k)'
    BY <1>7, <2>2 DEF TokensInv
  <2>5. \A i \in Of(s)' : got'[s] < outbox'[i].n /\ outbox'[i].n <= Sent(s)
    BY <1>7, <2>1 DEF TokensInv
  <2>6. reader'[s] # "done" \/ ~cancelled' => \A k \in 1..Sent(s) : Delivered(s, k)'
    BY <1>4, <2>2 DEF TokensInv
  <2> QED
    BY <1>5, <2>1, <2>3, <2>4, <2>5, <2>6 DEF TokensInv
<1> QED
  BY <1>8, <1>9

\* A goroutine that is cancelled in its send drops the token it has.
LEMMA TokensCancelled ==
  ASSUME TypeOK, NEW s \in Streams, TokensInv(s), StreamCancelled(s)
  PROVE  TokensInv(s)'
<1>1. /\ Sent(s) = taken[s] - 1 /\ Sent(s)' = taken[s] /\ taken[s] \in Nat /\ got[s] \in Nat
      /\ reader'[s] = "done" /\ cancelled' /\ UNCHANGED <<outbox, got>>
  BY DEF StreamCancelled, Sent, TypeOK
<1>2. Of(s)' = Of(s) /\ \A i \in Of(s) : outbox[i].n \in Nat
  <2>1. OutboxOK
    BY DEF TypeOK, OutboxOK, Messages
  <2> QED
    BY <1>1, <2>1, ElementIs DEF Of
<1>3. \A k : Delivered(s, k)' <=> Delivered(s, k)
  BY <1>1, <1>2 DEF Delivered
<1> QED
  BY <1>1, <1>2, <1>3 DEF TokensInv

\* Every step keeps the tokens of a stream in order and complete.
LEMMA TokensStay ==
  ASSUME TypeOK, ControlInv, ErrorInv, [Next]_vars, NEW s \in Streams, ReaderInv(s),
         TokensInv(s)
  PROVE  TokensInv(s)'
<1>0. OutboxOK
  BY DEF TypeOK, OutboxOK, Messages
<1> USE DEF Sent, client, input, output
<1>1. CASE validateArgs
  BY <1>1, TokensFrame DEF validateArgs
<1>2. CASE validateArgsFails
  <2>1. /\ \/ outbox' = Append(outbox, Token("stderr", 0))
           \/ outbox' = outbox
        /\ UNCHANGED <<got, reader, taken, cancelled>>
    BY <1>2 DEF validateArgsFails, SendError
  <2>2. Token("stderr", 0).n = 0
    BY DEF Token
  <2>3. CASE outbox' = outbox
    BY <2>1, <2>3, TokensFrame
  <2>4. CASE outbox' = Append(outbox, Token("stderr", 0))
    BY <2>1, <2>2, <2>4, <1>0, ErrorIsMessage, TokensOther
  <2> QED
    BY <2>1, <2>3, <2>4
<1>3. CASE prepareCommand
  BY <1>3, TokensFrame DEF prepareCommand
<1>4. CASE Start
  BY <1>4, TokensFrame DEF Start
<1>5. CASE StartFails
  BY <1>5, TokensFrame DEF StartFails
<1>6. CASE handleStartError
  <2>1. /\ \/ outbox' = Append(outbox, Token("stderr", 0))
           \/ outbox' = outbox
        /\ UNCHANGED <<got, reader, taken, cancelled>>
    BY <1>6 DEF handleStartError, SendError
  <2>2. Token("stderr", 0).n = 0
    BY DEF Token
  <2>3. CASE outbox' = outbox
    BY <2>1, <2>3, TokensFrame
  <2>4. CASE outbox' = Append(outbox, Token("stderr", 0))
    BY <2>1, <2>2, <2>4, <1>0, ErrorIsMessage, TokensOther
  <2> QED
    BY <2>1, <2>3, <2>4
<1>7. CASE startHealthCheck
  BY <1>7, TokensFrame DEF startHealthCheck, TypeOK, ControlInv
<1>8. CASE readOutput
  BY <1>8, TokensFrame DEF readOutput
<1>9. CASE closeStdin
  BY <1>9, TokensFrame DEF closeStdin
<1>10. CASE Wait
  BY <1>10, TokensFrame DEF Wait
<1>11. CASE stopHealthCheck
  BY <1>11, TokensFrame DEF stopHealthCheck
<1>12. CASE CompleteActive
  BY <1>12, TokensFrame DEF CompleteActive
<1>13. ASSUME NEW p \in Streams, ReadToken(p) PROVE TokensInv(s)'
  <2>1. taken[s] \in Nat /\ taken[s] + 1 - 1 = taken[s]
    BY DEF TypeOK
  <2>2. Sent(s)' = Sent(s)
    <3>1. /\ taken' = [taken EXCEPT ![p] = @ + 1] /\ taken \in [Streams -> Nat]
          /\ reader' = [reader EXCEPT ![p] = "send"] /\ DOMAIN reader = Streams
          /\ reader[p] = "read"
      BY <1>13 DEF ReadToken, TypeOK
    <3>2. CASE p = s
      <4>1. taken'[s] = taken[s] + 1 /\ reader'[s] = "send" /\ reader[s] = "read"
        BY <3>1, <3>2
      <4> QED
        BY <4>1, <2>1 DEF Sent
    <3>3. CASE p # s
      <4>1. taken'[s] = taken[s] /\ reader'[s] = reader[s]
        BY <3>1, <3>3
      <4> QED
        BY <4>1 DEF Sent
    <3> QED
      BY <3>2, <3>3
  <2>3. reader'[s] # "done" => reader[s] # "done"
    BY <1>13 DEF ReadToken, TypeOK
  <2> QED
    BY <1>13, <2>2, <2>3, TokensFrame DEF ReadToken
<1>14. ASSUME NEW p \in Streams, ReadEOF(p) PROVE TokensInv(s)'
  BY <1>14, TokensFrame DEF ReadEOF, TypeOK
<1>15. ASSUME NEW p \in Streams, SendToken(p) PROVE TokensInv(s)'
  <2>1. CASE p = s
    BY <1>15, <2>1, TokensSend
  <2>2. CASE p # s
    <3>1. Token(p, taken[p]) \in Messages /\ Token(p, taken[p]).stream # s
      BY <1>15, <2>2 DEF TypeOK, Token, Messages
    <3>2. /\ outbox' = Append(outbox, Token(p, taken[p]))
          /\ UNCHANGED <<got, taken, cancelled>> /\ reader'[s] = reader[s]
      BY <1>15, <2>2 DEF SendToken, TypeOK
    <3> QED
      BY <3>1, <3>2, <1>0, TokensOther
  <2> QED
    BY <2>1, <2>2
<1>16. ASSUME NEW p \in Streams, StreamCancelled(p) PROVE TokensInv(s)'
  <2>1. CASE p = s
    BY <1>16, <2>1, TokensCancelled
  <2>2. CASE p # s
    BY <1>16, <2>2, TokensFrame DEF StreamCancelled, TypeOK
  <2> QED
    BY <2>1, <2>2
<1>17. CASE FeedInput
  BY <1>17, TokensFrame DEF FeedInput
<1>18. CASE FeedFails
  BY <1>18, TokensFrame DEF FeedFails
<1>19. CASE CopierTakes
  BY <1>19, TokensFrame DEF CopierTakes
<1>20. CASE CopierWrites
  BY <1>20, TokensFrame DEF CopierWrites
<1>21. CASE CopierEnds
  BY <1>21, TokensFrame DEF CopierEnds
<1>22. CASE ProcReads
  BY <1>22, TokensFrame DEF ProcReads
<1>23. CASE ProcForks
  BY <1>23, TokensFrame DEF ProcForks
<1>24. CASE HeirExits
  BY <1>24, TokensFrame DEF HeirExits
<1>25. CASE ProcExits
  BY <1>25, TokensFrame DEF ProcExits
<1>26. ASSUME NEW p \in Streams, ProcWrites(p) PROVE TokensInv(s)'
  BY <1>26, TokensFrame DEF ProcWrites
<1>27. CASE RouterReceive
  BY <1>27, TokensReceive
<1>28. CASE Cancel
  BY <1>28, TokensFrame DEF Cancel
<1>29. CASE UNCHANGED vars
  BY <1>29, TokensFrame DEF vars
<1>30. CASE ReturnError
  BY <1>30, TokensFrame DEF ReturnError
<1>31. CASE CloseMsgChan
  BY <1>31, TokensFrame DEF CloseMsgChan
<1>32. CASE stopHealthReturns
  BY <1>32, TokensFrame DEF stopHealthReturns
<1>33. CASE CloseCancels
  BY <1>33, TokensFrame DEF CloseCancels
<1>34. CASE RouteInbox
  BY <1>34, TokensFrame DEF RouteInbox
<1>35. ASSUME NEW p \in Streams, ProcBlocks(p) PROVE TokensInv(s)'
  BY <1>35, TokensFrame DEF ProcBlocks
<1>36. CASE HealthEnds
  BY <1>36, TokensFrame DEF HealthEnds
<1>37. CASE PingFails
  BY <1>37, TokensFrame DEF PingFails
<1> QED
  BY <1>1, <1>2, <1>3, <1>4, <1>5, <1>6, <1>7, <1>8, <1>9, <1>10, <1>11, <1>12, <1>13,
     <1>14, <1>15, <1>16, <1>17, <1>18, <1>19, <1>20, <1>21, <1>22, <1>23, <1>24, <1>25,
     <1>26, <1>27, <1>28, <1>29, <1>30, <1>31, <1>32, <1>33, <1>34, <1>35, <1>36,
     <1>37
     DEF Next, executeTask, Worker, streamOutput, Router, Copier, Command

\* An error message is sent only by a run that starts no goroutine.
LEMMA ErrorStays ==
  ASSUME TypeOK, ControlInv, \A s \in Streams : ReaderInv(s), ErrorInv, [Next]_vars
  PROVE  ErrorInv'
<1>0. OutboxOK
  BY DEF TypeOK, OutboxOK, Messages
<1> USE DEF ErrorInv, client, input, output
<1>1. CASE validateArgs
  BY <1>1 DEF validateArgs
<1>2. CASE validateArgsFails
  <2>1. pc' = "failed" /\ \A s \in Streams : reader'[s] = "off"
    BY <1>2 DEF validateArgsFails, SendError, ControlInv
  <2> QED
    BY <2>1
<1>3. CASE prepareCommand
  BY <1>3 DEF prepareCommand
<1>4. CASE Start
  BY <1>4 DEF Start
<1>5. CASE StartFails
  BY <1>5 DEF StartFails
<1>6. CASE handleStartError
  <2>1. pc' = "failed" /\ \A s \in Streams : reader'[s] = "off"
    BY <1>6 DEF handleStartError, SendError, ControlInv
  <2> QED
    BY <2>1
<1>7. CASE startHealthCheck
  BY <1>7 DEF startHealthCheck
<1>8. CASE readOutput
  BY <1>8 DEF readOutput
<1>9. CASE closeStdin
  BY <1>9 DEF closeStdin
<1>10. CASE Wait
  BY <1>10 DEF Wait
<1>11. CASE stopHealthCheck
  BY <1>11 DEF stopHealthCheck
<1>12. CASE CompleteActive
  BY <1>12 DEF CompleteActive
<1>13. ASSUME NEW p \in Streams, ReadToken(p) PROVE ErrorInv'
  BY <1>13 DEF ReadToken, TypeOK
<1>14. ASSUME NEW p \in Streams, ReadEOF(p) PROVE ErrorInv'
  BY <1>14 DEF ReadEOF, TypeOK
<1>15. ASSUME NEW p \in Streams, SendToken(p) PROVE ErrorInv'
  <2>1. taken[p] # 0 /\ reader[p] = "send"
    BY <1>15 DEF SendToken, ReaderInv, TypeOK
  <2>2. Token(p, taken[p]) \in Messages /\ Token(p, taken[p]).n # 0
    BY <1>15, <2>1 DEF TypeOK, Token, Messages
  <2>3. \A i \in DOMAIN outbox' : outbox'[i].n # 0
    BY <1>15, <2>1, <2>2, <1>0, AppendIs DEF SendToken
  <2> QED
    BY <2>3
<1>16. ASSUME NEW p \in Streams, StreamCancelled(p) PROVE ErrorInv'
  BY <1>16 DEF StreamCancelled, TypeOK
<1>17. CASE FeedInput
  BY <1>17 DEF FeedInput
<1>18. CASE FeedFails
  BY <1>18 DEF FeedFails
<1>19. CASE CopierTakes
  BY <1>19 DEF CopierTakes
<1>20. CASE CopierWrites
  BY <1>20 DEF CopierWrites
<1>21. CASE CopierEnds
  BY <1>21 DEF CopierEnds
<1>22. CASE ProcReads
  BY <1>22 DEF ProcReads
<1>23. CASE ProcForks
  BY <1>23 DEF ProcForks
<1>24. CASE HeirExits
  BY <1>24 DEF HeirExits
<1>25. CASE ProcExits
  BY <1>25 DEF ProcExits
<1>26. ASSUME NEW p \in Streams, ProcWrites(p) PROVE ErrorInv'
  BY <1>26 DEF ProcWrites
<1>27. CASE RouterReceive
  <2>1. \A i \in DOMAIN outbox' : i + 1 \in DOMAIN outbox /\ outbox'[i] = outbox[i + 1]
    BY <1>27, <1>0, TailIs DEF RouterReceive
  <2> QED
    BY <1>27, <2>1 DEF RouterReceive
<1>28. CASE Cancel
  BY <1>28 DEF Cancel
<1>29. CASE UNCHANGED vars
  BY <1>29 DEF vars
<1>30. CASE ReturnError
  BY <1>30 DEF ReturnError
<1>31. CASE CloseMsgChan
  BY <1>31 DEF CloseMsgChan
<1>32. CASE stopHealthReturns
  BY <1>32 DEF stopHealthReturns
<1>33. CASE CloseCancels
  BY <1>33 DEF CloseCancels
<1>34. CASE RouteInbox
  BY <1>34 DEF RouteInbox
<1>35. ASSUME NEW p \in Streams, ProcBlocks(p) PROVE ErrorInv'
  BY <1>35 DEF ProcBlocks
<1>36. CASE HealthEnds
  BY <1>36 DEF HealthEnds
<1>37. CASE PingFails
  BY <1>37 DEF PingFails
<1> QED
  BY <1>1, <1>2, <1>3, <1>4, <1>5, <1>6, <1>7, <1>8, <1>9, <1>10, <1>11, <1>12, <1>13,
     <1>14, <1>15, <1>16, <1>17, <1>18, <1>19, <1>20, <1>21, <1>22, <1>23, <1>24, <1>25,
     <1>26, <1>27, <1>28, <1>29, <1>30, <1>31, <1>32, <1>33, <1>34, <1>35, <1>36,
     <1>37
     DEF Next, executeTask, Worker, streamOutput, Router, Copier, Command

-----------------------------------------------------------------------------
(* The inductive invariant and what follows from it. *)

Inv ==
  /\ TypeOK
  /\ ControlInv
  /\ ErrorInv
  /\ \A s \in Streams : ReaderInv(s) /\ TokensInv(s)

\* The inductive invariant holds in every state of a run.
THEOREM InvariantHolds == Spec => []Inv
<1>1. Init => Inv
  <2> SUFFICES ASSUME Init PROVE Inv
    OBVIOUS
  <2>1. TypeOK
    BY StartsTyped
  <2>2. ControlInv /\ ErrorInv
    BY DEF Init, ControlInv, ErrorInv
  <2>3. ASSUME NEW s \in Streams PROVE ReaderInv(s) /\ TokensInv(s)
    BY DEF Init, ReaderInv, TokensInv, Of, Sent
  <2> QED
    BY <2>1, <2>2, <2>3 DEF Inv
<1>2. Inv /\ [Next]_vars => Inv'
  <2> SUFFICES ASSUME Inv, [Next]_vars PROVE Inv'
    OBVIOUS
  <2>1. TypeOK' /\ ControlInv'
    BY TypeStays, ControlStays DEF Inv
  <2>2. ErrorInv'
    BY ErrorStays DEF Inv
  <2>3. ASSUME NEW s \in Streams PROVE ReaderInv(s)' /\ TokensInv(s)'
    BY ReaderStays, TokensStay DEF Inv
  <2> QED
    BY <2>1, <2>2, <2>3 DEF Inv
<1> QED
  BY <1>1, <1>2, PTL DEF Spec

\* Each stream comes out of the outbox in the order in which the command wrote it and
\* without a gap, whatever the capacity, also when the run is cancelled half way.
THEOREM StreamsStayInOrder == Spec => []StreamsInOrder
<1>1. Inv => StreamsInOrder
  BY DEF Inv, TokensInv, StreamsInOrder
<1> QED
  BY <1>1, InvariantHolds, PTL

\* When the pipes are closed all that the command wrote has been received or is in the
\* outbox, unless the run was cancelled.
THEOREM OutputIsComplete == Spec => []NoOutputLost
<1>1. Inv => NoOutputLost
  <2> SUFFICES ASSUME Inv, pc \in {"closeStdin", "wait", "stopHealth", "stopping"}, ~cancelled,
                      NEW s \in Streams
               PROVE  \A k \in 1..written[s] : Delivered(s, k)
    BY DEF NoOutputLost
  <2>1. reader[s] = "done"
    BY DEF Inv, ControlInv
  <2>2. taken[s] = written[s] /\ Sent(s) = taken[s]
    BY <2>1 DEF Inv, ReaderInv, Sent
  <2> QED
    BY <2>2 DEF Inv, TokensInv
<1> QED
  BY <1>1, InvariantHolds, PTL

\* When Run has returned the output goroutines, the command, the goroutine that
\* copies its input and the health goroutine are gone, or were never there.
THEOREM RunLeavesNothing == Spec => []NothingOutlivesRun
<1>1. Inv => NothingOutlivesRun
  BY DEF Inv, ControlInv, TypeOK, NothingOutlivesRun, Running, Streams
<1> QED
  BY <1>1, InvariantHolds, PTL

-----------------------------------------------------------------------------
(* The run is one that TaskQueue allows. What a run does to stdin: only an *)
(* interactive task has one, it is opened once and closed once, and a call of *)
(* FeedInput holds the mutex until CompleteActive may take it away.            *)

StdinInv ==
  /\ pc \in {"args", "prepare"} => stdin = "nil"
  /\ stdin # "nil" => interactive
  /\ pc \in {"start", "startHealth", "readOutput", "closeStdin"} /\ interactive => stdin = "open"
  /\ pc = "done" => stdin = "nil"
  /\ router = "feed" => stdin # "nil"

\* Every step keeps it.
LEMMA StdinStays == TypeOK /\ ControlInv /\ StdinInv /\ [Next]_vars => StdinInv'
<1> SUFFICES ASSUME TypeOK, ControlInv, StdinInv, [Next]_vars PROVE StdinInv'
  OBVIOUS
<1> USE DEF StdinInv, fixed, client, input, output
<1>1. CASE executeTask
  BY <1>1 DEF executeTask, validateArgs, validateArgsFails, SendError, prepareCommand, Start,
     StartFails, handleStartError, ReturnError, startHealthCheck, readOutput, closeStdin,
     Wait, stopHealthCheck, stopHealthReturns
<1>2. CASE Worker
  BY <1>2 DEF Worker, CloseMsgChan, CompleteActive, ControlInv
<1>3. ASSUME NEW s \in Streams, streamOutput(s) PROVE StdinInv'
  BY <1>3 DEF streamOutput, ReadToken, ReadEOF, SendToken, StreamCancelled
<1>4. CASE FeedInput
  BY <1>4 DEF FeedInput
<1>5. CASE Router
  BY <1>4, <1>5 DEF Router, RouterReceive, CloseCancels, RouteInbox, FeedFails
<1>6. CASE Copier
  BY <1>6 DEF Copier, CopierTakes, CopierWrites, CopierEnds
<1>7. CASE Command
  BY <1>7 DEF Command, ProcReads, ProcForks, HeirExits, ProcExits, ProcWrites, ProcBlocks
<1>8. CASE HealthEnds \/ PingFails \/ Cancel \/ UNCHANGED vars
  BY <1>8 DEF HealthEnds, PingFails, Cancel, vars
<1> QED
  BY <1>1, <1>2, <1>3, <1>5, <1>6, <1>7, <1>8 DEF Next

\* What the queue manager sees of a run.
Feeder == IF mu = "feed" THEN "client" ELSE "none"
view == <<interactive, WorkerPC, Feeder, outbox, cancelled, stdin>>
Messaged == [i \in 1..Len(outbox) |-> Queue!Output]

\* A step that changes none of it is none of the queue's.
LEMMA ViewFrame == UNCHANGED view => UNCHANGED Queue!vars
<1> SUFFICES ASSUME UNCHANGED view PROVE UNCHANGED Queue!vars
  OBVIOUS
<1>1. UNCHANGED <<Task, WorkerPC, Feeder, outbox, cancelled, stdin>>
  BY DEF view, Task
<1> HIDE DEF Task, WorkerPC
<1>2. UNCHANGED Queue!qmVars
  BY <1>1 DEF Queue!qmVars, Feeder
<1>3. UNCHANGED Queue!taskVars
  BY <1>1 DEF Queue!taskVars, OfTask
<1>4. UNCHANGED Queue!envVars
  BY <1>1 DEF Queue!envVars, OfTask
<1> QED
  BY <1>2, <1>3, <1>4 DEF Queue!vars

\* A message sent is a message the queue sees, and so is one received.
LEMMA MessagedAppend ==
  ASSUME OutboxOK, NEW m \in Messages, outbox' = Append(outbox, m)
  PROVE  /\ Messaged' = Append(Messaged, Queue!Output)
         /\ Len(Messaged) = Len(outbox)
<1>1. /\ Len(outbox) \in Nat
      /\ Len(outbox') = Len(outbox) + 1
  BY DEF OutboxOK
<1> QED
  BY <1>1 DEF Messaged, Queue!Output

LEMMA MessagedTail ==
  ASSUME OutboxOK, outbox # <<>>, outbox' = Tail(outbox)
  PROVE  /\ Messaged' = Tail(Messaged)
         /\ Messaged # <<>>
         /\ Head(Messaged) = Queue!Output
<1>1. /\ Len(outbox) \in Nat
      /\ Len(outbox) # 0
      /\ Len(outbox') = Len(outbox) - 1
  BY DEF OutboxOK
<1> QED
  BY <1>1 DEF Messaged, Queue!Output

\* What the parts of the mapping are made of.
LEMMA ViewParts ==
  /\ UNCHANGED <<interactive, WorkerPC>> => UNCHANGED Queue!envVars
  /\ UNCHANGED <<interactive, WorkerPC, Feeder>> => UNCHANGED Queue!qmVars
  /\ UNCHANGED interactive => UNCHANGED Task
  /\ Task \in RunTasks
  /\ (interactive => Task = "interactive")
BY DEF Queue!qmVars, Queue!envVars, OfTask, Task, RunTasks, Feeder

\* A message that finds room while Run goes on is the runner's output.
LEMMA SendIsRunOutput ==
  ASSUME WorkerPC = "run", WorkerPC' = "run", UNCHANGED <<interactive, Feeder, cancelled, stdin>>,
         Messaged' = Append(Messaged, Queue!Output), Len(Messaged) < OutboxSize
  PROVE  Queue!Next
<1> HIDE DEF Task, WorkerPC
<1>1. Queue!RunOutput
  BY ViewParts DEF Queue!RunOutput, Queue!Output, Messaged, OfTask
<1> QED
  BY <1>1 DEF Queue!Next, Queue!Runner

\* What a mapped function has at the task, and how it changes there.
LEMMA OfTaskIs ==
  ASSUME NEW v, NEW w, NEW none
  PROVE  /\ OfTask(v, none)[Task] = v
         /\ [OfTask(v, none) EXCEPT ![Task] = w] = OfTask(w, none)
BY DEF OfTask, Task, RunTasks

\* Every step of a run is one that the queue manager expects, or none of its business.
LEMMA StepImplementsRunner ==
  ASSUME Inv, StdinInv, [Next]_vars
  PROVE  [Queue!Next]_(Queue!vars)
<1>0. OutboxOK /\ TypeOK
  BY DEF Inv, TypeOK, OutboxOK, Messages
<1>v. UNCHANGED view => UNCHANGED Queue!vars
  BY ViewFrame
<1> USE DEF fixed, client, input, output
<1>1. CASE validateArgs \/ Start \/ StartFails \/ startHealthCheck \/ readOutput \/ Wait
  BY <1>1, <1>v DEF view, WorkerPC, Feeder, validateArgs, Start, StartFails, startHealthCheck,
     readOutput, Wait
<1>2. CASE SendError /\ pc \in {"args", "startError"}
  <2>1. CASE UNCHANGED outbox
    BY <1>2, <2>1, <1>v DEF SendError, view, WorkerPC, Feeder
  <2>2. CASE Room /\ outbox' = Append(outbox, Token("stderr", 0))
    <3>1. Messaged' = Append(Messaged, Queue!Output) /\ Len(Messaged) < OutboxSize
      BY <2>2, <1>0, ErrorIsMessage, MessagedAppend DEF Room
    <3>2. WorkerPC = "run" /\ WorkerPC' = "run"
      BY <1>2 DEF SendError, WorkerPC
    <3>3. UNCHANGED <<interactive, Feeder, cancelled, stdin>>
      BY <1>2 DEF SendError, Feeder
    <3> QED
      BY <3>1, <3>2, <3>3, SendIsRunOutput
  <2> QED
    BY <1>2, <2>1, <2>2 DEF SendError
<1>3. CASE prepareCommand
  <2>1. WorkerPC = "run" /\ WorkerPC' = "run"
    BY <1>3 DEF prepareCommand, WorkerPC
  <2>2. CASE ~interactive
    BY <1>3, <2>1, <2>2, <1>v DEF prepareCommand, view, Feeder
  <2>3. CASE interactive
    <3>1. /\ stdin = "nil" /\ stdin' = "open"
          /\ UNCHANGED <<interactive, Feeder, outbox, cancelled>>
      BY <1>3, <2>3 DEF prepareCommand, StdinInv, Feeder
    <3>2. Queue!RunSetStdin
      <4> HIDE DEF Task, WorkerPC
      <4> QED
        BY <2>1, <2>3, <3>1, ViewParts DEF Queue!RunSetStdin, OfTask
    <3> QED
      BY <3>2 DEF Queue!Next, Queue!Runner
  <2> QED
    BY <2>2, <2>3
<1>4. CASE closeStdin
  <2>1. WorkerPC = "run" /\ WorkerPC' = "run"
    BY <1>4 DEF closeStdin, WorkerPC
  <2>2. CASE ~interactive
    BY <1>4, <2>1, <2>2, <1>v DEF closeStdin, view, Feeder
  <2>3. CASE interactive
    <3>1. /\ stdin = "open" /\ stdin' = "closed"
          /\ UNCHANGED <<interactive, Feeder, outbox, cancelled>>
      BY <1>4, <2>3 DEF closeStdin, StdinInv, Feeder
    <3>2. Queue!RunCloseStdin
      <4> HIDE DEF Task, WorkerPC
      <4> QED
        BY <2>1, <2>3, <3>1, ViewParts DEF Queue!RunCloseStdin, OfTask
    <3> QED
      BY <3>2 DEF Queue!Next, Queue!Runner
  <2> QED
    BY <2>2, <2>3
<1>5. CASE ReturnError \/ stopHealthCheck \/ stopHealthReturns
  <2>1. WorkerPC = "run" /\ WorkerPC' \in {"run", "close"}
    BY <1>5 DEF ReturnError, stopHealthCheck, stopHealthReturns, WorkerPC
  <2>2. UNCHANGED <<interactive, Feeder, outbox, cancelled, stdin>>
    BY <1>5, <1>0 DEF ReturnError, stopHealthCheck, stopHealthReturns, Feeder, Inv, ControlInv
  <2>3. CASE WorkerPC' = "run"
    BY <2>1, <2>2, <2>3, <1>v DEF view
  <2>4. CASE WorkerPC' = "close"
    <3>1. Queue!RunReturn
      <4> HIDE DEF Task, WorkerPC
      <4> QED
        BY <2>1, <2>2, <2>4, ViewParts
        DEF Queue!RunReturn, Queue!qmVars, Queue!taskVars, OfTask, Feeder
    <3> QED
      BY <3>1 DEF Queue!Next, Queue!Runner
  <2> QED
    BY <2>1, <2>3, <2>4
<1>6. CASE CloseMsgChan
  <2>1. WorkerPC = "close" /\ WorkerPC' = "complete"
    BY <1>6 DEF CloseMsgChan, WorkerPC
  <2>2. UNCHANGED <<interactive, Feeder, outbox, cancelled, stdin>>
    BY <1>6 DEF CloseMsgChan, Feeder
  <2>3. Queue!CloseMsgChan
    <3> HIDE DEF Task, WorkerPC
    <3> QED
      BY <2>1, <2>2, ViewParts DEF Queue!CloseMsgChan, Queue!qmVars, OfTask, Feeder
  <2> QED
    BY <2>3 DEF Queue!Next, Queue!Worker
<1>7. CASE CompleteActive
  <2>1. WorkerPC = "complete" /\ WorkerPC' = "delay"
    BY <1>7 DEF CompleteActive, WorkerPC
  <2>2. /\ Feeder = "none" /\ stdin' = "nil"
        /\ UNCHANGED <<interactive, Feeder, outbox, cancelled>>
    BY <1>7 DEF CompleteActive, Feeder
  <2>3. Queue!CompleteActive
    <3> HIDE DEF Task, WorkerPC
    <3> QED
      BY <2>1, <2>2, ViewParts DEF Queue!CompleteActive, Queue!Unlocked, OfTask, Feeder
  <2> QED
    BY <2>3 DEF Queue!Next, Queue!Worker
<1>8. ASSUME NEW s \in Streams, ReadToken(s) \/ ReadEOF(s) \/ StreamCancelled(s)
      PROVE  UNCHANGED Queue!vars
  BY <1>8, <1>v DEF view, WorkerPC, Feeder, ReadToken, ReadEOF, StreamCancelled
<1>9. ASSUME NEW s \in Streams, SendToken(s) PROVE Queue!Next
  <2>1. Token(s, taken[s]) \in Messages
    BY <1>0 DEF TypeOK, Token, Messages
  <2>2. Messaged' = Append(Messaged, Queue!Output) /\ Len(Messaged) < OutboxSize
    BY <1>9, <2>1, <1>0, MessagedAppend DEF SendToken, Room
  <2>3. WorkerPC = "run" /\ WorkerPC' = "run"
    BY <1>9 DEF SendToken, Inv, ControlInv, WorkerPC
  <2>4. UNCHANGED <<interactive, Feeder, cancelled, stdin>>
    BY <1>9 DEF SendToken, Feeder
  <2> QED
    BY <2>2, <2>3, <2>4, SendIsRunOutput
<1>10. CASE FeedInput
  <2>1. /\ mu = "free"
        /\ UNCHANGED <<interactive, WorkerPC, outbox, cancelled, stdin>>
    BY <1>10 DEF FeedInput, WorkerPC
  <2>2. CASE stdin # "open"
    BY <1>10, <2>1, <2>2, <1>v DEF FeedInput, view, Feeder
  <2>3. CASE stdin = "open"
    <3>1. Feeder = "none" /\ Feeder' = "client"
      BY <1>10, <2>1, <2>3 DEF FeedInput, Feeder
    <3>2. WorkerPC # "delay"
      BY <2>3 DEF StdinInv, WorkerPC
    <3>3. Queue!FeedInput("client")
      <4> HIDE DEF Task, WorkerPC
      <4> QED
        BY <2>1, <2>3, <3>1, <3>2, ViewParts
        DEF Queue!FeedInput, Queue!Unlocked, Queue!taskVars, OfTask, RunTasks, Feeder
    <3> QED
      BY <3>3 DEF Queue!Next, Queue!Handler
  <2> QED
    BY <2>2, <2>3
<1>11. CASE FeedFails
  <2>1. /\ Feeder = "client" /\ Feeder' = "none" /\ stdin = "closed"
        /\ UNCHANGED <<interactive, WorkerPC, outbox, cancelled, stdin>>
    BY <1>11 DEF FeedFails, WorkerPC, Feeder, Inv, ControlInv
  <2>2. WorkerPC # "delay"
    BY <2>1 DEF StdinInv, WorkerPC
  <2>3. Queue!FeedFails
    <3> HIDE DEF Task, WorkerPC
    <3> QED
      BY <2>1, <2>2, ViewParts DEF Queue!FeedFails, Queue!taskVars, OfTask, Feeder
  <2> QED
    BY <2>3 DEF Queue!Next, Queue!Handler
<1>12. CASE CopierTakes
  <2>1. /\ Feeder = "client" /\ Feeder' = "none" /\ stdin = "open"
        /\ UNCHANGED <<interactive, WorkerPC, outbox, cancelled, stdin>>
    BY <1>12 DEF CopierTakes, WorkerPC, Feeder, Inv, ControlInv
  <2>2. WorkerPC = "run"
    BY <1>12 DEF CopierTakes, Inv, ControlInv, WorkerPC
  <2>3. Queue!FeedTaken
    <3> HIDE DEF Task, WorkerPC
    <3> QED
      BY <2>1, <2>2, ViewParts DEF Queue!FeedTaken, Queue!taskVars, OfTask, Feeder
  <2> QED
    BY <2>3 DEF Queue!Next, Queue!Handler
<1>13. CASE CopierWrites \/ CopierEnds \/ Command \/ RouteInbox \/ HealthEnds \/ PingFails
  BY <1>13, <1>v DEF view, WorkerPC, Feeder, CopierWrites, CopierEnds, Command, ProcReads,
     ProcForks, HeirExits, ProcExits, ProcWrites, ProcBlocks, RouteInbox, HealthEnds, PingFails
<1>14. CASE RouterReceive
  <2>1. /\ Messaged' = Tail(Messaged)
        /\ Messaged # <<>>
        /\ Head(Messaged) = Queue!Output
    BY <1>14, <1>0, MessagedTail DEF RouterReceive
  <2>2. UNCHANGED <<interactive, WorkerPC, Feeder, cancelled, stdin>>
    BY <1>14 DEF RouterReceive, WorkerPC, Feeder
  <2>3. UNCHANGED <<interactive, WorkerPC, Task>>
    BY <2>2, ViewParts
  <2>4. /\ OfTask(Messaged, <<>>)[Task] # <<>>
        /\ OfTask(Messaged, <<>>)' = [OfTask(Messaged, <<>>) EXCEPT ![Task] = Tail(@)]
        /\ OfTask(0, 0)' = [OfTask(0, 0) EXCEPT ![Task] =
                            IF Head(OfTask(Messaged, <<>>)[Task]).event = "queue_position"
                            THEN Head(OfTask(Messaged, <<>>)[Task]).pos ELSE @]
    <3> HIDE DEF Task, Messaged
    <3>1. OfTask(Messaged, <<>>)' = OfTask(Messaged', <<>>) /\ OfTask(0, 0)' = OfTask(0, 0)
      BY <2>3 DEF OfTask
    <3>2. OfTask(Messaged, <<>>)[Task] = Messaged /\ OfTask(0, 0)[Task] = 0
      BY OfTaskIs
    <3>3. [OfTask(Messaged, <<>>) EXCEPT ![Task] = Tail(Messaged)]
            = OfTask(Tail(Messaged), <<>>)
      BY DEF OfTask
    <3>5. [OfTask(0, 0) EXCEPT ![Task] = 0] = OfTask(0, 0)
      BY DEF OfTask
    <3>4. Head(Messaged).event # "queue_position"
      BY <2>1 DEF Queue!Output
    <3> HIDE DEF OfTask
    <3> QED
      BY <2>1, <3>1, <3>2, <3>3, <3>4, <3>5
  <2>5. Queue!RouterReceive(Task)
    <3>1. UNCHANGED <<Queue!qmVars, 1, OfTask(1, 0), OfTask(WorkerPC \in {"complete", "delay"}, FALSE),
                      OfTask(cancelled, FALSE), OfTask(stdin, "nil")>>
      BY <2>2, <2>3, ViewParts DEF OfTask
    <3> HIDE DEF Task, WorkerPC
    <3> QED
      BY <2>2, <2>3, <2>4, <3>1 DEF Queue!RouterReceive, Queue!Output, Messaged
  <2> QED
    BY <2>5, ViewParts DEF Queue!Next, Queue!Environment
<1>15. CASE Cancel \/ CloseCancels
  <2>1. cancelled' = TRUE /\ UNCHANGED <<interactive, WorkerPC, Feeder, outbox, stdin>>
    BY <1>15 DEF Cancel, CloseCancels, WorkerPC, Feeder
  <2>2. Queue!SessionCancel(Task)
    <3>1. UNCHANGED <<Task, Queue!qmVars, Queue!envVars>>
      BY <2>1, ViewParts
    <3> HIDE DEF Task, WorkerPC
    <3>2. OfTask(cancelled, FALSE)' = OfTask(TRUE, FALSE)
      BY <2>1, <3>1, Zenon DEF OfTask
    <3>3. UNCHANGED <<1, OfTask(1, 0), OfTask(Messaged, <<>>),
                      OfTask(WorkerPC \in {"complete", "delay"}, FALSE), OfTask(stdin, "nil")>>
      BY <2>1, <3>1 DEF OfTask, Messaged
    <3>4. OfTask(1, 0)[Task] = 1
      BY OfTaskIs
    <3>5. [OfTask(cancelled, FALSE) EXCEPT ![Task] = TRUE] = OfTask(TRUE, FALSE)
      BY Zenon DEF OfTask
    <3> HIDE DEF OfTask
    <3>6. OfTask(1, 0)[Task] # 0
      BY <3>4
    <3>7. OfTask(cancelled, FALSE)' = [OfTask(cancelled, FALSE) EXCEPT ![Task] = TRUE]
      BY <3>2, <3>5, Zenon
    <3>8. UNCHANGED <<Queue!qmVars, 1, OfTask(1, 0), OfTask(Messaged, <<>>),
                      OfTask(WorkerPC \in {"complete", "delay"}, FALSE), OfTask(stdin, "nil"),
                      Queue!envVars>>
      BY <3>1, <3>3
    <3> QED
      BY <3>6, <3>7, <3>8, Zenon
      DEF Queue!SessionCancel, Queue!Submitted, Queue!Output, Messaged
  <2> QED
    BY <2>2, ViewParts DEF Queue!Next, Queue!Environment
<1>16. CASE UNCHANGED vars
  BY <1>16, <1>v DEF vars, view, WorkerPC, Feeder
<1> QED
  BY <1>1, <1>2, <1>3, <1>4, <1>5, <1>6, <1>7, <1>8, <1>9, <1>10, <1>11, <1>12, <1>13, <1>14,
     <1>15, <1>16
     DEF Next, executeTask, validateArgsFails, handleStartError, Worker, streamOutput, Router,
     Copier

\* executeTask keeps to what the queue manager asks of a TaskRunner, and its FeedInput,
\* router and Worker meet it only in the ways that TaskQueue has: what is proved of
\* TaskQueue with any such runner holds with this one.
THEOREM RunImplementsRunner == Spec => ImplementsRunner
<1>1. Init => StdinInv
  BY DEF Init, StdinInv
<1>2. Inv /\ StdinInv /\ [Next]_vars => StdinInv'
  BY StdinStays DEF Inv
<1>3. Inv /\ StdinInv /\ [Next]_vars => [Queue!Next]_(Queue!vars)
  BY StepImplementsRunner
<1> QED
  BY <1>1, <1>2, <1>3, InvariantHolds, PTL DEF Spec, ImplementsRunner

=============================================================================
