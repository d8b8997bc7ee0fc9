------------------------------ MODULE MCExecutor ------------------------------
(* Bounds on the tokens of each stream. *)
EXTENDS Executor

\* The first token of stderr fills the outbox; of those of stdout one is with the
\* goroutine, one in the pipe, and the command is blocked on the third.
MCBlocking == [stdout |-> 3, stderr |-> 1]

\* One token is enough for input that is not taken.
MCOneToken == [s \in Streams |-> 1]

==============================================================================
