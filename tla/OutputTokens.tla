----------------------------- MODULE OutputTokens -----------------------------
(***************************************************************************)
(* What a command writes to one of its streams on its way to the client's  *)
(* terminal: streamOutput and readToken cut the bytes into tokens, the     *)
(* client's defaultHandler prints the tokens. That a token reaches the     *)
(* client, in its order, is Executor's, TaskQueue's and ClientLoop's.      *)
(*                                                                         *)
(* A byte is a carriage return, a line feed, part of other text, or not    *)
(* part of any valid UTF-8 text.                                           *)
(***************************************************************************)
EXTENDS Integers, Sequences

CONSTANT MaxBytes  \* bound: bytes the command writes

ASSUME TokensConstantsOK == MaxBytes \in Nat

Bytes == {"cr", "lf", "text", "raw"}

VARIABLES
  written,    \* what the command has written
  pipe,       \* the other end of the pipe: "open", "eof", or "broken" by an error
  cancelled,  \* Task.Ctx
  pos,        \* how many bytes ReadByte has returned and UnreadByte not put back
  pc,         \* where streamOutput is: in readToken, readCarriageReturn, select
  buf,        \* buf of readToken
  delim,      \* the delimiter of the token
  shown,      \* what the client has printed
  mark        \* history: where the last token printed ends in written

vars == <<written, pipe, cancelled, pos, pc, buf, delim, shown, mark>>

Init ==
  /\ written = <<>>
  /\ pipe = "open"
  /\ cancelled = FALSE
  /\ pos = 0
  /\ pc = "readToken"
  /\ buf = <<>>
  /\ delim = <<>>
  /\ shown = <<>>
  /\ mark = 0

-----------------------------------------------------------------------------
(* readToken. *)

NextByte == written[pos + 1]
Available == pos < Len(written)

\* ReadByte fails: at the end of the file only when everything has been read.
Fails == pipe = "broken" \/ (pipe = "eof" /\ ~Available)

ReadText ==
  /\ pc = "readToken"
  /\ Available
  /\ NextByte \notin {"cr", "lf"}
  /\ pos' = pos + 1
  /\ buf' = Append(buf, NextByte)
  /\ UNCHANGED <<written, pipe, cancelled, pc, delim, shown, mark>>

\* Mutant: an empty line is no token.
ReadLineFeedNonEmpty ==
  /\ pc = "readToken"
  /\ Available
  /\ NextByte = "lf"
  /\ pos' = pos + 1
  /\ delim' = <<"lf">>
  /\ pc' = IF buf = <<>> THEN "readToken" ELSE "select"
  /\ UNCHANGED <<written, pipe, cancelled, buf, shown, mark>>

ReadLineFeed ==
  /\ pc = "readToken"
  /\ Available
  /\ NextByte = "lf"
  /\ pos' = pos + 1
  /\ delim' = <<"lf">>
  /\ pc' = "select"
  /\ UNCHANGED <<written, pipe, cancelled, buf, shown, mark>>

\* Mutant: a carriage return is a delimiter at once.
ReadCarriageReturnAlone ==
  /\ pc = "readToken"
  /\ Available
  /\ NextByte = "cr"
  /\ pos' = pos + 1
  /\ delim' = <<"cr">>
  /\ pc' = "select"
  /\ UNCHANGED <<written, pipe, cancelled, buf, shown, mark>>

\* Mutant: only a line feed is a delimiter.
ReadCarriageReturnAsText ==
  /\ pc = "readToken"
  /\ Available
  /\ NextByte = "cr"
  /\ pos' = pos + 1
  /\ buf' = Append(buf, NextByte)
  /\ UNCHANGED <<written, pipe, cancelled, pc, delim, shown, mark>>

ReadCarriageReturn ==
  /\ pc = "readToken"
  /\ Available
  /\ NextByte = "cr"
  /\ pos' = pos + 1
  /\ pc' = "readCarriageReturn"
  /\ UNCHANGED <<written, pipe, cancelled, buf, delim, shown, mark>>

\* Mutant: the end of the file is an error like any other.
handleReadErrorAlike ==
  /\ pc = "readToken"
  /\ Fails
  /\ pc' = "done"
  /\ UNCHANGED <<written, pipe, cancelled, pos, buf, delim, shown, mark>>

\* What was read before the end of the file is a token without a delimiter; what
\* was read before an error is dropped.
handleReadError ==
  /\ pc = "readToken"
  /\ Fails
  /\ pc' = IF pipe = "eof" /\ buf # <<>> THEN "select" ELSE "done"
  /\ UNCHANGED <<written, pipe, cancelled, pos, buf, delim, shown, mark>>

(* readCarriageReturn. *)

LineFeedFollows ==
  /\ pc = "readCarriageReturn"
  /\ Available
  /\ NextByte = "lf"
  /\ pos' = pos + 1
  /\ delim' = <<"cr", "lf">>
  /\ pc' = "select"
  /\ UNCHANGED <<written, pipe, cancelled, buf, shown, mark>>

\* UnreadByte puts the byte back.
OtherByteFollows ==
  /\ pc = "readCarriageReturn"
  /\ Available
  /\ NextByte # "lf"
  /\ delim' = <<"cr">>
  /\ pc' = "select"
  /\ UNCHANGED <<written, pipe, cancelled, pos, buf, shown, mark>>

\* The error is not looked at; ReadByte will fail again.
NothingFollows ==
  /\ pc = "readCarriageReturn"
  /\ Fails
  /\ delim' = <<"cr">>
  /\ pc' = "select"
  /\ UNCHANGED <<written, pipe, cancelled, pos, buf, shown, mark>>

-----------------------------------------------------------------------------
(* From the select of streamOutput to the terminal. *)

\* encoding/json writes the replacement character for what is not UTF-8.
Json(bytes) == [i \in DOMAIN bytes |-> IF bytes[i] = "raw" THEN "ufffd" ELSE bytes[i]]

\* The client adds a line feed to a token without a delimiter.
defaultHandler(data, del) ==
  data \o (IF del # <<>> THEN del ELSE IF data # <<>> THEN <<"lf">> ELSE <<>>)

Send ==
  /\ pc = "select"
  /\ shown' = shown \o defaultHandler(Json(buf), delim)
  /\ mark' = mark + Len(buf) + Len(delim)
  /\ buf' = <<>>
  /\ delim' = <<>>
  /\ pc' = "readToken"
  /\ UNCHANGED <<written, pipe, cancelled, pos>>

SendCancelled ==
  /\ pc = "select"
  /\ cancelled
  /\ pc' = "done"
  /\ UNCHANGED <<written, pipe, cancelled, pos, buf, delim, shown, mark>>

-----------------------------------------------------------------------------
(* The command and the session. *)

Write(b) ==
  /\ pipe = "open"
  /\ Len(written) < MaxBytes
  /\ written' = Append(written, b)
  /\ UNCHANGED <<pipe, cancelled, pos, pc, buf, delim, shown, mark>>

Close ==
  /\ pipe = "open"
  /\ pipe' \in {"eof", "broken"}
  /\ UNCHANGED <<written, cancelled, pos, pc, buf, delim, shown, mark>>

Cancel ==
  /\ ~cancelled
  /\ cancelled' = TRUE
  /\ UNCHANGED <<written, pipe, pos, pc, buf, delim, shown, mark>>

readToken == ReadText \/ ReadLineFeed \/ ReadCarriageReturn \/ handleReadError
readCarriageReturn == LineFeedFollows \/ OtherByteFollows \/ NothingFollows
streamOutput == readToken \/ readCarriageReturn \/ Send \/ SendCancelled

Next == streamOutput \/ (\E b \in Bytes : Write(b)) \/ Close \/ Cancel

Spec == Init /\ [][Next]_vars

\* The goroutine goes on when it can. Nothing is asked of the command.
FairSpec == Spec /\ WF_vars(streamOutput)

-----------------------------------------------------------------------------
(* Properties. *)

TypeOK ==
  /\ written \in Seq(Bytes)
  /\ pipe \in {"open", "eof", "broken"}
  /\ cancelled \in BOOLEAN
  /\ pc \in {"readToken", "readCarriageReturn", "select", "done"}
  /\ buf \in Seq({"text", "raw"})
  /\ delim \in {<<>>, <<"cr">>, <<"lf">>, <<"cr", "lf">>}
  /\ shown \in Seq({"cr", "lf", "text", "ufffd"})
  /\ 0 <= mark /\ mark <= pos /\ pos <= Len(written)
  /\ mark \in Nat /\ pos \in Nat

Stream == INSTANCE LineStream WITH Display <- Json, NewLine <- "lf"

LineEnd(i) == Stream!LineEnd(i)

\* The terminal shows what the command wrote, byte for byte up to the last token,
\* except for what JSON replaces and a line feed after a last line without one.
ShownIsWritten ==
  LET told == Json(SubSeq(written, 1, mark)) IN
  \/ shown = told
  \/ shown = Append(told, "lf") /\ pipe = "eof" /\ mark = Len(written)

\* However reads and writes interleave, the terminal shows line after line, each whole,
\* once and in its order: tokens are cut exactly where lines end. A line feed that comes
\* long after its carriage return is not a line of its own; a last line without an end
\* is shown, too; only an error may cut after a carriage return.
ImplementsLineStream == Stream!Spec

\* What has been read and not sent on while the goroutine waits for the next byte is
\* an unfinished line (a prompt, say), never a finished one.
OnlyUnfinishedHeld ==
  pc \in {"readToken", "readCarriageReturn"} =>
    \A i \in (mark + 1)..pos : ~LineEnd(i) \/ (i = pos /\ written[i] = "cr")

\* When the goroutine ends at the end of the file, all has been sent, also the last
\* line if it has no end, unless the task was cancelled.
NothingLost == pc = "done" /\ pipe = "eof" /\ ~cancelled => mark = Len(written)

\* Every finished line is shown some time, without the command having to write or
\* end, unless the task is cancelled or the pipe breaks.
LinesShown ==
  \A i \in 1..MaxBytes :
    (i <= Len(written) /\ LineEnd(i)) ~> (mark >= i \/ cancelled \/ pipe = "broken")

=============================================================================
