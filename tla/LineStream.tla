----------------------------- MODULE LineStream ------------------------------
(***************************************************************************)
(* What the client of a task is promised of one of its streams, without    *)
(* readers, tokens or messages: the terminal shows the lines the command   *)
(* wrote, one after the other, each when it is finished.                   *)
(***************************************************************************)
EXTENDS Integers, Sequences

CONSTANTS
  Bytes,       \* what a command may write
  Display(_),  \* what the terminal shows of a sequence of them
  NewLine      \* what it shows after a last line that has no end

VARIABLES
  written,  \* what the command has written
  pipe,     \* the stream: "open", "eof", or "broken" by an error
  mark,     \* how much of it has been shown
  shown     \* the terminal

vars == <<written, pipe, mark, shown>>

Init ==
  /\ written = <<>>
  /\ pipe = "open"
  /\ mark = 0
  /\ shown = <<>>

\* A carriage return ends a line for certain when it is known what follows it.
LineEnd(i) ==
  \/ written[i] = "lf"
  \/ written[i] = "cr" /\ i < Len(written) /\ written[i + 1] # "lf"
  \/ written[i] = "cr" /\ i = Len(written) /\ pipe # "open"

Show(end, more) ==
  /\ \A i \in (mark + 1)..(end - 1) : ~LineEnd(i)
  /\ shown' = shown \o Display(SubSeq(written, mark + 1, end)) \o more
  /\ mark' = end
  /\ UNCHANGED <<written, pipe>>

Write(b) ==
  /\ pipe = "open"
  /\ written' = Append(written, b)
  /\ UNCHANGED <<pipe, mark, shown>>

Close ==
  /\ pipe = "open"
  /\ pipe' \in {"eof", "broken"}
  /\ UNCHANGED <<written, mark, shown>>

\* One line, and the whole of it.
ShowLine(end) == LineEnd(end) /\ Show(end, <<>>)

\* The last line may have no end ...
ShowRest ==
  /\ pipe = "eof"
  /\ mark < Len(written)
  /\ ~LineEnd(Len(written))
  /\ Show(Len(written), <<NewLine>>)

\* ... and an error may come between a carriage return and its line feed.
ShowCut(end) == pipe = "broken" /\ written[end] = "cr" /\ Show(end, <<>>)

Next ==
  \/ \E b \in Bytes : Write(b)
  \/ Close
  \/ \E end \in (mark + 1)..Len(written) : ShowLine(end) \/ ShowCut(end)
  \/ ShowRest

Spec == Init /\ [][Next]_vars

==============================================================================
