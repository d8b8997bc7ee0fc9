---------------------------- MODULE TaskLifecycle ----------------------------
(***************************************************************************)
(* What the task queue promises to its clients, without sessions, channels *)
(* or the mutex: tasks stand in one line, are served one at a time from    *)
(* its front, and may give up while they wait.                             *)
(***************************************************************************)
EXTENDS Naturals, Sequences, SequencesExt

CONSTANTS
  Tasks,   \* the tasks
  NoTask   \* nobody is served

VARIABLES
  line,     \* the tasks that wait, in the order in which they came
  current,  \* the task that is served, or NoTask
  ended     \* the tasks that were served or gave up

vars == <<line, current, ended>>

Init ==
  /\ line = <<>>
  /\ current = NoTask
  /\ ended = {}

\* A task comes once, and to the end of the line.
Submit(t) ==
  /\ t \notin ToSet(line) \cup {current} \cup ended
  /\ line' = Append(line, t)
  /\ UNCHANGED <<current, ended>>

Start ==
  /\ current = NoTask
  /\ line # <<>>
  /\ current' = Head(line)
  /\ line' = Tail(line)
  /\ UNCHANGED ended

Finish ==
  /\ current # NoTask
  /\ ended' = ended \cup {current}
  /\ current' = NoTask
  /\ UNCHANGED line

GiveUp(i) ==
  /\ ended' = ended \cup {line[i]}
  /\ line' = RemoveAt(line, i)
  /\ UNCHANGED current

\* The service closes when nobody is being served; all who wait give up.
Close ==
  /\ current = NoTask
  /\ ended' = ended \cup ToSet(line)
  /\ line' = <<>>
  /\ UNCHANGED current

Next ==
  \/ \E t \in Tasks : Submit(t)
  \/ Start
  \/ Finish
  \/ \E i \in DOMAIN line : GiveUp(i)
  \/ Close

Spec == Init /\ [][Next]_vars

==============================================================================
