----------------------------- MODULE MCTaskQueue -----------------------------
(* Two sessions with a task each; the second task is interactive. *)
EXTENDS TaskQueue

CONSTANTS t1, t2, s1, s2

MCTasks == {t1, t2}
MCSessions == {s1, s2}
MCOwner == (t1 :> s1) @@ (t2 :> s2)
MCOneOwner == [t \in MCTasks |-> s1]
MCInteractive == {t2}

==============================================================================
