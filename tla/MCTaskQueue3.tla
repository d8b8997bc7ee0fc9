---------------------------- MODULE MCTaskQueue3 -----------------------------
(* Three interchangeable tasks of one session, for the order of the line. *)
EXTENDS TaskQueue

CONSTANTS t1, t2, t3, s1

MCTasks == {t1, t2, t3}
MCOwner == [t \in MCTasks |-> s1]
MCSymmetry == Permutations(MCTasks)

==============================================================================
