------------------------------ MODULE MCTasks -------------------------------
(***************************************************************************)
(* Small sets of tasks for Tasks.                                          *)
(***************************************************************************)
EXTENDS Tasks, TLC

CONSTANTS t1, t2, t3

TwoTasks   == {t1, t2}
ThreeTasks == {t1, t2, t3}

\* The tasks besides the native one differ in nothing but their names.
Others == Permutations({t2, t3})
=============================================================================
