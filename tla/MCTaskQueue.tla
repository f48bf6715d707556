----------------------------- MODULE MCTaskQueue -----------------------------
(***************************************************************************)
(* TLC instance of TaskQueue. No symmetry: the run checks liveness.        *)
(***************************************************************************)
EXTENDS TaskQueue

CONSTANTS t1, t2, s1, s2

MCTasks == {t1, t2}
MCSlots == {s1, s2}
=============================================================================
