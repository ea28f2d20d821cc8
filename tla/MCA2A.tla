------------------------------- MODULE MCA2A -------------------------------
(* Instances of A2A for TLC. *)
EXTENDS A2A, TLC

CONSTANTS t1, t2, w1, w2, c1

OneTask == {t1}
TwoTasks == {t1, t2}
OneWorker == {w1}
TwoWorkers == {w1, w2}
NoCanceller == {}
OneCanceller == {c1}
NoWorkers == {}

(* The tasks are interchangeable: for the safety properties only. *)
TaskSymmetry == Permutations(TwoTasks)
=============================================================================
