----------------------------- MODULE MCTaskQueue -----------------------------
(* Instances of TaskQueue for TLC.                                             *)
EXTENDS TaskQueue

CONSTANTS t1, t2, w1, w2

MCTasks     == {t1, t2}
MCUnhandled == {t2}
MCWorkers   == {w1, w2}
=============================================================================
