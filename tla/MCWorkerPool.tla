----------------------------- MODULE MCWorkerPool -----------------------------
(* Small instances of WorkerPool for TLC. *)
EXTENDS WorkerPool, TLC

CONSTANTS j1, j2, j3, w1, w2, f1, f2

OneWorker  == {w1}
TwoWorkers == {w1, w2}
ThreeJobs  == {j1, j2, j3}
TwoJobs    == {j1, j2}
TwoFiles   == {f1, f2}
OneFile    == {f1}
AllButThird == {j1, j2}
JustFirst   == {j1}
===============================================================================
