---------------------------- MODULE MCThreadPool ----------------------------
(* The instance of ThreadPool for TLC: the owner of the pool and somebody   *)
(* else who may call enqueue as the pool is destroyed.                      *)
EXTENDS ThreadPool

CONSTANTS main, helper, w1, w2, w3, t1, t2, t3

TwoCallers == {main, helper}
ThreeWorkers == {w1, w2, w3}
ThreeTasks == {t1, t2, t3}
=============================================================================
