---------------------------- MODULE MCTaskQueue ----------------------------
(* Constants of the TLC runs of TaskQueue.                                 *)
EXTENDS TaskQueue, TLC

CONSTANTS t1, t2, t3, w1, w2

MCTasks == {t1, t2, t3}
MCWorkers == {w1, w2}
\* One urgent task and two of the default priority.
MCPriority == (t1 :> 0) @@ (t2 :> 1) @@ (t3 :> 1)
=============================================================================
