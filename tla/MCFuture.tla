----------------------------- MODULE MCFuture -----------------------------
(***************************************************************************)
(* Instances of Future for TLC: the main thread, which also pumps the      *)
(* foreground executor, and one worker of the pool.                        *)
(***************************************************************************)
EXTENDS Future, TLC

CONSTANTS main, worker

BothThreads == {main, worker}
BothQueues == {"foreground", "background"}
OnlyMain == {main}
OnlyWorker == {worker}
=============================================================================
