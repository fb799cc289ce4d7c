---------------------- MODULE MCThreadPoolExecutor ----------------------
(* ThreadPoolExecutor with a few threads. *)
EXTENDS ThreadPoolExecutor

CONSTANTS w1, w2, c1, c2

MCWorkers == {w1, w2}
MCCallers == {c1, c2}
=============================================================================
