---------------------------- MODULE MCWorkerPool ----------------------------
(* The thread pool with a few tasks and workers. *)
EXTENDS WorkerPool, TLC
=============================================================================
