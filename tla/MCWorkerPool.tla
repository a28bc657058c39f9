---------------------------- MODULE MCWorkerPool ----------------------------
(* Model checking WorkerPool: up to three workers over four targets, so    *)
(* that a worker claims twice while another is still at its first target.  *)
EXTENDS WorkerPool
=============================================================================
