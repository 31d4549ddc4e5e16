---------------------------- MODULE MCWorkerPool ----------------------------
(* WorkerPool on small instances.  The bounds come from the cfg files. *)
EXTENDS WorkerPool
=============================================================================
