--------------------------- MODULE MCWorkerClient ---------------------------
(* WorkerClient on small instances. *)
EXTENDS WorkerClient, TLC

Symmetry == Permutations(Requests) \cup Permutations(Closers)
=============================================================================
