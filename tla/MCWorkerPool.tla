---------------------------- MODULE MCWorkerPool ----------------------------
(* Instances of WorkerPool for TLC. *)
EXTENDS WorkerPool

\* What a resumed file download may start from when chunks completed in order.
FirstChunks == {0 .. n - 1 : n \in 0 .. NumChunks - 1}
NothingDone == {{}}
=============================================================================
