------------------------------ MODULE MCSettings -----------------------------
(* Settings on small sets: processes and threads are interchangeable. *)
EXTENDS Settings, TLC

Interchangeable == Permutations(Procs) \cup Permutations(Threads)
=============================================================================
