------------------------------ MODULE MCServer -------------------------------
(* Small instances of Server for TLC. *)
EXTENDS Server, TLC

\* Threads are alike (safety runs only).
Alike == Permutations(Threads)
=============================================================================
