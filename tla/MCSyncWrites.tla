----------------------------- MODULE MCSyncWrites -----------------------------
(* A small instance of SyncWrites for TLC. *)
EXTENDS SyncWrites

CONSTANTS server, warmup, r1, r2, a, b

\* Rowids, texts and processes are alike.
Alike == Permutations(Rowids) \cup Permutations(Texts) \cup Permutations(Procs)
===============================================================================
