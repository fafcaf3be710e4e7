----------------------------- MODULE MCEmbedder ------------------------------
(* Small instances of Embedder for TLC. *)
EXTENDS Embedder, TLC

\* Threads are alike (safety runs only).
Alike == Permutations(Threads)
=============================================================================
