------------------------------ MODULE MCVectors ------------------------------
(* Small instances of Vectors for TLC. *)
EXTENDS Vectors, TLC

CONSTANTS server, warmup, t1, t2, t3, r1, r2, a, b

\* All threads belong to the server.
OneProcess == [t \in Threads |-> server]

\* t3 is the thread of a warmup, the others belong to the server.
TwoProcesses == [t \in Threads |-> IF t = t3 THEN warmup ELSE server]

\* Rowids, texts, and the threads of the server are alike.
AlikeData    == Permutations({r1, r2} \cap Rowids) \cup Permutations(Texts)
AlikeServer  == AlikeData \cup Permutations({t1, t2} \cap Threads)
AlikeThreads == AlikeData \cup Permutations(Threads)
=============================================================================
