------------------------------- MODULE MCWarmup -------------------------------
(* A small instance of Warmup for TLC. *)
EXTENDS Warmup

CONSTANTS da, db, abs, rel, other

\* Two databases; one of them has an absolute and a relative path.
MCFileOf == [k \in Paths |-> IF k = other THEN db ELSE da]
===============================================================================
