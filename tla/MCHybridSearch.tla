---------------------------- MODULE MCHybridSearch ----------------------------
(* Small instances of HybridSearch for TLC. *)
EXTENDS HybridSearch

CONSTANTS x, y, note, session

\* Two sources with a chunk each.
TwoLabels == [c \in Chunks |-> IF c = x THEN note ELSE session]

Term(at, size, grown) == [at |-> at, size |-> size, grown |-> grown]
Absent == Term(NotFound, 2, 0)

\* Eight characters are shown.  The first query finds its second term near the
\* end of x, and in y its only term behind text that lower() makes longer; the
\* second query finds its term in the middle of x and none in y.
TwoTexts == [c \in Chunks |->
    IF c = x THEN [len |-> 20, terms |-> <<<<Absent, Term(16, 4, 0)>>, <<Term(9, 6, 0)>>>>]
    ELSE [len |-> 20, terms |-> <<<<Term(3, 2, 9)>>, <<Absent>>>>]]
===============================================================================
