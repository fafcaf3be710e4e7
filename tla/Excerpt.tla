-------------------------------- MODULE Excerpt --------------------------------
(***************************************************************************)
(* The part of a chunk a block shows: _excerpt in ctx_semantic/hybrid.py.  *)
(* A position counts characters from 0, as in the code, and an excerpt is  *)
(* the slice from .. end - 1 of the content.                               *)
(***************************************************************************)
EXTENDS Integers, Sequences

CONSTANT Width      \* the width of an excerpt (240 in the code)

ASSUME ExcerptAssumption == Width \in Nat \ {0}

\* str.find() of a term the text does not hold.
NotFound == -1

\* The position of the first term, in the order of the query, that is found.
Hit(positions) ==
    LET found == {i \in DOMAIN positions : positions[i] # NotFound}
    IN  IF found = {} THEN NotFound
        ELSE positions[CHOOSE i \in found : \A j \in found : i <= j]

Least(m, n)    == IF m <= n THEN m ELSE n
Greatest(m, n) == IF m >= n THEN m ELSE n

\* Bug: the quarter of the width is left after the hit instead of before it.
QuarterAfterHit(len, hit) ==
    IF hit = NotFound
      THEN [from |-> 0, end |-> Least(len, Width)]
      ELSE LET end == Least(len, hit + Width \div 4)
           IN  [from |-> Greatest(0, end - Width), end |-> end]

\* The window starts a quarter of its width before the hit; at the end of the
\* content it slides back to keep its width.  Without a hit it is the head.
Window(len, hit) ==
    IF hit = NotFound
      THEN [from |-> 0, end |-> Least(len, Width)]
      ELSE LET end == Least(len, Greatest(0, hit - Width \div 4) + Width)
           IN  [from |-> Greatest(0, end - Width), end |-> end]
================================================================================
