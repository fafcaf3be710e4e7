------------------------------ MODULE MCContentDB ------------------------------
(* A small instance of ContentDB for TLC. *)
EXTENDS ContentDB

\* The order of the cases does not matter to the gates: one sequence for every
\* multiset of rows.
Weight(row) == (IF row.bm25 = Miss THEN 0 ELSE 10 * row.bm25)
               + (IF row.hybrid = Miss THEN 0 ELSE row.hybrid)

Sorted ==
    {rows \in [1 .. Cases -> Row] :
        \A i \in 1 .. Cases - 1 : Weight(rows[i]) <= Weight(rows[i + 1])}
===============================================================================
