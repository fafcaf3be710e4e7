------------------------------ MODULE StoreRows ------------------------------
(***************************************************************************)
(* The rows the store of ctx_semantic/vectors.py holds for one key, and    *)
(* what a sync of a snapshot does to them.                                 *)
(*                                                                         *)
(* A chunk's text is a member of Texts, its hash and its embedding are     *)
(* that text: the hash is injective and the embedder deterministic.        *)
(***************************************************************************)

CONSTANTS
    Rowids,         \* rowids of the upstream chunks table
    Texts,          \* title + content of a chunk, as one value
    NoText,         \* the rowid is not in the chunks table
    LegacyHash,     \* a SOURCE-level hash written before chunk-level hashing
    NoRow           \* the store has no row for the rowid

Sources == [Rowids -> Texts \cup {NoText}]
Row     == [hash : Texts \cup {LegacyHash}, vec : Texts]
Rows    == [Rowids -> Row \cup {NoRow}]

Empty       == [r \in Rowids |-> NoRow]
LegacyRows  == [Rowids -> [hash : {LegacyHash}, vec : Texts] \cup {NoRow}]

Live(chunks)  == {r \in Rowids : chunks[r] # NoText}
Indexed(rows) == {r \in Rowids : rows[r] # NoRow}

\* Bug: only the missing rowids are embedded, a changed text is not.
TodoMissing(chunks, stored) == Live(chunks) \ Indexed(stored)

Todo(chunks, stored) ==
    {r \in Live(chunks) : r \notin Indexed(stored) \/ stored[r].hash # chunks[r]}

Stale(chunks, stored) == Indexed(stored) \ Live(chunks)

\* The row that a chunk embedded from the text should have.
RowOf(text) == [hash |-> text, vec |-> text]

\* What one sync makes of the rows it finds, when it all goes well: each chunk
\* gets the vector of its own text.
Apply(rows, chunks, stored) ==
    [r \in Rowids |->
        IF r \in Todo(chunks, stored) THEN RowOf(chunks[r])
        ELSE IF r \in Stale(chunks, stored) THEN NoRow
        ELSE rows[r]]

\* Every row with a chunk hash holds the vector of the text that was hashed.
Consistent(rows) ==
    \A r \in Indexed(rows) : rows[r].hash \in Texts => rows[r].vec = rows[r].hash
==============================================================================
