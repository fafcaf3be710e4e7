----------------------------- MODULE VectorIndex -----------------------------
(***************************************************************************)
(* What vectors.py promises to the callers of search(), without its locks, *)
(* versions and caches.  The store passes through a sequence of contents.  *)
(* A process carries a fence, the oldest contents its answers may still    *)
(* come from: the latest of its own acknowledged syncs, or its start.  An  *)
(* answer is a full top k of the rows that are live in the source at the   *)
(* moment of the answer, in contents no older than the fence was when the  *)
(* question was asked.                                                     *)
(***************************************************************************)
EXTENDS Naturals, FiniteSets, Sequences

CONSTANTS Rowids, Texts, NoText, LegacyHash, NoRow, Procs, Threads, ProcOf, TopK

VARIABLES
    source,     \* upstream chunks table
    contents,   \* contents of the store, oldest first
    fence,      \* per process: oldest contents it may answer from
    asked,      \* per thread: the fence when it asked, 0 when it has no question
    reply       \* per thread: the set of answers so far, none or one

vars == <<source, contents, fence, asked, reply>>

Sources == [Rowids -> Texts \cup {NoText}]
Row     == [hash : Texts \cup {LegacyHash}, vec : Texts]
Current == Len(contents)

\* The rows of the contents that are live in the source at this moment.
Kept(rows) == {r \in Rowids : source[r] # NoText /\ rows[r] # NoRow}

\* A full top k of these rows, for some query.
Answers(rows, kept) ==
    LET size == IF Cardinality(kept) < TopK THEN Cardinality(kept) ELSE TopK
    IN  {{<<r, rows[r].vec>> : r \in best} :
            best \in {s \in SUBSET kept : Cardinality(s) = size}}

Init ==
    /\ source \in Sources
    /\ \E rows \in [Rowids -> Row \cup {NoRow}] : contents = <<rows>>
    /\ fence = [p \in Procs |-> 1]
    /\ asked = [t \in Threads |-> 0]
    /\ reply = [t \in Threads |-> {}]

Upstream ==
    /\ source' \in Sources
    /\ UNCHANGED <<contents, fence, asked, reply>>

\* New contents keep, drop or replace each row; a replacement pairs a text's
\* vector with that same text's hash.
Install ==
    /\ \E rows \in [Rowids -> Row \cup {NoRow}] :
           /\ \A r \in Rowids :
                 \/ rows[r] \in {NoRow, contents[Current][r]}
                 \/ \E x \in Texts : rows[r] = [hash |-> x, vec |-> x]
           /\ contents' = Append(contents, rows)
    /\ UNCHANGED <<source, fence, asked, reply>>

Acknowledge(p) ==
    /\ \E i \in fence[p] + 1 .. Current : fence' = [fence EXCEPT ![p] = i]
    /\ UNCHANGED <<source, contents, asked, reply>>

Restart(p) ==
    /\ fence' = [fence EXCEPT ![p] = Current]
    /\ asked' = [t \in Threads |-> IF ProcOf[t] = p THEN 0 ELSE asked[t]]
    /\ reply' = [t \in Threads |-> IF ProcOf[t] = p THEN {} ELSE reply[t]]
    /\ UNCHANGED <<source, contents>>

Ask(t) ==
    /\ asked[t] = 0
    /\ asked' = [asked EXCEPT ![t] = fence[ProcOf[t]]]
    /\ UNCHANGED <<source, contents, fence, reply>>

Answer(t) ==
    /\ asked[t] > 0
    /\ reply[t] = {}
    /\ \E i \in asked[t] .. Current :
           \E hits \in Answers(contents[i], Kept(contents[i])) :
               reply' = [reply EXCEPT ![t] = {hits}]
    /\ UNCHANGED <<source, contents, fence, asked>>

Done(t) ==
    /\ reply[t] # {}
    /\ asked' = [asked EXCEPT ![t] = 0]
    /\ reply' = [reply EXCEPT ![t] = {}]
    /\ UNCHANGED <<source, contents, fence>>

Next ==
    \/ Upstream
    \/ Install
    \/ \E p \in Procs : Acknowledge(p) \/ Restart(p)
    \/ \E t \in Threads : Ask(t) \/ Answer(t) \/ Done(t)

Spec == Init /\ [][Next]_vars
=============================================================================
