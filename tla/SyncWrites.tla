------------------------------ MODULE SyncWrites ------------------------------
(***************************************************************************)
(* The writes of vectors.sync(), one by one: the vectors an embedder       *)
(* returned are paired with the chunks by their position, each pair is one *)
(* INSERT OR REPLACE, each row that went away one DELETE, and the commit   *)
(* comes last.  Processes share the store file; its write lock is taken by *)
(* the first INSERT or DELETE.  Module Vectors takes all of this for one   *)
(* step, with what Apply makes of the rows as its result; this module is   *)
(* why it may.  Within a process the syncs of a key take turns (Vectors).  *)
(***************************************************************************)
EXTENDS StoreRows, Naturals, SequencesExt

CONSTANTS
    Procs,          \* processes that sync the key
    Free            \* nobody has a write transaction on the store

ASSUME SyncWritesAssumption ==
    /\ IsFiniteSet(Rowids)
    /\ NoText \notin Texts
    /\ LegacyHash \notin Texts
    /\ NoRow \notin Row
    /\ Free \notin Procs

VARIABLES
    rows,           \* the committed rows of the key
    writer,         \* the process with a write transaction on the store
    pending,        \* the rows as that process has them so far
    pc,             \* per process: its next step
    job             \* per process: the local variables of its sync

vars == <<rows, writer, pending, pc, job>>

store == <<rows, writer, pending>>

NoJob == [snap |-> [r \in Rowids |-> NoText], found |-> Empty, todo |-> <<>>,
          vecs |-> <<>>, done |-> 0, left |-> {}]

Goto(p, from, to) == pc[p] = from /\ pc' = [pc EXCEPT ![p] = to]

Init ==
    /\ rows \in LegacyRows
    /\ writer = Free
    /\ pending = rows
    /\ pc = [p \in Procs |-> "idle"]
    /\ job = [p \in Procs |-> NoJob]

\* The snapshot of whatever upstream holds, and the SELECT of the stored hashes;
\* the list of chunks to embed has the order of the snapshot, which is any.
\* Without one the embedder is not called.
Select(p) ==
    \E chunks \in Sources : \E todo \in SetToSeqs(Todo(chunks, rows)) :
        /\ Goto(p, "idle", IF todo = <<>> THEN "delete" ELSE "embed")
        /\ job' = [job EXCEPT ![p] =
                      [snap |-> chunks, found |-> rows, todo |-> todo, vecs |-> <<>>,
                       done |-> 0, left |-> Stale(chunks, rows)]]
        /\ UNCHANGED store

\* Any callable may be the embedder: it returns a vector per text in their
\* order, or too few or too many of them.
Batches(texts) ==
    {texts} \cup UNION {[1 .. n -> Texts] : n \in (0 .. Len(texts) + 1) \ {Len(texts)}}

Embed(p) ==
    LET j == job[p] IN
    /\ Goto(p, "embed", "insert")
    /\ \E vecs \in Batches([i \in DOMAIN j.todo |-> j.snap[j.todo[i]]]) :
           job' = [job EXCEPT ![p].vecs = vecs]
    /\ UNCHANGED store

-----------------------------------------------------------------------------
(* The transaction *)

\* The rows as p sees them.
Seen(p) == IF writer = p THEN pending ELSE rows

\* Bug: another process's transaction does not keep p from writing.
WriteAtOnce(p, new) == writer' = p /\ pending' = new

\* A write: the first one takes the write lock.
Write(p, new) ==
    /\ writer \in {Free, p}
    /\ writer' = p
    /\ pending' = new

Insert(p) ==
    LET j == job[p]
        i == j.done + 1
        r == j.todo[i]
    IN  /\ pc[p] = "insert"
        /\ i <= Len(j.todo) /\ i <= Len(j.vecs)
        /\ Write(p, [Seen(p) EXCEPT ![r] = [hash |-> j.snap[r], vec |-> j.vecs[i]]])
        /\ job' = [job EXCEPT ![p].done = i]
        /\ UNCHANGED <<rows, pc>>

\* Bug: the pairing stops with the shorter of the two lists.
InsertedShortest(p) ==
    LET j == job[p] IN
    /\ j.done = Len(j.todo) \/ j.done = Len(j.vecs)
    /\ Goto(p, "insert", "delete")
    /\ UNCHANGED <<store, job>>

\* Both lists end together.
Inserted(p) ==
    LET j == job[p] IN
    /\ j.done = Len(j.todo) /\ j.done = Len(j.vecs)
    /\ Goto(p, "insert", "delete")
    /\ UNCHANGED <<store, job>>

Delete(p) ==
    /\ pc[p] = "delete"
    /\ \E r \in job[p].left :
           /\ Write(p, [Seen(p) EXCEPT ![r] = NoRow])
           /\ job' = [job EXCEPT ![p].left = @ \ {r}]
    /\ UNCHANGED <<rows, pc>>

Leave(p) == pc' = [pc EXCEPT ![p] = "idle"] /\ job' = [job EXCEPT ![p] = NoJob]

Commit(p) ==
    /\ pc[p] = "delete"
    /\ job[p].left = {}
    /\ rows' = Seen(p)
    /\ IF writer = p THEN writer' = Free /\ pending' = rows'
                     ELSE UNCHANGED <<writer, pending>>
    /\ Leave(p)

\* Bug: the transaction outlives the call.
RollbackForgotten(p) == UNCHANGED <<writer, pending>>

\* con.close() without a commit.
Rollback(p) ==
    IF writer = p THEN writer' = Free /\ pending' = rows ELSE UNCHANGED <<writer, pending>>

\* zip() raises: one list ended before the other.
Mismatch(p) ==
    LET j == job[p] IN
    /\ pc[p] = "insert"
    /\ Len(j.todo) # Len(j.vecs)
    /\ j.done = Len(j.todo) \/ j.done = Len(j.vecs)
    /\ Rollback(p)
    /\ Leave(p)
    /\ UNCHANGED rows

\* Bug: a sync that raises commits what it has written.
FailCommits(p) ==
    /\ pc[p] # "idle"
    /\ rows' = Seen(p)
    /\ IF writer = p THEN writer' = Free /\ pending' = rows'
                     ELSE UNCHANGED <<writer, pending>>
    /\ Leave(p)

\* The embedder raises, a write fails or waits too long for the lock, or the
\* process dies: at any step, and SQLite rolls back what was written.
Fail(p) ==
    /\ pc[p] # "idle"
    /\ Rollback(p)
    /\ Leave(p)
    /\ UNCHANGED rows

Next ==
    \E p \in Procs :
        \/ Select(p) \/ Embed(p) \/ Insert(p) \/ Inserted(p) \/ Mismatch(p)
        \/ Delete(p) \/ Commit(p) \/ Fail(p)

Spec == Init /\ [][Next]_vars

-----------------------------------------------------------------------------
(* Properties *)

JobType == [snap : Sources, found : Rows, todo : Seq(Rowids), vecs : Seq(Texts),
            done : Nat, left : SUBSET Rowids]

Wrote(j) == j.done > 0 \/ j.left # Stale(j.snap, j.found)

\* The variables keep their types, and a process has the write lock exactly
\* while it has written something it has not committed.
TypeOK ==
    /\ rows \in Rows /\ pending \in Rows
    /\ writer \in Procs \cup {Free}
    /\ pc \in [Procs -> {"idle", "embed", "insert", "delete"}]
    /\ job \in [Procs -> JobType]
    /\ \A p \in Procs : writer = p <=> Wrote(job[p])

\* A committed row with a chunk hash holds the vector of the text that was
\* hashed, whatever the embedder returns, wherever a sync stops and whoever
\* else writes in between (vectors.py:151-173, "a truncated embedder stream
\* must fail loudly (zip strict), never silently store fewer vectors than
\* chunks", tests/test_vectors.py:262-263).
RowsSelfConsistent == Consistent(rows)

\* The rows change only by a whole sync: every chunk it had to embed, every row
\* it had to delete, on top of what the other processes have committed by then
\* and nothing of what they have not (vectors.py:151-174).
SyncsAreWhole ==
    [][\E p \in Procs : pc[p] = "delete" /\ rows' = Apply(rows, job[p].snap, job[p].found)]_rows
===============================================================================
