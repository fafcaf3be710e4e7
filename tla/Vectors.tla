------------------------------- MODULE Vectors -------------------------------
(***************************************************************************)
(* The vector store of ctx_semantic/vectors.py: sync() brings the stored   *)
(* embeddings of one content DB up to date, search() ranks a query against *)
(* them through a matrix cached per process.  One key (store file,         *)
(* db_path, model) is modelled; keys share nothing but short mutexes.      *)
(* Several processes (server, warmup, harness) share the store file and    *)
(* the upstream DB; each has its own sync lock, version and cache.         *)
(*                                                                         *)
(* The store is kept as the history of its committed contents, so that     *)
(* "which commit is this matrix from" can be said.  A sync's writes and    *)
(* their commit are one step here; module SyncWrites shows that they may.  *)
(***************************************************************************)
EXTENDS StoreRows, Naturals, FiniteSets, Sequences

CONSTANTS
    Procs,          \* processes that use the store
    Threads,        \* threads that call sync() and search()
    ProcOf,         \* the process of each thread
    NoThread,       \* the sync lock is free
    User,           \* author of store contents that no sync wrote
    TopK,           \* k, the number of hits asked for
    MaxCommits,     \* bound: length of the store's history
    MaxRevisions,   \* bound: upstream commits
    MaxDeletes      \* bound: deletions of the store file

ASSUME VectorsAssumption ==
    /\ NoText \notin Texts
    /\ LegacyHash \notin Texts
    /\ NoRow \notin [hash : Texts \cup {LegacyHash}, vec : Texts]
    /\ ProcOf \in [Threads -> Procs]
    /\ NoThread \notin Threads
    /\ User \notin Procs
    /\ TopK \in Nat
    /\ MaxCommits \in Nat
    /\ MaxRevisions \in Nat
    /\ MaxDeletes \in Nat

VARIABLES
    source,         \* upstream chunks table: rowid -> text
    revision,       \* number of upstream commits so far
    history,        \* committed contents of the store, oldest first
    syncLock,       \* per process: the thread in sync(), or NoThread
    matrixVersion,  \* per process: _matrix_versions[key]
    matrixCache,    \* per process: label and origin of _matrix_cache[key]
    fence,          \* per process: oldest contents a search may still answer from
    pc,             \* per thread: the next step of its call
    job             \* per thread: the local variables of its call

vars == <<source, revision, history, syncLock, matrixVersion, matrixCache,
          fence, pc, job>>

process == <<syncLock, matrixVersion, matrixCache, fence>>

-----------------------------------------------------------------------------
(* Data *)

Commit  == [rows : Rows, by : Procs \cup {User}, rev : Nat]

\* What a sync of the snapshot should leave in the store.
Fresh(chunks) ==
    [r \in Rowids |-> IF chunks[r] = NoText THEN NoRow ELSE RowOf(chunks[r])]

Latest == Len(history)
Store  == history[Latest].rows

\* The hits some query can get: the k best of the rows that are kept.
TopHits(rows, kept) ==
    LET size == IF Cardinality(kept) < TopK THEN Cardinality(kept) ELSE TopK
    IN  {{<<r, rows[r].vec>> : r \in best} :
            best \in {s \in SUBSET kept : Cardinality(s) = size}}

-----------------------------------------------------------------------------
(* Calls *)

NoJob == [snap |-> [r \in Rowids |-> NoText], rev |-> 0, at |-> 0, mine |-> 0,
          label |-> 0, floor |-> 0, hits |-> {}]

NoEntry == [label |-> 0, at |-> 0]

SyncSteps   == {"snapshot", "read", "commit", "bump", "return"}
SearchSteps == {"load", "put", "mask", "answer"}

Goto(t, from, to) == pc[t] = from /\ pc' = [pc EXCEPT ![t] = to]

Init ==
    /\ source \in Sources
    /\ revision = 0
    /\ \E rows \in LegacyRows : history = <<[rows |-> rows, by |-> User, rev |-> 0]>>
    /\ syncLock = [p \in Procs |-> NoThread]
    /\ matrixVersion = [p \in Procs |-> 0]
    /\ matrixCache = [p \in Procs |-> NoEntry]
    /\ fence = [p \in Procs |-> 1]
    /\ pc = [t \in Threads |-> "idle"]
    /\ job = [t \in Threads |-> NoJob]

-----------------------------------------------------------------------------
(* The upstream writer, outside this program *)

UpstreamCommit ==
    /\ revision < MaxRevisions
    /\ source' \in Sources \ {source}
    /\ revision' = revision + 1
    /\ UNCHANGED <<history, process, pc, job>>

-----------------------------------------------------------------------------
(* sync() *)

\* Bug: the lock is taken without waiting for it.
SyncBarge(t) ==
    /\ Goto(t, "idle", "snapshot")
    /\ syncLock' = [syncLock EXCEPT ![ProcOf[t]] = t]
    /\ UNCHANGED <<source, revision, history, matrixVersion, matrixCache, fence, job>>

SyncLock(t) ==
    /\ syncLock[ProcOf[t]] = NoThread
    /\ Goto(t, "idle", "snapshot")
    /\ syncLock' = [syncLock EXCEPT ![ProcOf[t]] = t]
    /\ UNCHANGED <<source, revision, history, matrixVersion, matrixCache, fence, job>>

SyncSnapshot(t) ==
    /\ Goto(t, "snapshot", "read")
    /\ job' = [job EXCEPT ![t].snap = source, ![t].rev = revision]
    /\ UNCHANGED <<source, revision, history, process>>

\* Bug: the lock only covers the snapshot and the SELECT.
SyncReadUnlocks(t) ==
    /\ Goto(t, "read", "commit")
    /\ job' = [job EXCEPT ![t].at = Latest]
    /\ syncLock' = [syncLock EXCEPT ![ProcOf[t]] = NoThread]
    /\ UNCHANGED <<source, revision, history, matrixVersion, matrixCache, fence>>

SyncRead(t) ==
    /\ Goto(t, "read", "commit")
    /\ job' = [job EXCEPT ![t].at = Latest]
    /\ UNCHANGED <<source, revision, history, process>>

\* Embedding, the writes and the commit: the write lock is only taken by the
\* first INSERT or DELETE, nothing is visible before the commit, and a sync
\* whose vectors do not pair with its chunks does not come to it (SyncWrites).
SyncCommit(t) ==
    LET j == job[t]
        next == [rows |-> Apply(Store, j.snap, history[j.at].rows),
                 by |-> ProcOf[t], rev |-> j.rev]
    IN  /\ Latest < MaxCommits
        /\ Goto(t, "commit", "bump")
        /\ history' = Append(history, next)
        /\ job' = [job EXCEPT ![t].mine = Latest + 1]
        /\ UNCHANGED <<source, revision, process>>

\* Bug: the commit is acknowledged without bumping the version.
SyncForgetsBump(t) ==
    /\ Goto(t, "bump", "return")
    /\ fence' = [fence EXCEPT ![ProcOf[t]] = job[t].mine]
    /\ UNCHANGED <<source, revision, history, syncLock, matrixVersion, matrixCache, job>>

\* The version bump; the fence records that this commit is now acknowledged.
SyncBump(t) ==
    LET p == ProcOf[t] IN
    /\ Goto(t, "bump", "return")
    /\ matrixVersion' = [matrixVersion EXCEPT ![p] = @ + 1]
    /\ fence' = [fence EXCEPT ![p] = job[t].mine]
    /\ UNCHANGED <<source, revision, history, syncLock, matrixCache, job>>

\* Bug: the version is bumped on every way out, too.
LeaveBumps(t) ==
    /\ pc' = [pc EXCEPT ![t] = "idle"]
    /\ job' = [job EXCEPT ![t] = NoJob]
    /\ syncLock' = [syncLock EXCEPT ![ProcOf[t]] = NoThread]
    /\ matrixVersion' = [matrixVersion EXCEPT ![ProcOf[t]] = @ + 1]
    /\ UNCHANGED <<source, revision, history, matrixCache, fence>>

Leave(t) ==
    /\ pc' = [pc EXCEPT ![t] = "idle"]
    /\ job' = [job EXCEPT ![t] = NoJob]
    /\ syncLock' = [syncLock EXCEPT ![ProcOf[t]] = NoThread]
    /\ UNCHANGED <<source, revision, history, matrixVersion, matrixCache, fence>>

SyncReturn(t) == pc[t] = "return" /\ Leave(t)

\* The source is busy, the store cannot be opened or written, the embedder
\* raises or returns too few vectors, or the final count fails.
SyncFail(t) == pc[t] \in {"snapshot", "read", "commit", "return"} /\ Leave(t)

-----------------------------------------------------------------------------
(* search() *)

Current(p) == matrixCache[p].at > 0 /\ matrixCache[p].label = matrixVersion[p]

SearchHit(t) ==
    LET p == ProcOf[t] IN
    /\ Current(p)
    /\ Goto(t, "idle", "mask")
    /\ job' = [job EXCEPT ![t] = [NoJob EXCEPT !.at = matrixCache[p].at,
                          !.label = matrixVersion[p], !.floor = fence[p]]]
    /\ UNCHANGED <<source, revision, history, process>>

SearchMiss(t) ==
    LET p == ProcOf[t] IN
    /\ ~Current(p)
    /\ Goto(t, "idle", "load")
    /\ job' = [job EXCEPT ![t] = [NoJob EXCEPT !.label = matrixVersion[p],
                                              !.floor = fence[p]]]
    /\ UNCHANGED <<source, revision, history, process>>

\* The SELECT; no rows is answered at once and never cached.
SearchLoad(t) ==
    /\ Goto(t, "load", IF Indexed(Store) = {} THEN "answer" ELSE "put")
    /\ job' = [job EXCEPT ![t].at = Latest]
    /\ UNCHANGED <<source, revision, history, process>>

\* Bug: the label is the version at the time of the put, not of the SELECT.
SearchPutLate(t) ==
    /\ Goto(t, "put", "mask")
    /\ matrixCache' = [matrixCache EXCEPT ![ProcOf[t]] =
                          [label |-> matrixVersion[ProcOf[t]], at |-> job[t].at]]
    /\ UNCHANGED <<source, revision, history, syncLock, matrixVersion, fence, job>>

SearchPut(t) ==
    /\ Goto(t, "put", "mask")
    /\ matrixCache' = [matrixCache EXCEPT ![ProcOf[t]] =
                          [label |-> job[t].label, at |-> job[t].at]]
    /\ UNCHANGED <<source, revision, history, syncLock, matrixVersion, fence, job>>

\* Bug: the top k is cut before the rows that went away are dropped.
SearchCutsFirst(t) ==
    LET matrix == history[job[t].at].rows IN
    /\ Goto(t, "mask", "answer")
    /\ \E hits \in TopHits(matrix, Indexed(matrix)) :
           job' = [job EXCEPT ![t].hits = {h \in hits : h[1] \in Live(source)}]
    /\ UNCHANGED <<source, revision, history, process>>

\* The live rows are read here, after the matrix, and cut before the top k: the
\* adapter is a BoundAdapter.  The server's call hands in rows it read before
\* (hybrid.py:147, 155; module HybridSearch).
SearchMask(t) ==
    LET matrix == history[job[t].at].rows IN
    /\ Goto(t, "mask", "answer")
    /\ \E hits \in TopHits(matrix, Indexed(matrix) \cap Live(source)) :
           job' = [job EXCEPT ![t].hits = hits]
    /\ UNCHANGED <<source, revision, history, process>>

SearchReturn(t) ==
    /\ Goto(t, "answer", "idle")
    /\ job' = [job EXCEPT ![t] = NoJob]
    /\ UNCHANGED <<source, revision, history, process>>

-----------------------------------------------------------------------------
(* The environment *)

\* A process dies and is started again: an uncommitted transaction is rolled
\* back, and memory starts from nothing.
Crash(p) ==
    /\ syncLock' = [syncLock EXCEPT ![p] = NoThread]
    /\ matrixVersion' = [matrixVersion EXCEPT ![p] = 0]
    /\ matrixCache' = [matrixCache EXCEPT ![p] = NoEntry]
    /\ fence' = [fence EXCEPT ![p] = Latest]
    /\ pc' = [t \in Threads |-> IF ProcOf[t] = p THEN "idle" ELSE pc[t]]
    /\ job' = [t \in Threads |-> IF ProcOf[t] = p THEN NoJob ELSE job[t]]
    /\ UNCHANGED <<source, revision, history>>

Deletions == Cardinality({i \in 2..Latest : history[i].by = User})

\* The documented recovery: the store file is deleted while no call runs.
DeleteStore ==
    /\ Latest < MaxCommits
    /\ Deletions < MaxDeletes
    /\ \A t \in Threads : pc[t] = "idle"
    /\ history' = Append(history, [rows |-> Empty, by |-> User, rev |-> 0])
    /\ UNCHANGED <<source, revision, process, pc, job>>

SyncNext(t) ==
    \/ SyncLock(t) \/ SyncSnapshot(t) \/ SyncRead(t) \/ SyncCommit(t)
    \/ SyncBump(t) \/ SyncReturn(t) \/ SyncFail(t)

SearchNext(t) ==
    \/ SearchHit(t) \/ SearchMiss(t) \/ SearchLoad(t) \/ SearchPut(t)
    \/ SearchMask(t) \/ SearchReturn(t)

Next ==
    \/ UpstreamCommit
    \/ \E t \in Threads : SyncNext(t) \/ SearchNext(t)
    \/ \E p \in Procs : Crash(p)
    \/ DeleteStore

Spec == Init /\ [][Next]_vars

-----------------------------------------------------------------------------
(* Properties *)

JobType == [snap : Sources, rev : Nat, at : Nat, mine : Nat, label : Nat,
            floor : Nat, hits : SUBSET (Rowids \X Texts)]

\* The variables keep their types, and no version or label exceeds the number
\* of commits.
TypeOK ==
    /\ source \in Sources
    /\ revision \in 0 .. MaxRevisions
    /\ history \in Seq(Commit)
    /\ Latest \in Nat \ {0}
    /\ syncLock \in [Procs -> Threads \cup {NoThread}]
    /\ matrixVersion \in [Procs -> 0 .. Latest]
    /\ matrixCache \in [Procs -> [label : 0 .. Latest, at : 0 .. Latest]]
    /\ fence \in [Procs -> 1 .. Latest]
    /\ pc \in [Threads -> {"idle"} \cup SyncSteps \cup SearchSteps]
    /\ job \in [Threads -> JobType]

\* An entry that would be served was loaded at or after the latest sync its
\* process acknowledged: a sync that commits while a load is under way causes
\* a reload, never a stale hit (vectors.py:200-204).
CacheServesOwnSyncs ==
    \A p \in Procs : Current(p) => matrixCache[p].at >= fence[p]

\* No commit of another author between the contents number i and number j.
Undisturbed(t, i, j) == \A k \in i + 1 .. j - 1 : history[k].by = ProcOf[t]

ExactFor(t) ==
    /\ pc[t] \in {"bump", "return"}
    /\ Undisturbed(t, job[t].at, job[t].mine)
    => history[job[t].mine].rows = Fresh(job[t].snap)

\* A sync that no other process disturbed between its SELECT and its commit
\* leaves exactly the rows of its snapshot: every changed, missing or legacy
\* row is embedded again, every row that went away is gone (vectors.py:141-174).
SyncExact == \A t \in Threads : ExactFor(t)

\* A sync about to write embeds only chunks the store still lacks, unless
\* another process committed since its SELECT: the waiting caller of the same
\* process finds nothing left to embed (vectors.py:119-121).
ChunksEmbeddedOnce ==
    \A t \in Threads :
        /\ pc[t] = "commit"
        /\ Undisturbed(t, job[t].at, Latest + 1)
        => Todo(job[t].snap, history[job[t].at].rows) \subseteq Todo(job[t].snap, Store)

\* The commits of one process come from ever newer snapshots: the snapshot is
\* taken under the lock, so a slow sync cannot put old texts back
\* (vectors.py:128-129).
CommitsFollowSnapshots ==
    \A i, j \in 1 .. Latest :
        /\ i < j
        /\ history[i].by = history[j].by
        /\ history[i].by \in Procs
        => history[i].rev <= history[j].rev

-----------------------------------------------------------------------------
(* The inductive invariant behind them *)

\* The sync lock of a process is held by its one thread that is in sync().
LockInv == \A t \in Threads : pc[t] \in SyncSteps <=> syncLock[ProcOf[t]] = t

\* Every contents the store had pairs hashes with their vectors.  The step of
\* SyncCommit has it so; that the writes behind it do is shown in SyncWrites.
HistoryConsistent == \A i \in 1 .. Latest : Consistent(history[i].rows)

\* Contents are consistent, and their snapshots were of revisions that exist.
HistoryInv ==
    /\ HistoryConsistent
    /\ CommitsFollowSnapshots
    /\ \A i \in 1 .. Latest : history[i].rev <= revision

\* Versions trail the fence; a cache entry is never labelled ahead of them.
CacheInv ==
    /\ CacheServesOwnSyncs
    /\ \A p \in Procs : /\ matrixVersion[p] <= fence[p]
                        /\ matrixCache[p].label <= matrixVersion[p]

\* While a load's label is current, no sync moved the fence it started from.
Searching(t) ==
    LET p == ProcOf[t]
    IN  /\ pc[t] \in {"load", "put"} =>
               /\ job[t].label <= matrixVersion[p]
               /\ job[t].label = matrixVersion[p] => job[t].floor = fence[p]
        /\ pc[t] = "load" => job[t].hits = {}
        /\ pc[t] \in {"load", "put", "mask"} => job[t].floor \in 1 .. Latest
        /\ pc[t] \in {"put", "mask"} => job[t].at \in job[t].floor .. Latest

SearchInv == \A t \in Threads : Searching(t)

\* Since its SELECT nobody else of its process committed, and its snapshot is
\* no older than any commit of its process.
Syncing(t) ==
    /\ ExactFor(t)
    /\ pc[t] \in {"read", "commit"} =>
           /\ job[t].rev <= revision
           /\ \A i \in 1 .. Latest :
                  history[i].by = ProcOf[t] => history[i].rev <= job[t].rev
    /\ pc[t] = "commit" =>
           /\ job[t].at \in 1 .. Latest
           /\ \A i \in job[t].at + 1 .. Latest : history[i].by # ProcOf[t]
    /\ pc[t] \in {"bump", "return"} =>
           job[t].at \in 1 .. Latest /\ job[t].mine \in job[t].at + 1 .. Latest
    /\ pc[t] = "bump" => fence[ProcOf[t]] < job[t].mine

SyncInv == \A t \in Threads : Syncing(t)

IInv == TypeOK /\ LockInv /\ HistoryInv /\ CacheInv /\ SearchInv /\ SyncInv

-----------------------------------------------------------------------------
(* A claim of the code, and the refinement *)

\* What the comment at vectors.py:50-51 says of the cache: an entry that is
\* served, with no commit of its own process waiting for its bump, is what
\* the store holds.
StaleEntryNeverServes ==
    \A p \in Procs :
        /\ Current(p)
        /\ \A t \in Threads : ProcOf[t] = p => pc[t] # "bump"
        => history[matrixCache[p].at].rows = Store

\* The refinement: what an observer of the calls sees of this module.
Contents == [i \in 1 .. Latest |-> history[i].rows]
Asked    == [t \in Threads |-> IF pc[t] \in SearchSteps THEN job[t].floor ELSE 0]
Reply    == [t \in Threads |-> IF pc[t] = "answer" THEN {job[t].hits} ELSE {}]

Index == INSTANCE VectorIndex
            WITH contents <- Contents, asked <- Asked, reply <- Reply

\* The locks, versions and caches implement the promise of VectorIndex: every
\* answer is a full top k of live rows, from contents no older than the syncs
\* its process had acknowledged when the call began (vectors.py:236-244).
ImplementsIndex == Index!Spec
=============================================================================
