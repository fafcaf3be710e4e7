# A TLA+ model of ctx-semantic

ctx-semantic is a sidecar that adds vector search to the content databases of
context-mode.  It reads those databases (the *upstream*, written by another
program), keeps one embedding per chunk in a SQLite file of its own (the
*store*), and answers queries with a fusion of full-text and vector hits.  A
server process answers tool calls in worker threads; a warmup and a recall
harness use the same store from processes of their own.

This directory holds TLA+ modules for the parts of it that are hard to test,
TLC configurations that check them on small instances, and proofs, checked by
TLAPS, that some of the properties hold for every instance.

    tlc -workers 2 -config VectorsThreads.cfg MCVectors.tla
    tlapm VectorsProofs.tla        # also VectorsRefinement and the other *Proofs

## 1. Inventory

| component | state it keeps | operations | works with |
|---|---|---|---|
| vector store, `vectors.py` | rows in the store file; per process: sync locks, matrix versions, matrix cache | `sync`, `search`, `_load_matrix`, `connect` | reads upstream through an adapter; calls the embedder while it holds the sync lock and an open connection |
| server, `server.py` | one embedder, claims `_synced_at`, intervals `_sync_interval`, a state lock | `ctx_hybrid_search`, `_claim_sync`, `_get_embedder`, `preflight` | opens upstream, lets one caller sync, then searches |
| embedder, `embedder.py` | the loaded model, the reported device | `embed_batch`, `embed_query`, `_ensure_loaded`, `_rebuild_on_cpu` | shared by all worker threads, no lock of its own |
| hybrid search, `hybrid.py` | none | `rrf`, `_excerpt`, `search` | several reads of upstream, each at its own moment, and `vectors.search` |
| upstream adapter, `dbadapter.py`, `binding.py` | a read-only connection | `open_db`, `_with_retry`, `snapshot_chunks`, `bm25_search`, `get_many`, `filtered_rowids`, `live_rowids` | retries a busy database, refuses a changed schema |
| project resolution, `projhash.py` | environment variables | `resolve`, `resolve_db`, `stale_status` | gives every process the path that is also the store key |
| warmup and prune, `warmup.py` | none | `warm_one`, `prune`, `main` | a second process that syncs, or deletes rows |
| drift probe, `probe.py` | none | `main` | exit statuses 0, 1, 2 for scripts |
| recall harness, `harness.py` | none | `evaluate`, `main` | syncs and searches like the server |
| end-to-end client, `e2e.py` | none | `main` | drives a real server |
| installation, `scripts/uv-sync.sh`, `run.sh` | the virtual environment, a marker file | install, repair, start | decides which wheel the embedder finds |

What is hard in it:

* *Threads of one process.*  Worker threads share the sync lock, the version
  and the cache of a key, the claims, and the embedder.  A search may have read
  its rows before a sync commits and put them into the cache after it.
* *Processes.*  The store file is shared, every lock and version is not.  Syncs
  of two processes interleave; a commit of one tells the other nothing.
* *The upstream writer.*  It commits at any moment.  Chunks change, vanish, and
  rowids are used again.
* *Failure.*  A sync may fail at any step or die with its process; a failed
  sync must give up its claim, an unfinished one must leave no trace.
* *Time.*  A claim expires by the clock whether or not its sync has ended.
* *Two attributes for one fact.*  The embedder writes its model and its device
  one after the other and reads them without a lock.

What makes each component correct: a stored hash is the hash of the text that
was embedded; an undisturbed sync leaves exactly the rows of its snapshot; a
search answers with a full top k of live rows from contents no older than the
syncs its process acknowledged; a claim that looks fresh stands for a sync that
happened; the store never goes back and in the end catches up; the reported
device is the device in use; a GPU failure ends on the CPU and not in an error;
a verdict about a database was true of it at some moment of the call; a retry
is bounded and starts clean; a prune takes only what is gone, and a warmup that
reports success has left nothing to embed.
`PROJECT.json` lists the hazards line by line.

## 2. Modules

| module | what it is |
|---|---|
| `StoreRows` | the rows of one key and what a whole sync makes of them, used by the next two |
| `Vectors` | `sync` and `search` of one key, by threads of several processes |
| `SyncWrites` | the writes of a sync one by one, by several processes |
| `VectorIndex` | what the callers of `search` are promised, without locks or caches |
| `VectorsProofs` | the inductive invariant of `Vectors` and the theorems from it |
| `VectorsRefinement` | the proof that `Vectors` implements `VectorIndex` |
| `SyncWritesProofs` | the inductive invariant of `SyncWrites` and the theorems from it |
| `Server` | which calls sync: claims, intervals, failures, restarts, time |
| `ServerProofs` | the inductive invariant of `Server` and the theorems from it |
| `Embedder` | loading, falling back and retrying on a shared object |
| `EmbedderProofs` | the inductive invariant of `Embedder` and the theorems from it |
| `HybridSearch` | one `hybrid.search` against a writing upstream: filter, legs, fusion, owners, fetch, excerpts |
| `HybridSearchProofs` | excerpts, sorting, fusion and ownership as lemmas, the inductive invariant of `HybridSearch` and the theorems from it |
| `Excerpt` | where an excerpt is cut |
| `ContentDB` | how every caller resolves, opens, checks and reads a content DB, and how it ends |
| `Recall` | the gate arithmetic of the recall harness, used by `ContentDB` |
| `Warmup` | the store under servers, a warmup and a prune, over databases that come and go |
| `WarmupProofs` | the inductive invariant of `Warmup` and the theorems from it |
| `ContentDBProofs` | the same for `ContentDB` |
| `MCVectors`, `MCSyncWrites`, `MCServer`, `MCEmbedder`, `MCHybridSearch`, `MCContentDB`, `MCWarmup` | constants, definitions and symmetries for TLC |

The sync of `Server` has the steps of the sync of `Vectors` that matter to a
claim (lock, snapshot, commit, return), with a revision number in place of the
rows; `Vectors` is what justifies taking a whole commit as the revision of its
snapshot.  `SyncWrites` in turn is what justifies `Vectors` in
taking the writes of a sync and its commit for one step.  The embedder is a
choice that may fail in all of them.  `Warmup` has the
same sync once more, for several keys and processes and with SQLite's write
lock, and one chunk per database, or none.  `ContentDB` ends where the others begin:
its `Sync` is the rest of a sync after the snapshot, its `Opened` is the choice
`Server` makes by its claims.

### Vectors

One key, that is one (store file, database path, model); different keys share
nothing but short mutexes.

| TLA+ | code |
|---|---|
| `source`, `revision` | the upstream `chunks` table and a count of its commits |
| `history` | the committed contents of the store, oldest first; the last is what a SELECT sees |
| `syncLock` | `_sync_locks[(store, db_path)]`, one per process |
| `matrixVersion`, `matrixCache` | `_matrix_versions[key]`, `_matrix_cache[key]`; a cached matrix is known by the contents it was read from |
| `fence` | history variable: the latest commit this process has acknowledged, or its contents at start |
| `pc`, `job` | the step and the local variables of the call of each thread |

A text stands for its hash and for its embedding: the hash is taken to be
injective and the embedder to be deterministic.  `SyncLock`, `SyncSnapshot`,
`SyncRead`, `SyncCommit`, `SyncBump` and `SyncReturn` are the atomic steps of
`sync` (vectors.py:128-183); the writes are one step with the commit, and
they apply to the rows found *then*, with the hashes read *earlier*.  That this
is what the separate writes come to, and that a row never pairs the hash of one
text with the vector of another, is no result of this module, where `Apply`
has it so, but of `SyncWrites`.
`SyncFail` leaves from every step at which something can raise.  A search hits
or misses the cache under the matrix lock (206-211), loads (212-221), puts
(222-225), masks with the live rowids and cuts (259-266).  The live rowids are
those of that moment when the caller passes an adapter, as the recall harness
does; the server's were pinned before the matrix (hybrid.py:147, 155), which
`HybridSearch` models.  An error there (a wrong dimension, a failing adapter)
ends the call and changes nothing.  The
order of the scores is the query's choice: any k of the kept rows may be the
best.  `Crash` restarts a process; `DeleteStore` is the documented recovery
from a corrupted file.

### SyncWrites

| TLA+ | code |
|---|---|
| `rows` | the committed rows of the key |
| `writer`, `pending` | the process with a write transaction on the store, and the rows as it has them |
| `pc` | its next step: the embedder, the INSERTs, the DELETEs |
| `job` | the locals of `sync`: `chunks`, `stored`, `todo`, the vectors, how many are inserted (`embedded`), and which rows of `stale` are still to be deleted |

Within a process syncs of a key take turns (`_sync_lock`), so a process stands
for its one sync.  `todo` has the order of the snapshot, which is any order.
The embedder is any callable (vectors.py:73): `Batches` is the vectors of the
texts in their order, or a list that is shorter or by one longer, of any
vectors.  `zip(..., strict=True)` pairs by position, `Insert` inserts the pairs
until one list ends; then both have ended (`Inserted`) or it raises
(`Mismatch`).  The first INSERT or DELETE takes SQLite's write lock, which a
process keeps to its commit or rollback; all of the others wait or give up
(`Fail`).  `Fail` is any other exception as well, and the death of the process,
at every step.  Nothing bounds the number of syncs.

### VectorIndex

The abstract specification.  The store goes through contents; a process has a
fence; a question remembers the fence of its process, and is answered by a full
top k of the rows live now, in any contents from that fence on.  A row of new
contents is an old one or pairs a text's hash with that text's vector.
`Vectors` implements it with `contents <- the rows of history`, `asked <- the
fence a search in progress started from`, `reply <- its hits`.

### Server

| TLA+ | code |
|---|---|
| `claim`, `interval` | `_synced_at[key]`, `_sync_interval[key]` |
| `stored`, `lastSync` | the revision in the store and the age of the snapshot it came from |
| `syncLock` | the lock inside `vectors.sync` |
| `since` | how long ago a thread read the clock in `_claim_sync` |
| `wide` | whether its sync embedded every stored chunk |
| `slow` | history variable: some sync took longer than the shorter interval |

Time is kept as ages, so that the state space is finite: `AgeCap` lies beyond
every comparison the code makes.  The clock is read outside the state lock, so
a thread may compare and write a time up to `MaxDelay` ticks old; a claim
another thread writes meanwhile has a negative age for it and counts as fresh.  A failing sync removes whatever claim the key has by then
(server.py:129-132), as the code does.

### Embedder

| TLA+ | code |
|---|---|
| `cudaLibs` | what `_preload_cuda_libs` returns in this process |
| `model` | the device of the object in `self._model` |
| `device` | `self._device` |
| `races` | history variable: which kinds of overlap have happened |

Each read or write of an attribute that another thread may write is a step.
Whether a load or a batch fails is the environment's choice, on either device.
The final shape assertion of `_ensure_loaded` is a fact about the pinned model
file and taken to hold; a call with no texts returns at once and is no action.

### HybridSearch

| TLA+ | code |
|---|---|
| `source` | upstream: what each rowid holds; a rowid may be used again |
| `store` | the rowids that have a vector; `Sync` is a sync of any other call |
| `filter`, `limit` | the arguments of the call; one label stands for both filters |
| `view` | the rowids `_Narrowed` pins (hybrid.py:147) |
| `legs` | per query, the lists of `bm25_search` and `vectors.search` |
| `sections` | what has been rendered |
| `rewritten` | history variable: rowids upstream wrote since the call began |

Each read of upstream is a step: the filter once, the BM25 leg once per query,
the fetch once per section.  Rankings are the query's choice.  `Score` adds
exact fractions where `rrf` adds floats; the ranks a call can see (at most 10
and 40) are small enough for two different fractions never to be taken for
equal ones.  A sort of the code is `Sorted`, the sequence of a finite set whose
places follow a relation: `Rrf` sorts the hits by `Before` (hybrid.py:96), and
`InOrder` keeps some rows in the order of a ranking, as the comprehensions of
hybrid.py:166-170 do.  `Owner` and `Owned` are hybrid.py:158-166; they and `Top`
take the lists and the limit as parameters, so that a fact about them holds in
the next state as it does in this one.  Of a chunk's content
`TextOf` keeps the length and, for each term of each query, where it is, how
long it is and by how much `lower()` moves it; `Window` (module `Excerpt`)
computes the slice `_excerpt` returns.

### ContentDB

| TLA+ | code |
|---|---|
| `db` | the file at the path: the tables that differ from `EXPECTED_COLUMNS`, whether it was written lately, whether the gold chunks are where the harness knows them |
| `call` | the caller and the locals of `open_db`, `_with_retry`, `snapshot_chunks` and `stale_status` |
| `con`, `txn` | the connection (a file that is unlinked stays readable through it) and its transaction |
| `outcome`, `ranks` | the answer, error or exit status, with its cause, and the rows of the report |
| `seen`, `waits` | history variables: what the file has been since the call began, and its failed attempts |

One call at a time: callers only read, and share nothing.  The five callers
differ in their steps: a query and preflight look at the file and its age
first, the harness opens at once, the warmup looks but does not ask for the
age; only preflight and the probe catch `SchemaDrift` and `FileNotFoundError`.
`ReadTable` is one `PRAGMA table_info`.  `TryAgain` is `_with_retry` and the
loop of `open_db`; whether a statement fails, and whether it is of the kind
that is retried, is the environment's choice at every step.  `Count` is the one
statement without a retry.  Upstream writes, upgrades, purges and creates the
file at any moment.  An upgrade adds to the tables that differ and never takes
one back while the file lives: a `VerdictWasTrue` for a file that changed to
and fro between two PRAGMAs would not hold.  Reads that only differ in their
rows (both legs, the blocks) are one step here; `HybridSearch` has them.

### Warmup

| TLA+ | code |
|---|---|
| `file` | the databases: a revision number for the one chunk a database holds, `NoChunk` when it holds none, or `Absent` |
| `rows`, `retired` | the store: the revision behind the rows of each key (`db_path`), and the keys with rows under another model |
| `writer` | who holds SQLite's write lock on the store, from its first INSERT or DELETE to its commit |
| `pc`, `job` | per process, the step and the locals of `vectors.sync` |
| `tool` | the locals of `main` and `prune` |
| `listed`, `touched`, `inflight`, `failed` | history variables: what the run was to warm, what upstream changed since it began, which keys servers were syncing then, which keys failed to be warmed |

Two keys may lead to one database: `CTX_SEMANTIC_DB` is taken as it is and may
be relative, `--db` is made absolute.  `away` says that a prune runs in another
directory, from which a relative key leads nowhere.  Waiting for the write lock
for longer than the busy timeout is `SyncLocked` and `PruneLocked`: the sync
fails and is counted, the prune ends in an uncaught error.  All vectors of a
sync are there before its first INSERT (vectors.py:151-155, with the embedder
of the package), so the lock is held for the writes and not for the embedding.
`Die` kills a server or the tool at any step.

A sync of a database that was emptied deletes its rows (vectors.py:146,
170-173): rows go away through a sync as well as through a prune, and
`LiveRowsKept` speaks of the commit of a prune only.  `WarmedIsServed` speaks
of the keys a warmup was given.  A server that uses a relative path has another
key, and nothing is said about its first query.

## 3. Runs

| run | instance | checks |
|---|---|---|
| `VectorsThreads` | 1 process, 2 threads, 2 rowids, 2 texts, k = 1, 2 more store contents, 1 upstream commit, 1 deletion | the safety properties of `Vectors` one by one, the inductive invariant `IInv` and the refinement |
| `VectorsStale` | server and warmup, a thread each, 1 rowid, 2 more contents | **violated**: the comment at vectors.py:50-51 |
| `SyncWrites` | 2 processes, 2 rowids, 2 texts, any number of syncs | pairing, whole commits, the write lock |
| `ServerClaims` | 3 threads, intervals of 1 and 2 ticks, syncs of up to 3, 2 faults, 1 upstream commit | claims, dedup, no going back, catching up |
| `ServerQueues` | 2 threads, a sync of 2 ticks, no faults | **violated**: the docstring at server.py:62-64 |
| `EmbedderCalls` | 3 threads, 2 batches, with and without CUDA libraries | devices, fallback, every call ends |
| `EmbedderDevice` | 2 threads, CUDA | **violated**: the docstring at embedder.py:165 |
| `EmbedderRaises` | 2 threads, CUDA | **violated**: the docstring at embedder.py:242-244 |
| `HybridSections` | 2 queries, 1 or 2 chunks per section, 2 rowids, 2 labels, 2 upstream commits, texts of 20 characters and a window of 8 | one place per chunk, filters, fusion, excerpts |
| `HybridFilter` | the same, 1 upstream commit | **violated**: the documentation at server.py:96 |
| `ContentDBCalls` | 5 callers, 2 tables, 3 attempts, 3 upstream changes, 5 cases with a window of 2 | truth of every verdict, retries, transactions, gates, every call ends |
| `WarmupRuns` | a server and the tool, 2 databases, 3 keys, 1 upstream change, 1 run, 1 failure or death | what a warmup and its status promise, what a prune takes and leaves, catching up, every run ends |

Why the bounds are enough.  Two rowids with k = 1 tell a full top k from a
short one and an undisturbed row from a written one.  Two syncs and a load
around them are what every cache hazard needs: a load before, a commit between,
a put after.  That this holds of several processes too is left to the proofs;
what their writes do to each other is the matter of the run `SyncWrites`.
One upstream commit gives an older and a newer snapshot.  In `Server` three
ticks of sync against an interval of one let two claims overlap, and the
longer interval (2) falls between; two faults let one failure remove another
caller's claim and something else fail after it.  In `Embedder` two batches
make the retry restart at the first, and the third thread can arrive at a
device that two others have already disagreed on.  In `HybridSearch` a limit of
one cuts a list of two rows and a limit of two keeps their order; two rows can
tie, two queries can compete for a row, and two commits can remove a chunk and
use its rowid again; one text has its term so near the end that the window
slides back, in the other `lower()` moves the term out of the window.  In
`ContentDB` three changes are a purge, a creation and an upgrade, in any
places; two tables can be read from two layouts; three attempts are those of
the code.  Five cases is the least number for which a loss of one in five is
within the gate and two are not.  In `Warmup` one change writes, empties,
purges or creates a database under either program, and three keys give one
database two; the proofs cover longer histories.  In `SyncWrites` two rowids are
a list whose batch may be short, and a write before and after every failure; a
row can be inserted while another is deleted, and two processes can have plans
for the same rows that differ.  Its one bound is that a batch has at most one
vector too many.  The counters
`MaxChanges`, `MaxRuns`, `MaxAttempts` (of the code), `MaxCommits`, `MaxRevisions`, `MaxDeletes`, `MaxFaults`, `MaxBatches`,
`MaxSyncTicks`, `MaxDelay` and `AgeCap` are the only other bounds; all are guards on
environment or counting steps.

Deadlock is checked in every run but `WarmupRuns`: when its one run is over and
both databases are gone for good, nothing is left to do.  Symmetry is used in
safety runs only.

Fairness.  `CatchesUp` assumes that a worker thread that can step does step,
that calls keep coming, and that time passes; the operating system and the
users of the server provide that, and nothing in the code waits for anything
but a lock that is held for a bounded number of ticks.  No fairness is assumed
of failures, restarts or upstream, so the property holds whatever they do
within their bounds.  `CallsEnd` of `Embedder` assumes that a thread inside a
call runs on: no step of the embedder waits.  `CallsEnd` of `ContentDB` assumes
the same of a caller, which waits for nothing but the timeouts counted as
failed attempts, and nothing of upstream.  `RunsEnd` and `RowsCatchUp` assume
that the tool and a server inside a sync run on (SQLite's wait for the lock is
bounded), and `RowsCatchUp` that every database that is there is asked about
again and again, strongly, because a server may be busy with another one each
time.

### What the runs found

1. vectors.py:50-51: "sync() bumps the key's version after every commit, so a
   stale entry never serves".  The version is kept per process.  After another
   process commits, a cached matrix of this one is served although the store
   holds something else, until this process syncs again.  What does hold is
   `CacheServesOwnSyncs`, and it is proved.
2. server.py:62-64: "dedup is exact".  A claim is dated at the start of its
   sync; when the sync takes longer than the interval, the next caller claims
   again and queues on the sync lock.  What does hold is `DedupUnlessSlow`, and
   the queued caller embeds nothing twice (`ChunksEmbeddedOnce`).
3. embedder.py:165: "Device actually in use".  Two first calls, one loading on
   CUDA and the other falling back, may leave the device of one and the model
   of the other.  What does hold is `DeviceIsInUseUnlessLoadsRace`.
4. embedder.py:242-244: "A CUDA-time failure rebuilds on CPU once and retries".
   A call that fails on the CUDA model after another thread set the device to
   cpu, in a rebuild or in a first load that fell back, raises at once.  What does hold is `FallsBackUnlessCallsRace`.
5. server.py:96: "exact source label filter".  The blocks are fetched by rowid
   alone (hybrid.py:169), after the filter was applied; a rowid upstream writes
   in between is shown under another label.  What does hold is
   `FilterHonouredUnlessRewritten`.

## 4. Proofs

### Vectors

From `VectorsAssumption` alone (which says that the special values are distinct
from the ordinary ones and that the bounds are naturals; it bounds neither the
number of rowids, texts, processes or threads, nor k):

| theorem | statement |
|---|---|
| `Invariance` | `Spec => []IInv` |
| `TypeCorrectness` | `Spec => []TypeOK` |
| `CacheIsSafe` | `Spec => []CacheServesOwnSyncs` |
| `SyncIsExact` | `Spec => []SyncExact` |
| `CommitsAreOrdered` | `Spec => []CommitsFollowSnapshots` |
| `NothingEmbeddedTwice` | `Spec => []ChunksEmbeddedOnce` |
| `Refinement` | `Spec => ImplementsIndex` |

None of the properties is inductive.  That a hit is no older than the fence
needs to know what a load in progress carries: `SearchInv` says that while its
label still equals the version, no sync has moved the fence it started from;
and that in turn needs `CacheInv` (versions never run ahead of the fence, no
entry is labelled ahead of the version) and `LockInv` (one sync at a time, so a
fence only moves forward).  That an undisturbed sync is exact, embeds nothing
twice and never puts old texts back needs `SyncInv`: since its SELECT nobody of
its own process committed, and its snapshot is no older than any commit of its
process, which is where taking the snapshot under the lock enters.  `IInv` is
the conjunction; `VectorsProofs` has one lemma per action, and
`VectorsThreads` checks `IInv` itself on an instance.  Its `HistoryInv` also
carries that stored hashes and vectors match, which the refinement needs; it is
no theorem of its own, as `Apply` writes both at once.

`Refinement` maps every step: a commit or a deletion is `Install`, a bump
`Acknowledge`, a crash `Restart`, a hit or a miss `Ask`, the mask (or the load
of an empty store) `Answer`, the return `Done`, everything else a stutter.  The
invariant supplies what `Answer` needs: the contents a search answers from lie
between the fence it started from and the latest.

### SyncWrites

From `SyncWritesAssumption` (finitely many rowids; the special values are not
ordinary ones), for any number of processes, chunks and syncs and for batches of
any length up to one too many:

| theorem | statement |
|---|---|
| `Invariance` | `Spec => []Inv` |
| `TypeCorrectness` | `Spec => []TypeOK` |
| `RowsAreSelfConsistent` | `Spec => []RowsSelfConsistent` |
| `CommitsAreWhole` | `Spec => SyncsAreWhole` |

`Planned` says what a sync set out to do and how far it is: its list names each
chunk to embed, and if it pairs with the batch then by the text of each.
`WriterInv` says that an uncommitted transaction is the plan carried out that
far (`Partly`) on top of what is committed *now*, which stays so because the
lock keeps others from committing; nothing is said of a transaction whose lists
do not pair, since it is never committed.  `AllWritten` is the step from there
to `Apply`: a plan carried out to its end.  The rows are self-consistent because
every commit is such a step.

### Server

From `ServerAssumption`, for any number of threads, any intervals and whatever
the other bounds:

| theorem | statement |
|---|---|
| `Invariance` | `Spec => []Inv` |
| `TypeCorrectness` | `Spec => []TypeOK` |
| `ClaimsAreHonest` | `Spec => []FreshClaimMeansSynced` |
| `NoSyncGoesBack` | `Spec => StoreNeverGoesBack` |
| `SyncsAreNotQueued` | `MaxDelay <= Short` implies `Spec => []DedupUnlessSlow` |

A claim is honest because it stands for a commit from a snapshot it is not
younger than, or for a thread that is still to commit or to release it
(`ClaimInv`), whichever thread overwrote whose claim meanwhile; that needs the
snapshot under the lock to be younger than the newest commit (`SnapInv`), and
that one thread holds the lock (`LockInv`).  `SnapInv` also keeps the store from
going back.  While no sync is slow the one thread that syncs holds the claim
and everybody else finds it fresh (`DedupInv`).  The proof showed what the runs
take for granted: a caller that read the clock and then waits for the state
lock longer than the shorter interval claims with a time that is already
expired, so the next caller claims as well.  The code holds that lock for a few
dictionary accesses and for the construction of an embedder that loads no model
yet, against an interval of 300 seconds; hence the assumption of
the last theorem.

### Embedder

From `EmbedderAssumption`, for any number of threads, calls and batches:

| theorem | statement |
|---|---|
| `Invariance` | `Spec => []Inv` |
| `TypeCorrectness` | `Spec => []TypeOK` |
| `DeviceIsTruthful` | `Spec => []DeviceIsInUseUnlessLoadsRace` |
| `FallbackWorks` | `Spec => []FallsBackUnlessCallsRace` |

Both properties are conditional on the history of races, so the invariant has to
say what the absence of a race leaves of the ways two attributes, written one
after the other, can disagree.  `RaceInv` gives it to the others: without
overlapping loads the thread that loads is alone and there is no model yet;
without overlapping calls one thread at most is inside a call.  Then the device
differs from the model only while some thread is between the two assignments of
`_rebuild_on_cpu` (`DeviceInv`), and behind every raise to come there is a
failure of the CPU (`FallInv`).  `CpuInv` is why none of this needs a condition
without the CUDA libraries: the device is never set to cuda there, so overlapping
loads write the same values.

### HybridSearch

From `HybridSearchAssumption`, for any finite set of rowids, any number of
chunks, queries and upstream commits, texts of any length and any window:

| theorem | statement |
|---|---|
| `FusionByPositions` | of a list with at most 10 places in one leg and 40 in the other: a row of both legs precedes every row of one, and a row higher in both legs precedes |
| `Invariance` | `Spec => []Inv` |
| `TypeCorrectness` | `Spec => []TypeOK` |
| `FilterIsHonoured` | `Spec => []FilterHonouredUnlessRewritten` |
| `ExcerptsShowTerms` | `Spec => []ExcerptShowsTerm` |
| `FusionIsByRanks` | `Spec => []FusionRespectsRanks` |
| `EachRowIsShownOnce` | `Spec => []ShownOnce` |

`Sorted` is a choice, and nothing is known of it before such a sequence is shown
to exist.  `SortExists` shows it for every strict order on a finite set: of the
subsets without a sort there would be a least one (strict inclusion is well
founded on finite sets); it is not empty, so it has a last element (`LastExists`,
by the same argument), and the sort of the rest, which does exist, followed by
that element is a sort of it.  `FusedOrderIsStrict` shows that best score first,
equal scores by rowid, is such an order: scores are fractions with positive
denominators, compared by multiplying crosswise.  The owner of a row exists as
the last of the queries that rank it, in the strict order "scores it better, or
equally and comes first".

That two places outweigh one is arithmetic and holds by the limits of the code
only: the worst pair is 1/70 + 1/100, and more than 1/61.  `TypeOK` therefore
carries the lengths of the lists.

`LegInv` says that what the legs hold passes the filter unless upstream wrote it
during the call, and the same of the pinned view, which the vector leg is cut
from later.  `SectionInv` says what the sections rendered so far are: the section
of a query shows rows that query owns, each once, with excerpts of the chunk
shown, and sections ascend; and every row owned by a query that is done is shown
or was rewritten.  As every row has one owner, no row has two places.
`ExcerptsShowTerms` takes the place of the hit from the block and rests on
`WindowShowsTerm`.

`WindowKeepsWidth` and `WindowShowsTerm`, in the same module, hold for every length, width and place
of the hit: they are facts of integer arithmetic about `Window`, and need no
assumption.

### ContentDB

From `ContentDBAssumption` and `RecallAssumption`, for any number of tables,
attempts, changes and recall cases:

| theorem | statement |
|---|---|
| `TypeCorrectness` | `Spec => []TypeOK` |
| `AttemptsAreClean` | `Spec => []AttemptsStartClean` |
| `VerdictsAreTrue` | `Spec => []VerdictWasTrue` |
| `RetriesHideFailures` | `Spec => []TransientFailuresHidden` |
| `GatesAreExact` | `Spec => []GatesAreTheThresholds` |

That a verdict was true at some moment of its call needs, at every step, what
the call has established so far.  `ViewInv`: what the connection reads has been
so since the call began, although a transaction may read what is no longer so.
`LayoutInv`: while the layout has not once been as expected, a table that is
still to be read differs; so a check that passes table by table passes a layout
that was there as a whole, however upstream migrates meanwhile.  `AgeInv` and
`GoldInv` say the same of the age of the file and of the gold chunks, `RetryInv`
that the attempts of a step are failures of the call.  All the ways a call ends
are one lemma, `LeaveKeeps`, and so are the retries (`TryAgainKeeps`) and the
steps of upstream (`UpstreamKeeps`).  The gates need no invariant:
`PassedIsThresholds` compares the counters of the harness with the thresholds
its documentation states, through cardinalities of finite sets, for any table
of ranks.

### Warmup

From `WarmupAssumption`, for any number of databases, spellings of their paths
and servers, whatever the bounds on changes, runs and faults:

| theorem | statement |
|---|---|
| `Invariance` | `Spec => []Inv` |
| `TypeCorrectness` | `Spec => []TypeOK` |
| `WarmupServes` | `Spec => []WarmedIsServed` |
| `PruneCleans` | `Spec => []PruneIsThorough` |
| `PruneSpares` | `Spec => LiveRowsKept` |

What a run promises when it ends rests on what it has done so far (`WarmInv`: a
path it is through with is served or has failed, a failure is counted, and the
write in progress carries what is there; `PruneInv`: a row of a database that is gone is still to be looked at or
among the deleted) and on what each server is about to commit (`ServerInv`: a
sync that began after the run commits what is there).  The type invariant
carries the write lock of the store: a process holds it exactly while it has
written and not committed, hence no commit of another one comes between.
`PruneSpares` is about the one step at which deletions become visible: what is
deleted by then are the paths at which the prune once found no file, and of
those a database can only be there if upstream brought it since.

### Model-checked only

Every safety property of the passing runs is proved.  What only the runs check is
liveness under fairness, which is out of the prover's reach: `CatchesUp`,
`CallsEnd` (of `Embedder` and of `ContentDB`), `RowsCatchUp` and `RunsEnd`.
`DedupUnlessSlow` is checked as it stands and proved from one more assumption
(see Server).

## 5. Not modelled

* In-memory stores, which bypass the cache, and the dimension check of
  `search`: local to one call.
* What the native library computes, or does when two threads call one model.
* The text of SQL statements and of FTS queries (`_escape_fts`),
  the hash of a project path and the slashes it normalises: pure functions on
  strings that the tests enumerate.  What they decide, a path that resolves or
  not, a row that matches or not, is any outcome in `ContentDB` and
  `HybridSearch`.
* The wording of answers, warnings, reports and logs.
* Installation and start (`uv-sync.sh`, `run.sh`): shell code whose states are those of uv,
  pip, the linker and the file system.  What can go wrong is decided by those
  programs, and a model of them would be invented, not translated.
* The end-to-end client (`e2e.py`), a test driver without state of its own, and
  the package's tests.

One thing was seen and is not a property of any run: `probe.py` ends with
status 1, which its documentation (`probe.py:6-10`, `README.md:74`) keeps for
drift, also when a statement fails for good after the layout was read, as the
exception that leaves `main` ends the interpreter with that status.
`ContentDB` has these ways out (`ConnectFails`, `Fatal`, `CountFails`).

## 6. Plan

The parts whose states are the program's own are modelled, and their safety
properties are proved.  What is left:

1. An abstract promise for `Server` and `Warmup` like that of `VectorIndex`, so
   that their sync is shown to be the sync of `Vectors` and not a restatement.
2. Properties for the hazards of `PROJECT.json` that have none yet, above all
   the interval written last by overlapping syncs (server.py:143) and the rowid
   used again for a new text (vectors.py:259).
