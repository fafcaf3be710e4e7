-------------------------------- MODULE Warmup --------------------------------
(***************************************************************************)
(* The store under three programs at once: servers that sync the databases *)
(* they are asked about, and ctx_semantic/warmup.py, which syncs several   *)
(* in turn or deletes the rows of databases that are gone, while databases *)
(* are written, purged and created.  Several keys share one store file;    *)
(* SQLite lets one process write at a time.                                *)
(*                                                                         *)
(* A database holds one chunk, known by a revision number, or none, and    *)
(* the rows of a key are the revision they were embedded from.  What a     *)
(* sync does with more chunks is the matter of module Vectors, its writes  *)
(* one by one that of SyncWrites, when a server syncs that of Server, and  *)
(* how a database is opened that of ContentDB.                             *)
(***************************************************************************)
EXTENDS Naturals, FiniteSets

CONSTANTS
    Dbs,            \* content DB files
    Paths,          \* paths of them, as they are used for store keys
    FileOf,         \* the file each path leads to
    Relative,       \* paths that lead there from the servers' directory only
    Servers,        \* server processes
    Tool,           \* the warmup process
    Free,           \* nobody has a write transaction on the store
    Absent,         \* no file
    NoChunk,        \* a file whose chunks table is empty
    NoRow,          \* the store has no row for the key
    MaxChanges,     \* bound: upstream changes
    MaxRuns,        \* bound: runs of the tool
    MaxFaults       \* bound: failures and deaths

ASSUME WarmupAssumption ==
    /\ Paths # {}
    /\ FileOf \in [Paths -> Dbs]
    /\ Relative \subseteq Paths
    /\ Tool \notin Servers
    /\ Free \notin Servers \cup {Tool}
    /\ {Absent, NoChunk, NoRow} \cap Nat = {}
    /\ Absent # NoChunk /\ Absent # NoRow
    /\ MaxChanges \in Nat /\ MaxRuns \in Nat /\ MaxFaults \in Nat

VARIABLES
    file,       \* upstream: what each database holds
    changes,    \* upstream changes so far
    rows,       \* the store: the revision behind the rows of each key
    retired,    \* keys with rows under a model that is no longer used
    writer,     \* the process with a write transaction on the store
    pc,         \* per process: its next step
    job,        \* per process: the key, the snapshot and the stored hash of its sync
    tool,       \* the run of the tool: command, keys left, keys to delete, ...
    outcome,    \* command and status of the last run
    runs,       \* runs so far
    faults,     \* failures and deaths so far
    listed,     \* history: the keys the run was to warm
    touched,    \* history: databases upstream changed since the run began
    inflight,   \* history: keys a server was syncing when the run began
    failed      \* history: keys whose warmup failed in the run

vars == <<file, changes, rows, retired, writer, pc, job, tool, outcome, runs,
          faults, listed, touched, inflight, failed>>

upstream == <<file, changes>>
store    == <<rows, retired, writer>>
history  == <<listed, touched, inflight, failed>>
run      == <<tool, outcome, runs>>

Procs     == Servers \cup {Tool}
Revisions == 0 .. MaxChanges
Contents  == Revisions \cup {NoChunk}

\* The rows a database should have.
Embedded(content) == IF content = NoChunk THEN NoRow ELSE content

NoJob  == [key |-> CHOOSE k \in Paths : TRUE, snap |-> 0, found |-> NoRow]
NoRun  == [cmd |-> "none", todo |-> {}, dead |-> {}, failures |-> 0, away |-> FALSE]

\* The paths of a run are taken in their sorted order.
FirstOf(todo) == CHOOSE k \in todo : TRUE

There(k)   == file[FileOf[k]] # Absent
Stored     == {k \in Paths : rows[k] # NoRow} \cup retired
SyncSteps  == {"read", "write", "commit"}
Goto(p, from, to) == pc[p] = from /\ pc' = [pc EXCEPT ![p] = to]

Init ==
    /\ file \in [Dbs -> {0, Absent}]
    /\ changes = 0
    /\ \/ rows = [k \in Paths |-> 0] /\ retired = {}
       \/ rows = [k \in Paths |-> NoRow] /\ retired = Paths
    /\ writer = Free
    /\ pc = [p \in Procs |-> "idle"]
    /\ job = [p \in Procs |-> NoJob]
    /\ tool = NoRun
    /\ outcome = [cmd |-> "none", status |-> 0]
    /\ runs = 0
    /\ faults = 0
    /\ listed = {}
    /\ touched = {}
    /\ inflight = {}
    /\ failed = {}

-----------------------------------------------------------------------------
(* vectors.sync, as a server and the warmup call it *)

\* The database is opened and its snapshot taken.
Snapshot(p, k) ==
    /\ There(k)
    /\ pc' = [pc EXCEPT ![p] = "read"]
    /\ job' = [job EXCEPT ![p] = [NoJob EXCEPT !.key = k, !.snap = file[FileOf[k]]]]

ServerSync(s, k) ==
    /\ pc[s] = "idle"
    /\ Snapshot(s, k)
    /\ UNCHANGED <<upstream, store, run, faults, history>>

\* The SELECT of the stored hashes, outside any transaction.
SyncRead(p) ==
    /\ Goto(p, "read", "write")
    /\ job' = [job EXCEPT ![p].found = rows[job[p].key]]
    /\ UNCHANGED <<upstream, store, run, faults, history>>

\* Where the caller goes on when its sync is over.
After(p) == IF p = Tool THEN "next" ELSE "idle"

SyncOver(p) ==
    /\ pc' = [pc EXCEPT ![p] = After(p)]
    /\ job' = [job EXCEPT ![p] = NoJob]

\* Bug: a key that has rows is taken for up to date.
SyncNothingIfStored(p) ==
    /\ pc[p] = "write"
    /\ job[p].found # NoRow
    /\ SyncOver(p)
    /\ UNCHANGED <<upstream, store, run, faults, history>>

\* Nothing to embed or delete: the commit has nothing to do.
SyncNothing(p) ==
    /\ pc[p] = "write"
    /\ job[p].found = Embedded(job[p].snap)
    /\ SyncOver(p)
    /\ UNCHANGED <<upstream, store, run, faults, history>>

\* The vectors are there; the first INSERT, or DELETE of a row whose chunk went
\* away, opens the transaction, which stays open until the commit.
SyncWrite(p) ==
    /\ job[p].found # Embedded(job[p].snap)
    /\ writer = Free
    /\ writer' = p
    /\ Goto(p, "write", "commit")
    /\ UNCHANGED <<upstream, rows, retired, job, run, faults, history>>

SyncCommit(p) ==
    /\ pc[p] = "commit"
    /\ rows' = [rows EXCEPT ![job[p].key] = Embedded(job[p].snap)]
    /\ writer' = Free
    /\ SyncOver(p)
    /\ UNCHANGED <<upstream, retired, run, faults, history>>

-----------------------------------------------------------------------------
(* warmup: main and warm_one *)

\* --all takes the databases the content directory has now, --db and --project
\* one that may not exist.  Only an override in $CTX_SEMANTIC_DB may be relative;
\* the run is then in the servers' directory.
Warm ==
    /\ pc[Tool] = "idle"
    /\ runs < MaxRuns
    /\ runs' = runs + 1
    /\ \E todo \in {{k \in Paths \ Relative : There(k)}}
                   \cup {{k} : k \in Paths} :
           /\ tool' = [NoRun EXCEPT !.cmd = "warm", !.todo = todo]
           /\ listed' = todo
    /\ pc' = [pc EXCEPT ![Tool] = "next"]
    /\ outcome' = [cmd |-> "none", status |-> 0]
    /\ touched' = {} /\ failed' = {}
    /\ inflight' = {job[s].key : s \in {s \in Servers : pc[s] # "idle"}}
    /\ UNCHANGED <<upstream, store, job, faults>>

\* Bug: a database that is not there is looked for again and again.
WarmSkipWaits ==
    LET k == FirstOf(tool.todo)
    IN  /\ pc[Tool] = "next"
        /\ tool.todo # {}
        /\ ~ There(k)
        /\ UNCHANGED <<upstream, store, pc, job, run, faults, history>>

\* A database that is not there is skipped, without a failure.
WarmSkip ==
    LET k == FirstOf(tool.todo)
    IN  /\ pc[Tool] = "next"
        /\ tool.todo # {}
        /\ ~ There(k)
        /\ tool' = [tool EXCEPT !.todo = @ \ {k}]
        /\ UNCHANGED <<upstream, store, pc, job, outcome, runs, faults, history>>

WarmOne ==
    LET k == FirstOf(tool.todo)
    IN  /\ pc[Tool] = "next"
        /\ tool.todo # {}
        /\ tool' = [tool EXCEPT !.todo = @ \ {k}]
        /\ Snapshot(Tool, k)
        /\ UNCHANGED <<upstream, store, outcome, runs, faults, history>>

\* The layout has drifted, or the database stays locked.
WarmCannotOpen ==
    LET k == FirstOf(tool.todo)
    IN  /\ faults < MaxFaults
        /\ faults' = faults + 1
        /\ pc[Tool] = "next"
        /\ tool.todo # {}
        /\ tool' = [tool EXCEPT !.todo = @ \ {k}, !.failures = @ + 1]
        /\ failed' = failed \cup {k}
        /\ UNCHANGED <<upstream, store, pc, job, outcome, runs, listed, touched, inflight>>

End(status) ==
    /\ pc' = [pc EXCEPT ![Tool] = "idle"]
    /\ job' = [job EXCEPT ![Tool] = NoJob]
    /\ tool' = NoRun
    /\ outcome' = [cmd |-> tool.cmd, status |-> status]
    /\ UNCHANGED history

WarmDone ==
    /\ pc[Tool] = "next"
    /\ tool.todo = {}
    /\ End(IF tool.failures > 0 THEN 1 ELSE 0)
    /\ UNCHANGED <<upstream, store, runs, faults>>

-----------------------------------------------------------------------------
(* warmup: prune *)

\* It may run in another directory than the servers do.
Prune ==
    /\ pc[Tool] = "idle"
    /\ runs < MaxRuns
    /\ runs' = runs + 1
    /\ \E away \in BOOLEAN : tool' = [NoRun EXCEPT !.cmd = "prune", !.away = away]
    /\ pc' = [pc EXCEPT ![Tool] = "list"]
    /\ outcome' = [cmd |-> "none", status |-> 0]
    /\ listed' = {}
    /\ touched' = {} /\ failed' = {}
    /\ inflight' = {job[s].key : s \in {s \in Servers : pc[s] # "idle"}}
    /\ UNCHANGED <<upstream, store, job, faults>>

\* SELECT DISTINCT db_path
PruneList ==
    /\ Goto(Tool, "list", "look")
    /\ tool' = [tool EXCEPT !.todo = Stored]
    /\ UNCHANGED <<upstream, store, job, outcome, runs, faults, history>>

\* Path(p).is_file(), one path at a time.
IsFile(k) == There(k) /\ (k \in Relative => ~ tool.away)

PruneKeep ==
    LET k == FirstOf(tool.todo)
    IN  /\ pc[Tool] = "look"
        /\ tool.todo # {}
        /\ IsFile(k)
        /\ tool' = [tool EXCEPT !.todo = @ \ {k}]
        /\ UNCHANGED <<upstream, store, pc, job, outcome, runs, faults, history>>

PruneGone ==
    LET k == FirstOf(tool.todo)
    IN  /\ tool.todo # {}
        /\ ~ IsFile(k)
        /\ Goto(Tool, "look", "delete")
        /\ job' = [job EXCEPT ![Tool].key = k]
        /\ UNCHANGED <<upstream, store, run, faults, history>>

\* The DELETE of its rows; the first one opens the transaction.
PruneDelete ==
    /\ writer \in {Free, Tool}
    /\ writer' = Tool
    /\ Goto(Tool, "delete", "look")
    /\ tool' = [tool EXCEPT !.todo = @ \ {job[Tool].key}, !.dead = @ \cup {job[Tool].key}]
    /\ job' = [job EXCEPT ![Tool] = NoJob]
    /\ UNCHANGED <<upstream, rows, retired, outcome, runs, faults, history>>

\* The DELETE of the rows of other models.
PruneModels ==
    /\ tool.todo = {}
    /\ writer \in {Free, Tool}
    /\ writer' = Tool
    /\ Goto(Tool, "look", "finish")
    /\ UNCHANGED <<upstream, rows, retired, job, run, faults, history>>

\* Bug: whatever the run listed is deleted.
PruneCommitsList ==
    /\ pc[Tool] = "finish"
    /\ rows' = [k \in Paths |-> NoRow]
    /\ retired' = {}
    /\ writer' = Free
    /\ End(0)
    /\ UNCHANGED <<upstream, runs, faults>>

\* Bug: the transaction is closed without a commit.
PruneForgetsCommit ==
    /\ pc[Tool] = "finish"
    /\ writer' = Free
    /\ End(0)
    /\ UNCHANGED <<upstream, rows, retired, runs, faults>>

PruneCommit ==
    /\ pc[Tool] = "finish"
    /\ rows' = [k \in Paths |-> IF k \in tool.dead THEN NoRow ELSE rows[k]]
    /\ retired' = {}
    /\ writer' = Free
    /\ End(0)
    /\ UNCHANGED <<upstream, runs, faults>>

-----------------------------------------------------------------------------
(* Failures *)

\* Bug: a failed sync keeps its transaction.
RollbackForgotten(p) == writer' = writer

\* What a process had written is rolled back.
Rollback(p) == writer' = IF writer = p THEN Free ELSE writer

\* The databases of the run that failed so far.
Failing(p) == failed' = IF p = Tool THEN failed \cup {job[p].key} ELSE failed

\* Bug: a database that fails is not counted.
FailsUncounted(p) ==
    /\ Rollback(p)
    /\ SyncOver(p)
    /\ Failing(p)
    /\ UNCHANGED <<upstream, rows, retired, run, listed, touched, inflight>>

\* Bug: a database that fails ends the run, which says so.
FailsAborts(p) ==
    /\ Rollback(p)
    /\ SyncOver(p)
    /\ Failing(p)
    /\ tool' = IF p = Tool THEN [tool EXCEPT !.failures = @ + 1, !.todo = {}] ELSE tool
    /\ UNCHANGED <<upstream, rows, retired, outcome, runs, listed, touched, inflight>>

\* A sync raises: a server's call fails, warm_one's is counted.
Fails(p) ==
    /\ Rollback(p)
    /\ SyncOver(p)
    /\ Failing(p)
    /\ tool' = IF p = Tool THEN [tool EXCEPT !.failures = @ + 1] ELSE tool
    /\ UNCHANGED <<upstream, rows, retired, outcome, runs, listed, touched, inflight>>

SyncFails(p) ==
    /\ faults < MaxFaults
    /\ faults' = faults + 1
    /\ pc[p] \in SyncSteps
    /\ Fails(p)

\* Another process holds the write lock for longer than the busy timeout.
Locked(p) == writer \notin {Free, p}

SyncLocked(p) ==
    /\ pc[p] = "write"
    /\ job[p].found # Embedded(job[p].snap)
    /\ Locked(p)
    /\ Fails(p)
    /\ UNCHANGED faults

\* Nothing catches it in prune.
PruneLocked ==
    /\ \/ pc[Tool] = "delete"
       \/ pc[Tool] = "look" /\ tool.todo = {}
    /\ Locked(Tool)
    /\ End(1)
    /\ UNCHANGED <<upstream, store, runs, faults>>

\* A run that was killed promises nothing.
Forget == listed' = {} /\ touched' = {} /\ inflight' = {} /\ failed' = {}

\* A process dies; SQLite rolls its transaction back.
Die(p) ==
    /\ faults < MaxFaults
    /\ faults' = faults + 1
    /\ pc[p] # "idle"
    /\ pc' = [pc EXCEPT ![p] = "idle"]
    /\ job' = [job EXCEPT ![p] = NoJob]
    /\ Rollback(p)
    /\ IF p = Tool THEN tool' = NoRun /\ Forget ELSE UNCHANGED <<tool, history>>
    /\ UNCHANGED <<upstream, rows, retired, outcome, runs>>

\* A run is under way, or the last one says something about the store.
Remembered == pc[Tool] # "idle" \/ outcome.cmd # "none"

\* A database is written, emptied, purged or created.
Upstream(d) ==
    /\ changes < MaxChanges
    /\ changes' = changes + 1
    /\ \E content \in {changes + 1, NoChunk, Absent} \ {file[d]} :
           file' = [file EXCEPT ![d] = content]
    /\ touched' = IF Remembered THEN touched \cup {d} ELSE {}
    /\ UNCHANGED <<store, pc, job, run, faults, listed, inflight, failed>>

SyncStep(p) == SyncRead(p) \/ SyncNothing(p) \/ SyncWrite(p) \/ SyncCommit(p) \/ SyncLocked(p)

ToolStep ==
    \/ SyncStep(Tool)
    \/ WarmSkip \/ WarmOne \/ WarmDone
    \/ PruneList \/ PruneKeep \/ PruneGone \/ PruneDelete \/ PruneModels \/ PruneCommit \/ PruneLocked

Next ==
    \/ \E s \in Servers : SyncStep(s) \/ \E k \in Paths : ServerSync(s, k)
    \/ Warm \/ Prune \/ ToolStep
    \/ WarmCannotOpen
    \/ \E p \in Procs : SyncFails(p) \/ Die(p)
    \/ \E d \in Dbs : Upstream(d)

Spec == Init /\ [][Next]_vars

\* Processes that can step do step, and every database is asked about again
\* and again.
FairSpec ==
    /\ Spec
    /\ WF_vars(ToolStep)
    /\ \A s \in Servers : WF_vars(SyncStep(s))
    /\ \A s \in Servers, k \in Paths : SF_vars(ServerSync(s, k))

-----------------------------------------------------------------------------
(* Properties *)

TypeOK ==
    /\ file \in [Dbs -> Contents \cup {Absent}]
    /\ changes \in 0 .. MaxChanges
    /\ rows \in [Paths -> Revisions \cup {NoRow}]
    /\ retired \subseteq Paths
    /\ writer \in Procs \cup {Free}
    /\ pc \in [Procs -> SyncSteps \cup {"idle", "next", "list", "look", "delete", "finish"}]
    /\ job \in [Procs -> [key : Paths, snap : Contents, found : Revisions \cup {NoRow}]]
    /\ tool \in [cmd : {"none", "warm", "prune"}, todo : SUBSET Paths,
                 dead : SUBSET Paths, failures : Nat, away : BOOLEAN]
    /\ outcome \in [cmd : {"none", "warm", "prune"}, status : {0, 1}]
    /\ runs \in 0 .. MaxRuns
    /\ faults \in 0 .. MaxFaults
    /\ listed \subseteq Paths /\ failed \subseteq Paths
    /\ touched \subseteq Dbs /\ inflight \subseteq Paths
    /\ \A p \in Procs : writer = p <=> \/ pc[p] \in {"commit", "finish"}
                                       \/ p = Tool /\ tool.dead # {}

\* When a warmup is over, the rows of every key it was given are those of the
\* database, unless that changed since or a server was in the middle of syncing
\* it.  A database that failed is the only other exception: it is told by the
\* status, and does not keep the others from being warmed (warmup.py:12-13,
\* 30-47, 121-132).
WarmedIsServed ==
    outcome.cmd = "warm" =>
        \A k \in listed :
            \/ ~ There(k)
            \/ FileOf[k] \in touched
            \/ k \in inflight
            \/ rows[k] = Embedded(file[FileOf[k]])
            \/ k \in failed /\ outcome.status = 1

\* The rows a prune takes when it commits are those of databases that were gone
\* at some moment of it, whatever came, was synced or failed between its looks,
\* its deletions and its commit; a relative path is looked for in the prune's
\* own directory (warmup.py:50-52, 67-76).
LiveRowsKept ==
    [][pc[Tool] = "finish" /\ pc'[Tool] = "idle" =>
           \A k \in Paths : rows[k] # NoRow /\ rows'[k] = NoRow =>
               ~ There(k) \/ FileOf[k] \in touched \/ (k \in Relative /\ tool.away)]_vars

\* A prune that ended with status 0 left no row of a database that was gone
\* all the time, and none of a retired model, unless a server was in the middle
\* of syncing it (warmup.py:50-76).
PruneIsThorough ==
    outcome = [cmd |-> "prune", status |-> 0] =>
        /\ retired = {}
        /\ \A k \in Paths : rows[k] # NoRow =>
               There(k) \/ FileOf[k] \in touched \/ k \in inflight

\* Whatever a prune took by mistake, a late commit put back or a death left
\* undone, in the end the rows of every database are those of the database
\* (server.py:125-132, vectors.py:128-174).
RowsCatchUp ==
    <>[](\A k \in Paths : There(k) => rows[k] = Embedded(file[FileOf[k]]))

\* Every run of the tool ends, also when a server sits on the write lock
\* (warmup.py:50-87, 125-132).
RunsEnd == pc[Tool] # "idle" ~> pc[Tool] = "idle"
===============================================================================
