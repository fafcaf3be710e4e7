------------------------------- MODULE Server --------------------------------
(***************************************************************************)
(* The sync policy of ctx_semantic/server.py: which calls of               *)
(* ctx_hybrid_search, running in worker threads of one server process,     *)
(* bring the store up to date before they search.  A claim with a time to  *)
(* live decides; vectors.sync() then runs under its own lock (module       *)
(* Vectors).  One key (database) is modelled.                              *)
(*                                                                         *)
(* Time is a number of ticks.  Only ages are kept, and ages stop at AgeCap *)
(* where every comparison of the code has the same outcome.  The source is *)
(* a revision number and the store the revision it was last synced from.   *)
(* A call that fails before the claim (bad arguments, no database, an      *)
(* upstream layout change) changes nothing and is not an action.           *)
(***************************************************************************)
EXTENDS Integers, FiniteSets

CONSTANTS
    Threads,        \* worker threads of the server
    NoThread,       \* the lock of vectors.sync() is free
    Short,          \* RESYNC_INTERVAL_S
    Long,           \* FULL_REEMBED_RESYNC_INTERVAL_S
    None,           \* no age: no claim, no commit, no database in the store
    AgeCap,         \* bound: ages above it are not told apart
    MaxDelay,       \* bound: ticks between reading the clock and the state lock
    MaxSyncTicks,   \* bound: ticks from a claim to the end of its sync
    MaxRevisions,   \* bound: upstream commits
    MaxFaults       \* bound: failed syncs, restarts and lost stores

ASSUME ServerAssumption ==
    /\ NoThread \notin Threads
    /\ Short \in Nat /\ Long \in Nat /\ Short <= Long
    /\ None \notin Int
    /\ MaxDelay \in Nat /\ MaxSyncTicks \in Nat
    /\ AgeCap \in Nat /\ AgeCap > Long + MaxDelay /\ AgeCap >= MaxSyncTicks
    /\ MaxDelay <= MaxSyncTicks
    /\ MaxRevisions \in Nat /\ MaxFaults \in Nat

VARIABLES
    revision,   \* upstream commits so far
    stored,     \* the revision the store holds, None when it is empty
    claim,      \* age of _synced_at[key], None when absent
    interval,   \* _sync_interval[key], Short when absent
    syncLock,   \* the thread inside vectors.sync()
    lastSync,   \* age of the snapshot behind the newest commit of this process
    pc,         \* per thread: the next step of its call
    since,      \* per thread: ticks since it read the clock
    snap,       \* per thread: revision and age of its snapshot
    wide,       \* per thread: did its sync embed every stored chunk
    faults,     \* faults so far
    slow        \* history: some sync outlasted the shorter interval

vars == <<revision, stored, claim, interval, syncLock, lastSync, pc, since, snap,
          wide, faults, slow>>

NoSnap == [rev |-> 0, age |-> 0]

\* Steps between winning the claim and the end of the sync it stands for.
Syncing == {"sync", "snapshot", "commit", "return", "release"}

\* Steps that hold the lock of vectors.sync().
Locked == {"snapshot", "commit", "return"}

Goto(t, from, to) == pc[t] = from /\ pc' = [pc EXCEPT ![t] = to]

Older(age) == IF age = None \/ age = AgeCap THEN age ELSE age + 1

Init ==
    /\ revision = 0
    /\ stored \in {None, 0}
    /\ claim = None
    /\ interval = Short
    /\ syncLock = NoThread
    /\ lastSync = None
    /\ pc = [t \in Threads |-> "idle"]
    /\ since = [t \in Threads |-> 0]
    /\ snap = [t \in Threads |-> NoSnap]
    /\ wide = [t \in Threads |-> FALSE]
    /\ faults = 0
    /\ slow = FALSE

-----------------------------------------------------------------------------
(* A call of ctx_hybrid_search *)

\* The database is there and opened; _claim_sync reads the clock.
Begin(t) ==
    /\ Goto(t, "idle", "claim")
    /\ since' = [since EXCEPT ![t] = 0]
    /\ UNCHANGED <<revision, stored, claim, interval, syncLock, lastSync, snap, wide, faults, slow>>

\* Bug: the comparison with the interval is strict.
FreshStrictly(t) == claim # None /\ claim - since[t] < interval

\* Bug: a claim never expires.
FreshForEver(t) == claim # None

FreshFor(t) == claim # None /\ claim - since[t] <= interval

\* Under the state lock: a fresh claim is left to its owner.
Skip(t) ==
    /\ FreshFor(t)
    /\ Goto(t, "claim", "search")
    /\ since' = [since EXCEPT ![t] = 0]
    /\ UNCHANGED <<revision, stored, claim, interval, syncLock, lastSync, snap, wide, faults, slow>>

Claim(t) ==
    /\ ~ FreshFor(t)
    /\ Goto(t, "claim", "sync")
    /\ claim' = since[t]
    /\ UNCHANGED <<revision, stored, interval, syncLock, lastSync, since, snap, wide, faults, slow>>

\* Bug: the lock of vectors.sync() is not waited for.
SyncBarge(t) ==
    /\ Goto(t, "sync", "snapshot")
    /\ syncLock' = t
    /\ UNCHANGED <<revision, stored, claim, interval, lastSync, since, snap, wide, faults, slow>>

\* vectors.sync(): the process-local lock, the snapshot, the commit.
SyncLock(t) ==
    /\ syncLock = NoThread
    /\ Goto(t, "sync", "snapshot")
    /\ syncLock' = t
    /\ UNCHANGED <<revision, stored, claim, interval, lastSync, since, snap, wide, faults, slow>>

SyncSnapshot(t) ==
    /\ Goto(t, "snapshot", "commit")
    /\ snap' = [snap EXCEPT ![t] = [rev |-> revision, age |-> 0]]
    /\ UNCHANGED <<revision, stored, claim, interval, syncLock, lastSync, since, wide, faults, slow>>

\* A sync that changes nothing embeds nothing; one that changes something may
\* embed none, some or all of the stored chunks.
SyncCommit(t) ==
    /\ Goto(t, "commit", "return")
    /\ stored' = snap[t].rev
    /\ lastSync' = snap[t].age
    /\ \E all \in IF stored = snap[t].rev THEN {FALSE} ELSE BOOLEAN :
           wide' = [wide EXCEPT ![t] = all]
    /\ UNCHANGED <<revision, claim, interval, syncLock, since, snap, faults, slow>>

SyncReturn(t) ==
    /\ Goto(t, "return", "interval")
    /\ syncLock' = NoThread
    /\ since' = [since EXCEPT ![t] = 0]
    /\ snap' = [snap EXCEPT ![t] = NoSnap]
    /\ UNCHANGED <<revision, stored, claim, interval, lastSync, wide, faults, slow>>

\* The embedder cannot be built, or the sync raises before or after its commit.
SyncRaise(t) ==
    /\ faults < MaxFaults
    /\ pc[t] \in {"sync"} \cup Locked
    /\ pc' = [pc EXCEPT ![t] = "release"]
    /\ syncLock' = IF pc[t] \in Locked THEN NoThread ELSE syncLock
    /\ snap' = [snap EXCEPT ![t] = NoSnap]
    /\ wide' = [wide EXCEPT ![t] = FALSE]
    /\ faults' = faults + 1
    /\ UNCHANGED <<revision, stored, claim, interval, lastSync, since, slow>>

\* Bug: a failed sync keeps its claim.
KeepClaim(t) ==
    /\ Goto(t, "release", "idle")
    /\ since' = [since EXCEPT ![t] = 0]
    /\ UNCHANGED <<revision, stored, claim, interval, syncLock, lastSync, snap, wide, faults, slow>>

\* The claim is dropped, whoever holds it by now, and the call raises.
Release(t) ==
    /\ Goto(t, "release", "idle")
    /\ claim' = None
    /\ since' = [since EXCEPT ![t] = 0]
    /\ UNCHANGED <<revision, stored, interval, syncLock, lastSync, snap, wide, faults, slow>>

\* Bug: the interval grows with every sync.
GrowInterval(t) ==
    /\ Goto(t, "interval", "search")
    /\ interval' = interval + (IF wide[t] THEN Long ELSE Short)
    /\ wide' = [wide EXCEPT ![t] = FALSE]
    /\ UNCHANGED <<revision, stored, claim, syncLock, lastSync, since, snap, faults, slow>>

SetInterval(t) ==
    /\ Goto(t, "interval", "search")
    /\ interval' = IF wide[t] THEN Long ELSE Short
    /\ wide' = [wide EXCEPT ![t] = FALSE]
    /\ UNCHANGED <<revision, stored, claim, syncLock, lastSync, since, snap, faults, slow>>

\* hybrid.search() answers, or raises, and the call is over.
Search(t) ==
    /\ Goto(t, "search", "idle")
    /\ UNCHANGED <<revision, stored, claim, interval, syncLock, lastSync, since, snap,
                   wide, faults, slow>>

-----------------------------------------------------------------------------
(* The environment *)

UpstreamCommit ==
    /\ revision < MaxRevisions
    /\ revision' = revision + 1
    /\ UNCHANGED <<stored, claim, interval, syncLock, lastSync, pc, since, snap, wide, faults, slow>>

Tick ==
    /\ \A t \in Threads :
          /\ pc[t] = "claim" => since[t] < MaxDelay
          /\ pc[t] \in Syncing => since[t] < MaxSyncTicks
    /\ claim' = Older(claim)
    /\ lastSync' = Older(lastSync)
    /\ since' = [t \in Threads |->
                    IF pc[t] \in {"claim"} \cup Syncing THEN since[t] + 1 ELSE since[t]]
    /\ snap' = [t \in Threads |->
                    IF pc[t] \in {"commit", "return"}
                      THEN [snap[t] EXCEPT !.age = @ + 1] ELSE snap[t]]
    /\ slow' = (slow \/ \E t \in Threads : pc[t] \in Syncing /\ since[t] >= Short)
    /\ UNCHANGED <<revision, stored, interval, syncLock, pc, wide, faults>>

\* The server dies and is started again; the store survives.
Restart ==
    /\ faults < MaxFaults
    /\ faults' = faults + 1
    /\ claim' = None
    /\ interval' = Short
    /\ syncLock' = NoThread
    /\ lastSync' = None
    /\ pc' = [t \in Threads |-> "idle"]
    /\ since' = [t \in Threads |-> 0]
    /\ snap' = [t \in Threads |-> NoSnap]
    /\ wide' = [t \in Threads |-> FALSE]
    /\ UNCHANGED <<revision, stored, slow>>

\* The store file is deleted while no call runs.
LoseStore ==
    /\ faults < MaxFaults
    /\ faults' = faults + 1
    /\ \A t \in Threads : pc[t] = "idle"
    /\ stored' = None
    /\ UNCHANGED <<revision, claim, interval, syncLock, lastSync, pc, since, snap, wide, slow>>

Step(t) ==
    \/ Skip(t) \/ Claim(t) \/ SyncLock(t) \/ SyncSnapshot(t) \/ SyncCommit(t)
    \/ SyncReturn(t) \/ Release(t) \/ SetInterval(t) \/ Search(t)

Next ==
    \/ \E t \in Threads : Begin(t) \/ Step(t) \/ SyncRaise(t)
    \/ UpstreamCommit \/ Tick \/ Restart \/ LoseStore

\* Threads that can run do run and calls keep coming; time passes.
Fairness ==
    /\ \A t \in Threads : WF_vars(Begin(t)) /\ WF_vars(Step(t))
    /\ WF_vars(Tick)

Spec     == Init /\ [][Next]_vars
FairSpec == Spec /\ Fairness

-----------------------------------------------------------------------------
(* Properties *)

TypeOK ==
    /\ revision \in 0 .. MaxRevisions
    /\ stored \in {None} \cup 0 .. MaxRevisions
    /\ claim \in {None} \cup 0 .. AgeCap
    /\ interval \in {Short, Long}
    /\ syncLock \in Threads \cup {NoThread}
    /\ lastSync \in {None} \cup 0 .. AgeCap
    /\ pc \in [Threads -> {"idle", "claim", "interval", "search"} \cup Syncing]
    /\ since \in [Threads -> 0 .. MaxSyncTicks]
    /\ snap \in [Threads -> [rev : 0 .. MaxRevisions, age : 0 .. MaxSyncTicks]]
    /\ wide \in [Threads -> BOOLEAN]
    /\ faults \in 0 .. MaxFaults
    /\ slow \in BOOLEAN

\* A claim that outlives every running sync stands for a sync that really
\* happened: the newest commit comes from a snapshot taken no earlier than the
\* claim, so a failed sync never leaves a false-fresh claim (server.py:129-132).
FreshClaimMeansSynced ==
    claim # None /\ (\A t \in Threads : pc[t] \notin Syncing)
        => lastSync # None /\ lastSync <= claim

\* What the docstring of _claim_sync says (server.py:62-64): a caller that
\* finds a sync under way skips instead of queueing its own.
DedupIsExact == Cardinality({t \in Threads : pc[t] \in Syncing}) <= 1

\* It is so as long as no sync outlasts the re-sync interval, whatever fails
\* and whoever loses a claim (server.py:59-74).
DedupUnlessSlow == slow \/ DedupIsExact

\* The newest commit never goes back to an older revision, however the syncs
\* of overlapping claims are ordered (server.py:125-132, vectors.py:128-129).
StoreNeverGoesBack ==
    [][stored # None /\ stored' # None => stored <= stored']_vars

\* Once upstream is quiet and faults are over, the store catches up and stays
\* there: no claim, failure or restart keeps a key stale for ever
\* (server.py:59-74, 125-144).
CatchesUp == <>[](stored = revision)
=============================================================================
