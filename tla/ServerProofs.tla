----------------------------- MODULE ServerProofs -----------------------------
(***************************************************************************)
(* The safety properties of Server, for any number of threads and whatever *)
(* the intervals and the bounds.  The invariant says what a claim stands   *)
(* for while its sync runs, and what the lock of vectors.sync() lets a     *)
(* snapshot miss.                                                          *)
(***************************************************************************)
EXTENDS Server, FiniteSetTheorems, TLAPS

\* One thread at a time is inside vectors.sync().
LockInv == \A t \in Threads : syncLock = t <=> pc[t] \in Locked

\* How long a call may wait for the state lock.
WaitInv == \A t \in Threads : pc[t] = "claim" => since[t] <= MaxDelay

\* A snapshot is younger than the call that took it and, under the lock, than
\* the newest commit.
SnapInv ==
    /\ \A t \in Threads :
          /\ snap[t].age <= since[t]
          /\ snap[t].rev <= revision
          /\ pc[t] \notin {"commit", "return"} => snap[t] = NoSnap
          /\ pc[t] = "commit" => /\ lastSync # None => snap[t].age <= lastSync
                                 /\ stored # None => stored <= snap[t].rev
    /\ stored # None => stored <= revision

\* A claim stands for a commit from a snapshot it is not younger than, or for
\* a thread that is still to commit or to release it.
ClaimInv ==
    claim # None =>
        \/ lastSync # None /\ lastSync <= claim
        \/ \E t \in Threads : /\ pc[t] \in Syncing \ {"return"}
                              /\ since[t] = claim

\* While no sync is slow, the one thread that syncs holds the claim, and the
\* claim is fresh for everybody else, if no thread waits for the state lock
\* longer than the shorter interval.
DedupInv ==
    ~ slow /\ MaxDelay <= Short => \A t \in Threads : pc[t] \in Syncing =>
        /\ claim = since[t] /\ since[t] <= Short
        /\ \A u \in Threads : pc[u] \in Syncing => u = t

Inv ==
    /\ TypeOK
    /\ LockInv
    /\ WaitInv
    /\ SnapInv
    /\ ClaimInv
    /\ DedupInv

USE DEF Syncing, Locked

LEMMA NoSnapType == NoSnap \in [rev : 0 .. MaxRevisions, age : 0 .. MaxSyncTicks]
BY ServerAssumption DEF NoSnap

LEMMA InitInv == Init => Inv
<1> SUFFICES ASSUME Init PROVE Inv
  OBVIOUS
<1>1. TypeOK
  <2>1. 0 \in 0 .. MaxRevisions /\ 0 \in 0 .. MaxSyncTicks /\ 0 \in 0 .. MaxFaults
    BY ServerAssumption
  <2>2. /\ snap \in [Threads -> [rev : 0 .. MaxRevisions, age : 0 .. MaxSyncTicks]]
        /\ since \in [Threads -> 0 .. MaxSyncTicks]
        /\ wide \in [Threads -> BOOLEAN]
        /\ pc \in [Threads -> {"idle", "claim", "interval", "search"} \cup Syncing]
    BY <2>1, NoSnapType DEF Init
  <2>3. QED
    BY <2>1, <2>2 DEF Init, TypeOK
<1>2. LockInv /\ WaitInv /\ ClaimInv /\ DedupInv
  BY ServerAssumption DEF Init, LockInv, WaitInv, ClaimInv, DedupInv
<1>3. SnapInv
  BY ServerAssumption DEF Init, SnapInv, NoSnap
<1>4. QED
  BY <1>1, <1>2, <1>3 DEF Inv

LEMMA BeginStep ==
    ASSUME NEW t \in Threads, Inv, Begin(t)
    PROVE  Inv'
<1>1. TypeOK'
  BY ServerAssumption DEF Inv, TypeOK, Begin, Goto
<1>2. LockInv'
  BY DEF Inv, LockInv, Begin, Goto
<1>3. WaitInv'
  BY ServerAssumption DEF Inv, TypeOK, WaitInv, Begin, Goto
<1>4. SnapInv'
  BY DEF Inv, SnapInv, NoSnap, Begin, Goto
<1>5. ClaimInv'
  BY DEF Inv, ClaimInv, Begin, Goto
<1>6. DedupInv'
  BY DEF Inv, DedupInv, Begin, Goto
<1>7. QED
  BY <1>1, <1>2, <1>3, <1>4, <1>5, <1>6 DEF Inv

LEMMA SkipStep ==
    ASSUME NEW t \in Threads, Inv, Skip(t)
    PROVE  Inv'
<1>1. TypeOK'
  BY ServerAssumption DEF Inv, TypeOK, Skip, Goto
<1>2. LockInv'
  BY DEF Inv, LockInv, Skip, Goto
<1>3. WaitInv'
  BY DEF Inv, TypeOK, WaitInv, Skip, Goto
<1>4. SnapInv'
  BY DEF Inv, SnapInv, NoSnap, Skip, Goto
<1>5. ClaimInv'
  BY DEF Inv, ClaimInv, Skip, Goto
<1>6. DedupInv'
  BY DEF Inv, DedupInv, Skip, Goto
<1>7. QED
  BY <1>1, <1>2, <1>3, <1>4, <1>5, <1>6 DEF Inv

LEMMA ClaimStep ==
    ASSUME NEW t \in Threads, Inv, Claim(t)
    PROVE  Inv'
<1>1. TypeOK'
  BY ServerAssumption DEF Inv, TypeOK, Claim, Goto
<1>2. LockInv'
  BY DEF Inv, LockInv, Claim, Goto
<1>3. WaitInv'
  BY DEF Inv, WaitInv, Claim, Goto
<1>4. SnapInv'
  BY DEF Inv, SnapInv, Claim, Goto
<1>5. ClaimInv'
  BY DEF Inv, TypeOK, ClaimInv, Claim, Goto
<1>6. DedupInv'
  <2>1. ASSUME NEW u \in Threads, pc[u] \in Syncing, ~ slow, MaxDelay <= Short
        PROVE  FALSE
    <3>1. claim = since[u] /\ since[u] <= Short
      BY <2>1 DEF Inv, DedupInv
    <3>2. /\ since[u] \in Nat /\ since[t] \in Nat /\ Short <= interval
          /\ interval \in Nat /\ Short \in Nat
      BY ServerAssumption DEF Inv, TypeOK
    <3>3. claim # None /\ claim - since[t] <= interval
      BY <3>1, <3>2, ServerAssumption
    <3>4. QED
      BY <3>3 DEF Claim, FreshFor
  <2>2. since[t] <= MaxDelay
    BY DEF Inv, WaitInv, Claim, Goto
  <2>3. QED
    BY <2>1, <2>2, ServerAssumption DEF Inv, TypeOK, DedupInv, Claim, Goto
<1>7. QED
  BY <1>1, <1>2, <1>3, <1>4, <1>5, <1>6 DEF Inv

LEMMA SyncLockStep ==
    ASSUME NEW t \in Threads, Inv, SyncLock(t)
    PROVE  Inv'
<1>1. TypeOK'
  BY DEF Inv, TypeOK, SyncLock, Goto
<1>2. LockInv'
  BY ServerAssumption DEF Inv, TypeOK, LockInv, SyncLock, Goto
<1>3. WaitInv'
  BY DEF Inv, WaitInv, SyncLock, Goto
<1>4. SnapInv'
  BY DEF Inv, SnapInv, SyncLock, Goto
<1>5. ClaimInv'
  BY DEF Inv, ClaimInv, SyncLock, Goto
<1>6. DedupInv'
  BY DEF Inv, DedupInv, SyncLock, Goto
<1>7. QED
  BY <1>1, <1>2, <1>3, <1>4, <1>5, <1>6 DEF Inv

LEMMA SyncSnapshotStep ==
    ASSUME NEW t \in Threads, Inv, SyncSnapshot(t)
    PROVE  Inv'
<1>1. TypeOK'
  BY ServerAssumption DEF Inv, TypeOK, SyncSnapshot, Goto
<1>2. LockInv'
  BY DEF Inv, LockInv, SyncSnapshot, Goto
<1>3. WaitInv'
  BY DEF Inv, WaitInv, SyncSnapshot, Goto
<1>4. SnapInv'
  BY DEF Inv, TypeOK, SnapInv, SyncSnapshot, Goto
<1>5. ClaimInv'
  BY DEF Inv, ClaimInv, SyncSnapshot, Goto
<1>6. DedupInv'
  BY DEF Inv, DedupInv, SyncSnapshot, Goto
<1>7. QED
  BY <1>1, <1>2, <1>3, <1>4, <1>5, <1>6 DEF Inv

LEMMA SyncCommitStep ==
    ASSUME NEW t \in Threads, Inv, SyncCommit(t)
    PROVE  Inv'
<1>1. TypeOK'
  <2>1. /\ snap[t] \in [rev : 0 .. MaxRevisions, age : 0 .. MaxSyncTicks]
        /\ 0 .. MaxSyncTicks \subseteq 0 .. AgeCap
    BY ServerAssumption DEF Inv, TypeOK
  <2>2. stored' \in 0 .. MaxRevisions /\ lastSync' \in 0 .. AgeCap
    BY <2>1 DEF SyncCommit
  <2>3. wide' \in [Threads -> BOOLEAN] /\ pc' = [pc EXCEPT ![t] = "return"]
    BY DEF Inv, TypeOK, SyncCommit, Goto
  <2>4. QED
    BY <2>2, <2>3 DEF Inv, TypeOK, SyncCommit
<1>2. LockInv'
  BY DEF Inv, LockInv, SyncCommit, Goto
<1>3. WaitInv'
  BY DEF Inv, WaitInv, SyncCommit, Goto
<1>4. SnapInv'
  BY DEF Inv, TypeOK, SnapInv, LockInv, SyncCommit, Goto
<1>5. ClaimInv'
  BY ServerAssumption DEF Inv, TypeOK, ClaimInv, SnapInv, SyncCommit, Goto
<1>6. DedupInv'
  BY DEF Inv, DedupInv, SyncCommit, Goto
<1>7. QED
  BY <1>1, <1>2, <1>3, <1>4, <1>5, <1>6 DEF Inv

LEMMA SyncReturnStep ==
    ASSUME NEW t \in Threads, Inv, SyncReturn(t)
    PROVE  Inv'
<1>1. TypeOK'
  BY ServerAssumption, NoSnapType DEF Inv, TypeOK, SyncReturn, Goto
<1>2. LockInv'
  BY ServerAssumption DEF Inv, TypeOK, LockInv, SyncReturn, Goto
<1>3. WaitInv'
  BY DEF Inv, WaitInv, SyncReturn, Goto
<1>4. SnapInv'
  BY DEF Inv, TypeOK, SnapInv, NoSnap, SyncReturn, Goto
<1>5. ClaimInv'
  BY DEF Inv, ClaimInv, SyncReturn, Goto
<1>6. DedupInv'
  BY DEF Inv, TypeOK, DedupInv, SyncReturn, Goto
<1>7. QED
  BY <1>1, <1>2, <1>3, <1>4, <1>5, <1>6 DEF Inv

LEMMA SyncRaiseStep ==
    ASSUME NEW t \in Threads, Inv, SyncRaise(t)
    PROVE  Inv'
<1>1. TypeOK'
  BY ServerAssumption, NoSnapType DEF Inv, TypeOK, SyncRaise
<1>2. LockInv'
  BY ServerAssumption DEF Inv, TypeOK, LockInv, SyncRaise
<1>3. WaitInv'
  BY DEF Inv, WaitInv, SyncRaise
<1>4. SnapInv'
  BY DEF Inv, TypeOK, SnapInv, NoSnap, SyncRaise
<1>5. ClaimInv'
  BY DEF Inv, ClaimInv, SyncRaise
<1>6. DedupInv'
  BY DEF Inv, DedupInv, SyncRaise
<1>7. QED
  BY <1>1, <1>2, <1>3, <1>4, <1>5, <1>6 DEF Inv

LEMMA ReleaseStep ==
    ASSUME NEW t \in Threads, Inv, Release(t)
    PROVE  Inv'
<1>1. TypeOK'
  BY ServerAssumption DEF Inv, TypeOK, Release, Goto
<1>2. LockInv'
  BY DEF Inv, LockInv, Release, Goto
<1>3. WaitInv'
  BY DEF Inv, WaitInv, Release, Goto
<1>4. SnapInv'
  BY DEF Inv, SnapInv, NoSnap, Release, Goto
<1>5. ClaimInv'
  BY DEF ClaimInv, Release
<1>6. DedupInv'
  BY DEF Inv, TypeOK, DedupInv, Release, Goto
<1>7. QED
  BY <1>1, <1>2, <1>3, <1>4, <1>5, <1>6 DEF Inv

LEMMA SetIntervalStep ==
    ASSUME NEW t \in Threads, Inv, SetInterval(t)
    PROVE  Inv'
<1>1. TypeOK'
  BY DEF Inv, TypeOK, SetInterval, Goto
<1>2. LockInv'
  BY DEF Inv, LockInv, SetInterval, Goto
<1>3. WaitInv'
  BY DEF Inv, WaitInv, SetInterval, Goto
<1>4. SnapInv'
  BY DEF Inv, SnapInv, SetInterval, Goto
<1>5. ClaimInv'
  BY DEF Inv, ClaimInv, SetInterval, Goto
<1>6. DedupInv'
  BY DEF Inv, DedupInv, SetInterval, Goto
<1>7. QED
  BY <1>1, <1>2, <1>3, <1>4, <1>5, <1>6 DEF Inv

LEMMA SearchStep ==
    ASSUME NEW t \in Threads, Inv, Search(t)
    PROVE  Inv'
<1>1. TypeOK'
  BY DEF Inv, TypeOK, Search, Goto
<1>2. LockInv'
  BY DEF Inv, LockInv, Search, Goto
<1>3. WaitInv'
  BY DEF Inv, WaitInv, Search, Goto
<1>4. SnapInv'
  BY DEF Inv, SnapInv, Search, Goto
<1>5. ClaimInv'
  BY DEF Inv, ClaimInv, Search, Goto
<1>6. DedupInv'
  BY DEF Inv, DedupInv, Search, Goto
<1>7. QED
  BY <1>1, <1>2, <1>3, <1>4, <1>5, <1>6 DEF Inv

LEMMA UpstreamCommitStep ==
    ASSUME Inv, UpstreamCommit
    PROVE  Inv'
<1>1. TypeOK'
  BY ServerAssumption DEF Inv, TypeOK, UpstreamCommit
<1>2. LockInv'
  BY DEF Inv, LockInv, UpstreamCommit
<1>3. WaitInv'
  BY DEF Inv, WaitInv, UpstreamCommit
<1>4. SnapInv'
  BY DEF Inv, TypeOK, SnapInv, UpstreamCommit
<1>5. ClaimInv'
  BY DEF Inv, ClaimInv, UpstreamCommit
<1>6. DedupInv'
  BY DEF Inv, DedupInv, UpstreamCommit
<1>7. QED
  BY <1>1, <1>2, <1>3, <1>4, <1>5, <1>6 DEF Inv

LEMMA TickStep ==
    ASSUME Inv, Tick
    PROVE  Inv'
<1>1. TypeOK'
  <2>1. since' \in [Threads -> 0 .. MaxSyncTicks]
    BY ServerAssumption DEF Inv, TypeOK, Tick
  <2>2. snap' \in [Threads -> [rev : 0 .. MaxRevisions, age : 0 .. MaxSyncTicks]]
    <3>1. ASSUME NEW t \in Threads, pc[t] \in {"commit", "return"}
          PROVE  [snap[t] EXCEPT !.age = @ + 1]
                     \in [rev : 0 .. MaxRevisions, age : 0 .. MaxSyncTicks]
      <4>1. snap[t] \in [rev : 0 .. MaxRevisions, age : 0 .. MaxSyncTicks]
        BY DEF Inv, TypeOK
      <4>2. snap[t].age + 1 \in 0 .. MaxSyncTicks
        BY <3>1, <4>1, ServerAssumption DEF Inv, TypeOK, SnapInv, Tick
      <4>3. QED
        BY <4>1, <4>2
    <3>2. QED
      BY <3>1 DEF Inv, TypeOK, Tick
  <2>3. claim' \in {None} \cup 0 .. AgeCap /\ lastSync' \in {None} \cup 0 .. AgeCap
    <3>1. ASSUME NEW age \in {None} \cup 0 .. AgeCap
          PROVE  Older(age) \in {None} \cup 0 .. AgeCap
      BY ServerAssumption DEF Older
    <3>2. QED
      BY <3>1 DEF Inv, TypeOK, Tick
  <2>4. slow' \in BOOLEAN
    BY DEF Tick
  <2>5. QED
    BY <2>1, <2>2, <2>3, <2>4 DEF Inv, TypeOK, Tick
<1>2. LockInv'
  BY DEF Inv, LockInv, Tick
<1>3. WaitInv'
  BY ServerAssumption DEF Inv, TypeOK, WaitInv, Tick
<1>4. SnapInv'
  BY ServerAssumption DEF Inv, TypeOK, SnapInv, Tick, Older
<1>5. ClaimInv'
  <2>1. CASE claim = None
    BY <2>1 DEF ClaimInv, Tick, Older
  <2>2. CASE claim # None /\ lastSync # None /\ lastSync <= claim
    BY <2>2, ServerAssumption DEF Inv, TypeOK, ClaimInv, Tick, Older
  <2>3. ASSUME NEW t \in Threads, claim # None, pc[t] \in Syncing \ {"return"},
               since[t] = claim
        PROVE  ClaimInv'
    <3>1. since'[t] = since[t] + 1 /\ since[t] < MaxSyncTicks
      BY <2>3 DEF Tick
    <3>2. claim' = claim + 1
      BY <2>3, <3>1, ServerAssumption DEF Tick, Older
    <3>3. QED
      BY <2>3, <3>1, <3>2 DEF ClaimInv, Tick
  <2>4. QED
    BY <2>1, <2>2, <2>3 DEF Inv, ClaimInv
<1>6. DedupInv'
  <2>1. ASSUME NEW t \in Threads, ~ slow', MaxDelay <= Short,
               pc[t] \in Syncing
        PROVE  claim' = since'[t] /\ since'[t] <= Short
    <3>1. /\ since'[t] = since[t] + 1 /\ since[t] < MaxSyncTicks
          /\ ~ slow /\ ~ (since[t] >= Short)
      BY <2>1 DEF Tick
    <3>2. claim = since[t] /\ since[t] \in Nat
      BY <2>1, <3>1 DEF Inv, TypeOK, DedupInv
    <3>3. claim' = claim + 1
      BY <3>1, <3>2, ServerAssumption DEF Tick, Older
    <3>4. QED
      BY <3>1, <3>2, <3>3, ServerAssumption
  <2>2. QED
    BY <2>1 DEF Inv, DedupInv, Tick
<1>7. QED
  BY <1>1, <1>2, <1>3, <1>4, <1>5, <1>6 DEF Inv

LEMMA RestartStep ==
    ASSUME Inv, Restart
    PROVE  Inv'
<1>1. TypeOK'
  BY ServerAssumption, NoSnapType DEF Inv, TypeOK, Restart
<1>2. LockInv'
  BY ServerAssumption DEF LockInv, Restart
<1>3. WaitInv'
  BY DEF WaitInv, Restart
<1>4. SnapInv'
  BY DEF Inv, TypeOK, SnapInv, NoSnap, Restart
<1>5. ClaimInv'
  BY DEF ClaimInv, Restart
<1>6. DedupInv'
  BY DEF DedupInv, Restart
<1>7. QED
  BY <1>1, <1>2, <1>3, <1>4, <1>5, <1>6 DEF Inv

LEMMA LoseStoreStep ==
    ASSUME Inv, LoseStore
    PROVE  Inv'
<1>1. TypeOK'
  BY ServerAssumption DEF Inv, TypeOK, LoseStore
<1>2. LockInv'
  BY DEF Inv, LockInv, LoseStore
<1>3. WaitInv'
  BY DEF WaitInv, LoseStore
<1>4. SnapInv'
  BY DEF Inv, SnapInv, LoseStore
<1>5. ClaimInv'
  BY DEF Inv, ClaimInv, LoseStore
<1>6. DedupInv'
  BY DEF DedupInv, LoseStore
<1>7. QED
  BY <1>1, <1>2, <1>3, <1>4, <1>5, <1>6 DEF Inv

LEMMA NextStep == ASSUME Inv, [Next]_vars PROVE Inv'
<1>1. ASSUME NEW t \in Threads, Begin(t) \/ Step(t) \/ SyncRaise(t) PROVE Inv'
  BY <1>1, BeginStep, SkipStep, ClaimStep, SyncLockStep, SyncSnapshotStep,
     SyncCommitStep, SyncReturnStep, SyncRaiseStep, ReleaseStep, SetIntervalStep,
     SearchStep
     DEF Step
<1>2. CASE UNCHANGED vars
  BY <1>2 DEF vars, Inv, TypeOK, LockInv, WaitInv, SnapInv, ClaimInv, DedupInv
<1>3. QED
  BY <1>1, <1>2, UpstreamCommitStep, TickStep, RestartStep, LoseStoreStep DEF Next

-----------------------------------------------------------------------------
(* What the program promises *)

\* At every step a claim is backed by a commit or by a running sync, the lock
\* has one holder, and no snapshot is older than the store it is about to
\* replace (server.py:59-74, 125-144, vectors.py:128-129).
THEOREM Invariance == Spec => []Inv
<1>1. Init => Inv
  BY InitInv
<1>2. Inv /\ [Next]_vars => Inv'
  BY NextStep
<1>3. QED
  BY <1>1, <1>2, PTL DEF Spec

\* The ages of claims, calls and snapshots stay where no comparison of
\* _claim_sync confuses them (server.py:59-74).
THEOREM TypeCorrectness == Spec => []TypeOK
BY Invariance, PTL DEF Inv

\* A claim that outlives every running sync stands for one that happened
\* (server.py:125-132).
THEOREM ClaimsAreHonest == Spec => []FreshClaimMeansSynced
<1>1. Inv => FreshClaimMeansSynced
  BY DEF Inv, ClaimInv, FreshClaimMeansSynced
<1>2. QED
  BY <1>1, Invariance, PTL

\* Unless a sync outlasts the shorter interval, or a caller waits longer than
\* that for the state lock, nobody queues a second one
\* (server.py:59-74).
THEOREM SyncsAreNotQueued ==
    ASSUME MaxDelay <= Short PROVE Spec => []DedupUnlessSlow
<1>1. ASSUME Inv PROVE DedupUnlessSlow
  <2> DEFINE S == {t \in Threads : pc[t] \in Syncing}
  <2>1. CASE slow
    BY <2>1 DEF DedupUnlessSlow
  <2>2. CASE ~ slow /\ S = {}
    BY <2>2, FS_EmptySet DEF DedupUnlessSlow, DedupIsExact
  <2>3. CASE ~ slow /\ S # {}
    <3>1. PICK t \in Threads : S = {t}
      BY <1>1, <2>3, MaxDelay <= Short DEF Inv, DedupInv
    <3>2. Cardinality(S) = 1
      BY <3>1, FS_Singleton
    <3>3. QED
      BY <3>2 DEF DedupUnlessSlow, DedupIsExact
  <2>4. QED
    BY <2>1, <2>2, <2>3, <1>1 DEF Inv, TypeOK
<1>2. QED
  BY <1>1, Invariance, PTL

\* Overlapping syncs of one process never put an older revision back
\* (vectors.py:128-129).
THEOREM NoSyncGoesBack == Spec => StoreNeverGoesBack
<1> DEFINE Kept == stored # None /\ stored' # None => stored <= stored'
<1>1. Inv /\ [Next]_vars => [Kept]_vars
  <2> SUFFICES ASSUME Inv, [Next]_vars PROVE Kept
    OBVIOUS
  <2>1. ASSUME NEW t \in Threads, SyncCommit(t) PROVE Kept
    BY <2>1 DEF Inv, SnapInv, SyncCommit, Goto
  <2>2. CASE LoseStore
    BY <2>2 DEF LoseStore
  <2>3. CASE UNCHANGED stored
    BY <2>3, ServerAssumption DEF Inv, TypeOK
  <2>4. QED
    BY <2>1, <2>2, <2>3
       DEF Next, Step, vars, Begin, Skip, Claim, SyncLock, SyncSnapshot, SyncReturn,
           SyncRaise, Release, SetInterval, Search, UpstreamCommit, Tick, Restart
<1>2. QED
  BY <1>1, Invariance, PTL DEF Spec, StoreNeverGoesBack
===============================================================================
