---------------------------- MODULE VectorsProofs ----------------------------
(* Proofs about Vectors, for every value of its constants. *)
EXTENDS Vectors, TLAPS

-----------------------------------------------------------------------------
(* Data lemmas *)

\* One more commit keeps the earlier contents and adds its own at the end.
LEMMA AppendHistory ==
    ASSUME history \in Seq(Commit), NEW c \in Commit, history' = Append(history, c)
    PROVE  /\ history' \in Seq(Commit)
           /\ Latest' = Latest + 1
           /\ \A i \in 1 .. Latest : history'[i] = history[i]
           /\ history'[Latest + 1] = c
BY DEF Latest

LEMMA HistoryElements ==
    ASSUME history \in Seq(Commit), NEW i \in 1 .. Latest
    PROVE  /\ history[i] \in Commit
           /\ history[i].rows \in Rows
           /\ history[i].by \in Procs \cup {User}
           /\ history[i].rev \in Nat
<1>1. history[i] \in Commit
    BY DEF Latest
<1> QED BY <1>1 DEF Commit

\* What sync() writes is typed when its snapshot and the stored rows are.
LEMMA ApplyType ==
    ASSUME NEW rows \in Rows, NEW chunks \in Sources, NEW stored \in Rows
    PROVE  Apply(rows, chunks, stored) \in Rows
<1> SUFFICES ASSUME NEW r \in Rowids
             PROVE  Apply(rows, chunks, stored)[r] \in Row \cup {NoRow}
    BY DEF Apply, Rows
<1>1. CASE r \in Todo(chunks, stored)
    BY <1>1, r \in Live(chunks), chunks[r] \in Texts DEF Apply, Todo, Live, Sources, Row, RowOf
<1>2. CASE r \notin Todo(chunks, stored)
    BY <1>2 DEF Apply, Rows
<1> QED BY <1>1, <1>2

\* A sync that finds the rows it selected leaves those of its snapshot.
LEMMA ApplyFresh ==
    ASSUME NEW rows \in Rows, NEW chunks \in Sources,
           Consistent(rows)
    PROVE  Apply(rows, chunks, rows) = Fresh(chunks)
<1> SUFFICES ASSUME NEW r \in Rowids
             PROVE  Apply(rows, chunks, rows)[r] = Fresh(chunks)[r]
    BY DEF Apply, Fresh
<1>1. CASE r \in Todo(chunks, rows)
    BY <1>1 DEF Apply, Fresh, Todo, Live
<1>2. CASE r \notin Live(chunks)
    BY <1>2 DEF Apply, Fresh, Todo, Live, Stale, Indexed
<1>3. CASE r \in Live(chunks) /\ r \notin Todo(chunks, rows)
    <2>1. rows[r] # NoRow /\ rows[r].hash = chunks[r] /\ chunks[r] \in Texts
        BY <1>3 DEF Todo, Live, Indexed, Sources
    <2>2. rows[r] = RowOf(chunks[r])
        BY <2>1 DEF Rows, Row, Indexed, Consistent, RowOf
    <2> QED BY <1>3, <2>1, <2>2 DEF Apply, Fresh, Stale, Live
<1> QED BY <1>1, <1>2, <1>3

\* What Apply makes of consistent rows is consistent.
LEMMA ApplyConsistent ==
    ASSUME NEW rows \in Rows, NEW chunks \in Sources, NEW stored \in Rows, Consistent(rows)
    PROVE  Consistent(Apply(rows, chunks, stored))
<1> SUFFICES ASSUME NEW r \in Indexed(Apply(rows, chunks, stored))
             PROVE  LET row == Apply(rows, chunks, stored)[r]
                    IN  row.hash \in Texts => row.vec = row.hash
    BY DEF Consistent
<1>1. CASE r \in Todo(chunks, stored)
    BY <1>1 DEF Apply, Todo, Live, Indexed, RowOf
<1>2. CASE r \notin Todo(chunks, stored)
    BY <1>2 DEF Apply, Indexed, Consistent
<1> QED BY <1>1, <1>2

LEMMA NoJobType == NoJob \in JobType
BY DEF NoJob, JobType, Sources

\* Setting one local variable of a call to a value of its type keeps the type.
LEMMA JobSnap ==
    ASSUME NEW f \in [Threads -> JobType], NEW t \in Threads, NEW s \in Sources
    PROVE  [f EXCEPT ![t].snap = s] \in [Threads -> JobType]
BY DEF JobType

LEMMA JobHits ==
    ASSUME NEW f \in [Threads -> JobType], NEW t \in Threads,
           NEW h \in SUBSET (Rowids \X Texts)
    PROVE  [f EXCEPT ![t].hits = h] \in [Threads -> JobType]
BY DEF JobType

LEMMA JobNumber ==
    ASSUME NEW f \in [Threads -> JobType], NEW t \in Threads, NEW n \in Nat
    PROVE  /\ [f EXCEPT ![t].rev = n] \in [Threads -> JobType]
           /\ [f EXCEPT ![t].at = n] \in [Threads -> JobType]
           /\ [f EXCEPT ![t].mine = n] \in [Threads -> JobType]
<1>1. [f EXCEPT ![t].rev = n] \in [Threads -> JobType]
    BY DEF JobType
<1>2. [f EXCEPT ![t].at = n] \in [Threads -> JobType]
    BY DEF JobType
<1>3. [f EXCEPT ![t].mine = n] \in [Threads -> JobType]
    BY DEF JobType
<1> QED BY <1>1, <1>2, <1>3

-----------------------------------------------------------------------------
(* The initial states *)

LEMMA InitIInv == Init => IInv
<1> SUFFICES ASSUME Init PROVE IInv
    OBVIOUS
<1> USE VectorsAssumption
<1>1. PICK rows \in LegacyRows : history = <<[rows |-> rows, by |-> User, rev |-> 0]>>
    BY DEF Init
<1>2. rows \in Rows
    BY DEF LegacyRows, Rows, Row
<1>3. history \in Seq(Commit) /\ Latest = 1 /\ history[1].rows = rows
      /\ history[1].by = User /\ history[1].rev = 0
    BY <1>1, <1>2 DEF Latest, Commit
<1>4. TypeOK
    <2>1. job \in [Threads -> JobType]
        BY NoJobType DEF Init
    <2> QED BY <1>3, <2>1 DEF Init, TypeOK, NoEntry
<1>5. LockInv
    BY DEF Init, LockInv, SyncSteps
<1>6. HistoryInv
    <2>1. HistoryConsistent
        BY <1>3, <1>2, VectorsAssumption DEF HistoryConsistent, Consistent, LegacyRows, Indexed
    <2>2. CommitsFollowSnapshots
        BY <1>3 DEF CommitsFollowSnapshots
    <2> QED BY <1>3, <2>1, <2>2 DEF HistoryInv, Init
<1>7. CacheInv
    BY DEF Init, CacheInv, CacheServesOwnSyncs, Current, NoEntry
<1>8. SearchInv /\ SyncInv
    BY DEF Init, SearchInv, Searching, SyncInv, Syncing, ExactFor
<1> QED BY <1>4, <1>5, <1>6, <1>7, <1>8 DEF IInv

-----------------------------------------------------------------------------
(* Types are preserved.  A version never passes the number of commits because *)
(* it trails the fence, which every bump moves forward.                       *)

\* The commit a sync appends is typed.
LEMMA SyncCommitTyped ==
    ASSUME IInv, NEW t \in Threads, SyncCommit(t)
    PROVE  \E c \in Commit :
             /\ history' = Append(history, c)
             /\ c.rows = Apply(Store, job[t].snap, history[job[t].at].rows)
             /\ c.by = ProcOf[t]
             /\ c.rev = job[t].rev
<1> DEFINE c == [rows |-> Apply(Store, job[t].snap, history[job[t].at].rows),
                 by |-> ProcOf[t], rev |-> job[t].rev]
<1>1. history \in Seq(Commit) /\ Latest \in 1 .. Latest /\ job[t].at \in 1 .. Latest
    BY DEF IInv, TypeOK, SyncInv, Syncing, SyncCommit, Goto, Latest
<1>2. Store \in Rows /\ history[job[t].at].rows \in Rows
    BY <1>1, HistoryElements DEF Store
<1>3. job[t].snap \in Sources /\ job[t].rev \in Nat
    BY DEF IInv, TypeOK, JobType
<1>4. c.rows \in Rows
    BY <1>2, <1>3, ApplyType
<1>5. c \in Commit
    BY <1>3, <1>4, VectorsAssumption DEF Commit
<1>6. history' = Append(history, c)
    BY DEF SyncCommit
<1> QED BY <1>5, <1>6

\* Appending a commit leaves every type as it was.
LEMMA AppendTypeOK ==
    ASSUME TypeOK, NEW c \in Commit, history' = Append(history, c),
           UNCHANGED <<source, revision, process>>,
           pc' \in [Threads -> {"idle"} \cup SyncSteps \cup SearchSteps],
           job' \in [Threads -> JobType]
    PROVE  TypeOK'
<1>1. history' \in Seq(Commit) /\ Latest' = Latest + 1 /\ Latest \in Nat \ {0}
    BY AppendHistory DEF TypeOK
<1>2. matrixVersion' \in [Procs -> 0 .. Latest'] /\ fence' \in [Procs -> 1 .. Latest']
    BY <1>1 DEF TypeOK, process
<1>3. matrixCache' \in [Procs -> [label : 0 .. Latest', at : 0 .. Latest']]
    BY <1>1 DEF TypeOK, process
<1> QED BY <1>1, <1>2, <1>3 DEF TypeOK, process

LEMMA TypePreserved == IInv /\ [Next]_vars => TypeOK'
<1> SUFFICES ASSUME IInv, [Next]_vars PROVE TypeOK'
    OBVIOUS
<1> USE VectorsAssumption
<1>0. TypeOK /\ Latest \in Nat \ {0} /\ history \in Seq(Commit)
    BY DEF IInv, TypeOK
<1>1. CASE UpstreamCommit
    BY <1>0, <1>1 DEF TypeOK, UpstreamCommit, process, Latest
<1>2. ASSUME NEW t \in Threads, SyncNext(t) PROVE TypeOK'
    <2>1. CASE SyncLock(t)
        BY <1>0, <2>1 DEF TypeOK, SyncLock, Goto, SyncSteps, Latest
    <2>2. CASE SyncSnapshot(t)
        <3>1. job' \in [Threads -> JobType]
            <4>1. source \in Sources /\ revision \in Nat /\ job \in [Threads -> JobType]
                BY <1>0 DEF TypeOK
            <4>2. [job EXCEPT ![t].snap = source] \in [Threads -> JobType]
                BY <4>1, JobSnap
            <4>3. [[job EXCEPT ![t].snap = source] EXCEPT ![t].rev = revision]
                    \in [Threads -> JobType]
                BY <4>1, <4>2, JobNumber
            <4> QED BY <2>2, <4>3 DEF SyncSnapshot
        <3> QED BY <1>0, <2>2, <3>1 DEF TypeOK, SyncSnapshot, Goto, SyncSteps, process, Latest
    <2>3. CASE SyncRead(t)
        <3>1. job' \in [Threads -> JobType]
            BY <1>0, <2>3, JobNumber DEF TypeOK, SyncRead
        <3> QED BY <1>0, <2>3, <3>1 DEF TypeOK, SyncRead, Goto, SyncSteps, process, Latest
    <2>4. CASE SyncCommit(t)
        <3>1. PICK c \in Commit : history' = Append(history, c)
            BY <2>4, SyncCommitTyped
        <3>2. job' \in [Threads -> JobType]
            <4>1. PICK n \in Nat : n = Latest + 1
                BY <1>0
            <4>2. job \in [Threads -> JobType]
                BY <1>0 DEF TypeOK
            <4>3. [job EXCEPT ![t].mine = n] \in [Threads -> JobType]
                BY <4>2, JobNumber
            <4> QED BY <2>4, <4>1, <4>3 DEF SyncCommit
        <3>3. pc' \in [Threads -> {"idle"} \cup SyncSteps \cup SearchSteps]
            BY <1>0, <2>4 DEF TypeOK, SyncCommit, Goto, SyncSteps
        <3> QED BY <1>0, <2>4, <3>1, <3>2, <3>3, AppendTypeOK DEF SyncCommit
    <2>5. CASE SyncBump(t)
        <3>1. /\ job[t].mine \in 1 .. Latest
              /\ matrixVersion[ProcOf[t]] + 1 \in 0 .. Latest
            BY <1>0, <2>5 DEF IInv, TypeOK, SyncInv, Syncing, CacheInv, SyncBump, Goto, JobType
        <3>2. matrixVersion' \in [Procs -> 0 .. Latest] /\ fence' \in [Procs -> 1 .. Latest]
            BY <1>0, <2>5, <3>1 DEF TypeOK, SyncBump
        <3> QED BY <1>0, <2>5, <3>2 DEF TypeOK, SyncBump, Goto, SyncSteps, Latest
    <2>6. CASE SyncReturn(t) \/ SyncFail(t)
        <3>1. Leave(t)
            BY <2>6 DEF SyncReturn, SyncFail
        <3> QED BY <1>0, <3>1, NoJobType DEF TypeOK, Leave, Latest
    <2> QED BY <1>2, <2>1, <2>2, <2>3, <2>4, <2>5, <2>6 DEF SyncNext
<1>3. ASSUME NEW t \in Threads, SearchNext(t) PROVE TypeOK'
    <2>1. CASE SearchHit(t)
        <3>1. job' \in [Threads -> JobType]
            <4> DEFINE p == ProcOf[t]
            <4>1. /\ matrixCache[p].at \in Nat /\ matrixVersion[p] \in Nat
                  /\ fence[p] \in Nat /\ job \in [Threads -> JobType]
                BY <1>0 DEF TypeOK
            <4>2. [NoJob EXCEPT !.at = matrixCache[p].at, !.label = matrixVersion[p],
                                !.floor = fence[p]] \in JobType
                BY <4>1 DEF NoJob, JobType, Sources
            <4> QED BY <2>1, <4>1, <4>2 DEF SearchHit
        <3> QED BY <1>0, <2>1, <3>1 DEF TypeOK, SearchHit, Goto, SearchSteps, process, Latest
    <2>2. CASE SearchMiss(t)
        <3>1. job' \in [Threads -> JobType]
            <4> DEFINE p == ProcOf[t]
            <4>1. /\ matrixVersion[p] \in Nat /\ fence[p] \in Nat
                  /\ job \in [Threads -> JobType]
                BY <1>0 DEF TypeOK
            <4>2. [NoJob EXCEPT !.label = matrixVersion[p], !.floor = fence[p]] \in JobType
                BY <4>1 DEF NoJob, JobType, Sources
            <4> QED BY <2>2, <4>1, <4>2 DEF SearchMiss
        <3> QED BY <1>0, <2>2, <3>1 DEF TypeOK, SearchMiss, Goto, SearchSteps, process, Latest
    <2>3. CASE SearchLoad(t)
        <3>1. job' \in [Threads -> JobType]
            BY <1>0, <2>3, JobNumber DEF TypeOK, SearchLoad
        <3> QED BY <1>0, <2>3, <3>1 DEF TypeOK, SearchLoad, Goto, SearchSteps, process, Latest
    <2>4. CASE SearchPut(t)
        <3>1. job[t].label \in 0 .. Latest /\ job[t].at \in 0 .. Latest
            BY <1>0, <2>4 DEF IInv, TypeOK, SearchInv, Searching, SearchPut, Goto, JobType
        <3>2. matrixCache' \in [Procs -> [label : 0 .. Latest, at : 0 .. Latest]]
            BY <1>0, <2>4, <3>1 DEF TypeOK, SearchPut
        <3> QED BY <1>0, <2>4, <3>2 DEF TypeOK, SearchPut, Goto, SearchSteps, Latest
    <2>5. CASE SearchMask(t)
        <3> DEFINE rows == history[job[t].at].rows
                   kept == Indexed(rows) \cap Live(source)
        <3>1. PICK hits \in TopHits(rows, kept) : job' = [job EXCEPT ![t].hits = hits]
            BY <2>5 DEF SearchMask
        <3>2. job[t].at \in 1 .. Latest
            BY <1>0, <2>5 DEF IInv, SearchInv, Searching, SearchMask, Goto
        <3>3. history[job[t].at].rows \in Rows
            BY <1>0, <3>2, HistoryElements
        <3>4. hits \in SUBSET (Rowids \X Texts)
            <4>1. PICK best \in SUBSET kept : hits = {<<r, rows[r].vec>> : r \in best}
                BY <3>1 DEF TopHits
            <4>2. \A r \in kept : r \in Rowids /\ rows[r].vec \in Texts
                BY <3>3 DEF Indexed, Rows, Row
            <4> HIDE DEF rows, kept
            <4> QED BY <4>1, <4>2
        <3>5. job' \in [Threads -> JobType]
            BY <1>0, <3>1, <3>4, JobHits DEF TypeOK
        <3> QED BY <1>0, <2>5, <3>5 DEF TypeOK, SearchMask, Goto, SearchSteps, process, Latest
    <2>6. CASE SearchReturn(t)
        BY <1>0, <2>6, NoJobType DEF TypeOK, SearchReturn, Goto, process, Latest
    <2> QED BY <1>3, <2>1, <2>2, <2>3, <2>4, <2>5, <2>6 DEF SearchNext
<1>4. ASSUME NEW p \in Procs, Crash(p) PROVE TypeOK'
    <2>1. fence' \in [Procs -> 1 .. Latest] /\ matrixVersion' \in [Procs -> 0 .. Latest]
        BY <1>0, <1>4 DEF TypeOK, Crash
    <2>2. matrixCache' \in [Procs -> [label : 0 .. Latest, at : 0 .. Latest]]
        BY <1>0, <1>4 DEF TypeOK, Crash, NoEntry
    <2>3. job' \in [Threads -> JobType]
        BY <1>0, <1>4, NoJobType DEF TypeOK, Crash
    <2>4. pc' \in [Threads -> {"idle"} \cup SyncSteps \cup SearchSteps]
        BY <1>0, <1>4 DEF TypeOK, Crash
    <2> QED BY <1>0, <1>4, <2>1, <2>2, <2>3, <2>4 DEF TypeOK, Crash, Latest
<1>5. CASE DeleteStore
    <2> DEFINE c == [rows |-> Empty, by |-> User, rev |-> 0]
    <2>1. c \in Commit
        BY DEF Commit, Empty, Rows
    <2>2. history' = Append(history, c)
        BY <1>5 DEF DeleteStore
    <2> HIDE DEF c
    <2> QED BY <1>0, <1>5, <2>1, <2>2, AppendTypeOK DEF DeleteStore, TypeOK, process
<1>6. CASE UNCHANGED vars
    BY <1>0, <1>6 DEF TypeOK, vars, Latest
<1> QED BY <1>1, <1>2, <1>3, <1>4, <1>5, <1>6 DEF Next

-----------------------------------------------------------------------------
(* The lock *)

\* At most one thread of a process is inside sync().
LEMMA OneSyncer ==
    ASSUME LockInv, NEW t \in Threads, NEW u \in Threads, ProcOf[t] = ProcOf[u],
           pc[t] \in SyncSteps, pc[u] \in SyncSteps
    PROVE  t = u
BY DEF LockInv

LEMMA LockPreserved == IInv /\ [Next]_vars => LockInv'
<1> SUFFICES ASSUME IInv, [Next]_vars PROVE LockInv'
    OBVIOUS
<1> USE VectorsAssumption
<1>0. LockInv /\ pc \in [Threads -> {"idle"} \cup SyncSteps \cup SearchSteps]
      /\ syncLock \in [Procs -> Threads \cup {NoThread}]
    BY DEF IInv, TypeOK
<1>1. CASE UpstreamCommit
    BY <1>0, <1>1 DEF LockInv, UpstreamCommit, process
<1>2. ASSUME NEW t \in Threads, SyncNext(t) PROVE LockInv'
    <2>1. CASE SyncLock(t)
        BY <1>0, <2>1 DEF LockInv, SyncLock, Goto, SyncSteps
    <2>2. CASE SyncSnapshot(t) \/ SyncRead(t) \/ SyncCommit(t) \/ SyncBump(t)
        <3>1. /\ pc[t] \in SyncSteps /\ pc'[t] \in SyncSteps
              /\ \A u \in Threads \ {t} : pc'[u] = pc[u]
              /\ syncLock' = syncLock
            BY <1>0, <2>2 DEF SyncSnapshot, SyncRead, SyncCommit, SyncBump, Goto,
                              SyncSteps, process
        <3> QED BY <1>0, <3>1 DEF LockInv
    <2>3. CASE SyncReturn(t) \/ SyncFail(t)
        <3>1. pc[t] \in SyncSteps /\ Leave(t)
            BY <2>3 DEF SyncReturn, SyncFail, SyncSteps
        <3>2. /\ pc'[t] \notin SyncSteps /\ \A u \in Threads \ {t} : pc'[u] = pc[u]
              /\ syncLock' = [syncLock EXCEPT ![ProcOf[t]] = NoThread]
            BY <1>0, <3>1 DEF Leave, SyncSteps
        <3> QED BY <1>0, <3>1, <3>2 DEF LockInv
    <2> QED BY <1>2, <2>1, <2>2, <2>3 DEF SyncNext
<1>3. ASSUME NEW t \in Threads, SearchNext(t) PROVE LockInv'
    <2>1. /\ pc[t] \notin SyncSteps /\ pc'[t] \notin SyncSteps
          /\ \A u \in Threads \ {t} : pc'[u] = pc[u]
          /\ syncLock' = syncLock
        BY <1>0, <1>3 DEF SearchNext, SearchHit, SearchMiss, SearchLoad, SearchPut,
                          SearchMask, SearchReturn, Goto, SyncSteps, process
    <2> QED BY <1>0, <2>1 DEF LockInv
<1>4. ASSUME NEW p \in Procs, Crash(p) PROVE LockInv'
    BY <1>0, <1>4 DEF LockInv, Crash, SyncSteps
<1>5. CASE DeleteStore
    BY <1>0, <1>5 DEF LockInv, DeleteStore, process
<1>6. CASE UNCHANGED vars
    BY <1>0, <1>6 DEF LockInv, vars
<1> QED BY <1>1, <1>2, <1>3, <1>4, <1>5, <1>6 DEF Next

-----------------------------------------------------------------------------
(* The contents *)

\* Only a sync's commit and the deletion of the store touch the history.
LEMMA QuietHistory ==
    ASSUME [Next]_vars, ~ \E t \in Threads : SyncCommit(t), ~ DeleteStore
    PROVE  history' = history
BY DEF Next, vars, UpstreamCommit, SyncNext, SearchNext, Crash, SyncLock, SyncSnapshot,
       SyncRead, SyncBump, SyncReturn, SyncFail, Leave, SearchHit, SearchMiss,
       SearchLoad, SearchPut, SearchMask, SearchReturn

\* Revisions only grow.
LEMMA RevisionGrows ==
    ASSUME TypeOK, [Next]_vars
    PROVE  revision \in Nat /\ revision' \in Nat /\ revision <= revision'
<1>1. revision \in Nat
    BY DEF TypeOK
<1>2. CASE UpstreamCommit
    BY <1>1, <1>2 DEF UpstreamCommit
<1>3. CASE ~ UpstreamCommit
    <2>1. revision' = revision
        BY <1>3 DEF Next, vars, SyncNext, SearchNext, Crash, SyncLock, SyncSnapshot,
            SyncRead, SyncCommit, SyncBump, SyncReturn, SyncFail, Leave, SearchHit,
            SearchMiss, SearchLoad, SearchPut, SearchMask, SearchReturn, DeleteStore
    <2> QED BY <1>1, <2>1
<1> QED BY <1>2, <1>3

LEMMA HistoryPreserved == IInv /\ [Next]_vars => HistoryInv'
<1> SUFFICES ASSUME IInv, [Next]_vars PROVE HistoryInv'
    OBVIOUS
<1> USE VectorsAssumption
<1>0. TypeOK /\ HistoryInv /\ SyncInv /\ Latest \in Nat \ {0} /\ history \in Seq(Commit)
    BY DEF IInv, TypeOK
<1>1. revision \in Nat /\ revision' \in Nat /\ revision <= revision'
    BY <1>0, RevisionGrows
<1>2. \A i \in 1 .. Latest : history[i].rev \in Nat
    BY <1>0, HistoryElements
<1>3. ASSUME NEW t \in Threads, SyncCommit(t) PROVE HistoryInv'
    <2>1. PICK c \in Commit :
             /\ history' = Append(history, c)
             /\ c.rows = Apply(Store, job[t].snap, history[job[t].at].rows)
             /\ c.by = ProcOf[t]
             /\ c.rev = job[t].rev
        BY <1>3, SyncCommitTyped
    <2>2. /\ Latest' = Latest + 1
          /\ \A i \in 1 .. Latest : history'[i] = history[i]
          /\ history'[Latest + 1] = c
        BY <1>0, <2>1, AppendHistory
    <2>3. HistoryConsistent'
        <3>1. job[t].snap \in Sources /\ job[t].at \in 1 .. Latest
            BY <1>0, <1>3 DEF TypeOK, JobType, SyncInv, Syncing, SyncCommit, Goto
        <3>2. Store \in Rows /\ history[job[t].at].rows \in Rows
            BY <1>0, <3>1, HistoryElements DEF Store
        <3>3. Consistent(Store)
            BY <1>0 DEF HistoryInv, HistoryConsistent, Store
        <3>4. Consistent(c.rows)
            BY <2>1, <3>1, <3>2, <3>3, ApplyConsistent
        <3> QED BY <1>0, <2>2, <3>4 DEF HistoryInv, HistoryConsistent
    <2>4. CommitsFollowSnapshots'
        <3>1. \A i \in 1 .. Latest : history[i].by = ProcOf[t] => history[i].rev <= job[t].rev
            BY <1>0, <1>3 DEF SyncInv, Syncing, SyncCommit, Goto
        <3> SUFFICES ASSUME NEW i \in 1 .. Latest + 1, NEW k \in 1 .. Latest + 1, i < k,
                            history'[i].by = history'[k].by, history'[i].by \in Procs
                     PROVE  history'[i].rev <= history'[k].rev
            BY <2>2 DEF CommitsFollowSnapshots
        <3>2. i \in 1 .. Latest /\ history'[i] = history[i]
            BY <1>0, <2>2
        <3>3. CASE k = Latest + 1
            BY <2>1, <2>2, <3>1, <3>2, <3>3
        <3>4. CASE k \in 1 .. Latest
            BY <1>0, <2>2, <3>2, <3>4 DEF HistoryInv, CommitsFollowSnapshots
        <3> QED BY <1>0, <3>3, <3>4
    <2>5. \A i \in 1 .. Latest' : history'[i].rev <= revision'
        <3>1. job[t].rev <= revision /\ revision' = revision
            BY <1>0, <1>3 DEF SyncInv, Syncing, SyncCommit, Goto
        <3> SUFFICES ASSUME NEW i \in 1 .. Latest + 1 PROVE history'[i].rev <= revision'
            BY <2>2
        <3>2. CASE i = Latest + 1
            BY <2>1, <2>2, <3>1, <3>2
        <3>3. CASE i \in 1 .. Latest
            BY <1>0, <2>2, <3>1, <3>3 DEF HistoryInv
        <3> QED BY <1>0, <3>2, <3>3
    <2> QED BY <2>3, <2>4, <2>5 DEF HistoryInv
<1>4. CASE DeleteStore
    <2> DEFINE c == [rows |-> Empty, by |-> User, rev |-> 0]
    <2>1. c \in Commit /\ c.by \notin Procs /\ c.rev = 0 /\ Indexed(c.rows) = {}
        BY DEF Commit, Empty, Rows, Indexed
    <2>2. history' = Append(history, c) /\ revision' = revision
        BY <1>4 DEF DeleteStore
    <2> HIDE DEF c
    <2>3. /\ Latest' = Latest + 1
          /\ \A i \in 1 .. Latest : history'[i] = history[i]
          /\ history'[Latest + 1] = c
        BY <1>0, <2>1, <2>2, AppendHistory
    <2>4. HistoryConsistent'
        BY <1>0, <2>1, <2>3 DEF HistoryInv, HistoryConsistent, Consistent
    <2>5. CommitsFollowSnapshots'
        BY <1>0, <2>1, <2>3 DEF HistoryInv, CommitsFollowSnapshots
    <2>6. ASSUME NEW i \in 1 .. Latest + 1 PROVE history'[i].rev <= revision'
        <3>1. CASE i = Latest + 1
            BY <1>1, <2>1, <2>3, <3>1
        <3>2. CASE i \in 1 .. Latest
            BY <1>0, <2>2, <2>3, <3>2 DEF HistoryInv
        <3> QED BY <1>0, <3>1, <3>2
    <2> QED BY <2>3, <2>4, <2>5, <2>6 DEF HistoryInv
<1>5. CASE ~ (\E t \in Threads : SyncCommit(t)) /\ ~ DeleteStore
    <2>1. history' = history
        BY <1>5, QuietHistory
    <2>2. HistoryConsistent' /\ CommitsFollowSnapshots'
        BY <1>0, <2>1 DEF HistoryInv, HistoryConsistent, CommitsFollowSnapshots, Latest
    <2>3. \A i \in 1 .. Latest' : history'[i].rev <= revision'
        BY <1>0, <1>1, <1>2, <2>1 DEF HistoryInv, Latest
    <2> QED BY <2>2, <2>3 DEF HistoryInv
<1> QED BY <1>3, <1>4, <1>5

-----------------------------------------------------------------------------
(* How a step moves the shared state and the other threads *)

\* The history only grows, by one commit at a time.
LEMMA HistoryGrows ==
    ASSUME IInv, [Next]_vars
    PROVE  /\ Latest \in Nat \ {0} /\ Latest' \in Nat \ {0} /\ Latest <= Latest'
           /\ \A i \in 1 .. Latest : history'[i] = history[i]
           /\ \A i \in Latest + 1 .. Latest' :
                 \/ history'[i].by \notin Procs
                 \/ \E t \in Threads : SyncCommit(t) /\ history'[i].by = ProcOf[t]
<1> USE VectorsAssumption
<1>0. Latest \in Nat \ {0} /\ history \in Seq(Commit)
    BY DEF IInv, TypeOK
<1>1. ASSUME NEW t \in Threads, SyncCommit(t)
      PROVE  /\ Latest' = Latest + 1
             /\ \A i \in 1 .. Latest : history'[i] = history[i]
             /\ history'[Latest + 1].by = ProcOf[t]
    <2>1. PICK c \in Commit : history' = Append(history, c) /\ c.by = ProcOf[t]
        BY <1>1, SyncCommitTyped
    <2> QED BY <1>0, <2>1, AppendHistory
<1>2. ASSUME DeleteStore
      PROVE  /\ Latest' = Latest + 1
             /\ \A i \in 1 .. Latest : history'[i] = history[i]
             /\ history'[Latest + 1].by \notin Procs
    <2> DEFINE c == [rows |-> Empty, by |-> User, rev |-> 0]
    <2>1. c \in Commit /\ c.by \notin Procs /\ history' = Append(history, c)
        BY <1>2 DEF DeleteStore, Commit, Empty, Rows
    <2> HIDE DEF c
    <2> QED BY <1>0, <2>1, AppendHistory
<1>3. CASE ~ (\E t \in Threads : SyncCommit(t)) /\ ~ DeleteStore
    BY <1>0, <1>3, QuietHistory DEF Latest
<1>4. CASE \E t \in Threads : SyncCommit(t)
    BY <1>0, <1>1, <1>4
<1>5. CASE DeleteStore
    BY <1>0, <1>2, <1>5
<1> QED BY <1>3, <1>4, <1>5

\* A step of one thread leaves the call of another alone.
LEMMA OthersStay ==
    ASSUME TypeOK, NEW t \in Threads, NEW u \in Threads, t # u,
           SyncNext(t) \/ SearchNext(t)
    PROVE  pc'[u] = pc[u] /\ job'[u] = job[u]
BY DEF TypeOK, SyncNext, SearchNext, SyncLock, SyncSnapshot, SyncRead, SyncCommit,
       SyncBump, SyncReturn, SyncFail, Leave, SearchHit, SearchMiss, SearchLoad,
       SearchPut, SearchMask, SearchReturn, Goto

\* A bump moves the version and the fence of its process forward, together.
LEMMA BumpMoves ==
    ASSUME IInv, NEW t \in Threads, SyncBump(t)
    PROVE  LET p == ProcOf[t] IN
           /\ p \in Procs
           /\ matrixVersion[p] \in Nat /\ matrixVersion'[p] = matrixVersion[p] + 1
           /\ fence[p] \in Nat /\ fence[p] < fence'[p] /\ fence'[p] = job[t].mine
           /\ \A q \in Procs \ {p} : /\ matrixVersion'[q] = matrixVersion[q]
                                     /\ fence'[q] = fence[q]
<1>1. ProcOf[t] \in Procs /\ Latest \in Nat
    BY VectorsAssumption DEF IInv, TypeOK
<1>2. /\ matrixVersion \in [Procs -> 0 .. Latest]
      /\ fence \in [Procs -> 1 .. Latest]
    BY DEF IInv, TypeOK
<1>3. fence[ProcOf[t]] < job[t].mine
    BY DEF IInv, SyncInv, Syncing, SyncBump, Goto
<1>4. /\ matrixVersion' = [matrixVersion EXCEPT ![ProcOf[t]] = @ + 1]
      /\ fence' = [fence EXCEPT ![ProcOf[t]] = job[t].mine]
    BY DEF SyncBump
<1> QED BY <1>1, <1>2, <1>3, <1>4

\* Nothing but a bump and a crash moves a version or a fence.
LEMMA VersionsStay ==
    ASSUME [Next]_vars, ~ (\E t \in Threads : SyncBump(t)), ~ (\E p \in Procs : Crash(p))
    PROVE  matrixVersion' = matrixVersion /\ fence' = fence
BY DEF Next, vars, process, UpstreamCommit, SyncNext, SearchNext, SyncLock, SyncSnapshot,
       SyncRead, SyncCommit, SyncReturn, SyncFail, Leave, SearchHit, SearchMiss,
       SearchLoad, SearchPut, SearchMask, SearchReturn, DeleteStore

-----------------------------------------------------------------------------
(* The cache *)

LEMMA CachePreserved == IInv /\ [Next]_vars => CacheInv'
<1> SUFFICES ASSUME IInv, [Next]_vars, NEW p \in Procs
             PROVE  /\ Current(p)' => matrixCache'[p].at >= fence'[p]
                    /\ matrixVersion'[p] <= fence'[p]
                    /\ matrixCache'[p].label <= matrixVersion'[p]
    BY DEF CacheInv, CacheServesOwnSyncs
<1> USE VectorsAssumption
<1>1. /\ Latest \in Nat \ {0}
      /\ matrixVersion \in [Procs -> 0 .. Latest]
      /\ matrixCache \in [Procs -> [label : 0 .. Latest, at : 0 .. Latest]]
      /\ fence \in [Procs -> 1 .. Latest]
    BY DEF IInv, TypeOK
<1>2. /\ Current(p) => matrixCache[p].at >= fence[p]
      /\ matrixVersion[p] <= fence[p]
      /\ matrixCache[p].label <= matrixVersion[p]
    BY DEF IInv, CacheInv, CacheServesOwnSyncs
<1>3. ASSUME NEW t \in Threads, SyncBump(t)
      PROVE  /\ Current(p)' => matrixCache'[p].at >= fence'[p]
             /\ matrixVersion'[p] <= fence'[p]
             /\ matrixCache'[p].label <= matrixVersion'[p]
    <2>1. matrixCache' = matrixCache
        BY <1>3 DEF SyncBump
    <2>2. CASE p = ProcOf[t]
        <3>1. matrixVersion'[p] = matrixVersion[p] + 1 /\ fence[p] < fence'[p]
              /\ fence'[p] \in Nat
            BY <1>3, <2>2, BumpMoves DEF IInv, TypeOK, JobType
        <3>2. matrixVersion[p] \in Nat /\ fence[p] \in Nat /\ matrixCache[p].label \in Nat
            BY <1>1
        <3> QED BY <1>2, <2>1, <3>1, <3>2 DEF Current
    <2>3. CASE p # ProcOf[t]
        <3>1. matrixVersion'[p] = matrixVersion[p] /\ fence'[p] = fence[p]
            BY <1>3, <2>3, BumpMoves
        <3> QED BY <1>2, <2>1, <3>1 DEF Current
    <2> QED BY <2>2, <2>3
<1>4. ASSUME NEW t \in Threads, SearchPut(t)
      PROVE  /\ Current(p)' => matrixCache'[p].at >= fence'[p]
             /\ matrixVersion'[p] <= fence'[p]
             /\ matrixCache'[p].label <= matrixVersion'[p]
    <2>1. matrixVersion' = matrixVersion /\ fence' = fence
        BY <1>4 DEF SearchPut
    <2>2. CASE p = ProcOf[t]
        <3>1. matrixCache'[p] = [label |-> job[t].label, at |-> job[t].at]
            BY <1>1, <1>4, <2>2 DEF SearchPut
        <3>2. /\ job[t].label <= matrixVersion[p]
              /\ job[t].label = matrixVersion[p] => job[t].floor = fence[p]
              /\ job[t].at \in job[t].floor .. Latest
            BY <1>4, <2>2 DEF IInv, SearchInv, Searching, SearchPut, Goto
        <3> QED BY <1>1, <1>2, <2>1, <3>1, <3>2 DEF Current
    <2>3. CASE p # ProcOf[t]
        <3>1. matrixCache'[p] = matrixCache[p]
            BY <1>1, <1>4, <2>3 DEF SearchPut
        <3> QED BY <1>2, <2>1, <3>1 DEF Current
    <2> QED BY <2>2, <2>3
<1>5. ASSUME NEW q \in Procs, Crash(q)
      PROVE  /\ Current(p)' => matrixCache'[p].at >= fence'[p]
             /\ matrixVersion'[p] <= fence'[p]
             /\ matrixCache'[p].label <= matrixVersion'[p]
    <2>1. CASE p = q
        BY <1>1, <1>5, <2>1 DEF Crash, NoEntry, Current
    <2>2. CASE p # q
        <3>1. /\ matrixVersion'[p] = matrixVersion[p] /\ fence'[p] = fence[p]
              /\ matrixCache'[p] = matrixCache[p]
            BY <1>1, <1>5, <2>2 DEF Crash
        <3> QED BY <1>2, <3>1 DEF Current
    <2> QED BY <2>1, <2>2
<1>6. CASE /\ ~ \E t \in Threads : SyncBump(t) \/ SearchPut(t)
           /\ ~ \E q \in Procs : Crash(q)
    <2>1. matrixVersion' = matrixVersion /\ fence' = fence
        BY <1>6, VersionsStay
    <2>2. matrixCache' = matrixCache
        BY <1>6 DEF Next, vars, process, UpstreamCommit, SyncNext, SearchNext, SyncLock,
                    SyncSnapshot, SyncRead, SyncCommit, SyncReturn, SyncFail, Leave,
                    SearchHit, SearchMiss, SearchLoad, SearchMask, SearchReturn, DeleteStore
    <2> QED BY <1>2, <2>1, <2>2 DEF Current
<1> QED BY <1>3, <1>4, <1>5, <1>6

-----------------------------------------------------------------------------
(* The searches *)

\* A search that does not move keeps its part of the invariant.
LEMMA SearchingStays ==
    ASSUME IInv, [Next]_vars, NEW u \in Threads, pc'[u] = pc[u], job'[u] = job[u],
           ~ Crash(ProcOf[u])
    PROVE  Searching(u)'
<1> DEFINE p == ProcOf[u]
<1>1. Searching(u) /\ p \in Procs
    BY VectorsAssumption DEF IInv, SearchInv
<1>2. /\ Latest \in Nat /\ Latest' \in Nat /\ Latest <= Latest'
      /\ matrixVersion[p] \in Nat /\ fence[p] \in Nat
      /\ job[u].label \in Nat /\ job[u].floor \in Nat /\ job[u].at \in Nat
    <2>1. Latest \in Nat /\ Latest' \in Nat /\ Latest <= Latest'
        BY HistoryGrows DEF IInv, TypeOK
    <2>2. matrixVersion[p] \in Nat /\ fence[p] \in Nat
        BY <1>1 DEF IInv, TypeOK
    <2>3. job[u].label \in Nat /\ job[u].floor \in Nat /\ job[u].at \in Nat
        BY DEF IInv, TypeOK, JobType
    <2> QED BY <2>1, <2>2, <2>3
<1>3. \/ matrixVersion'[p] = matrixVersion[p] /\ fence'[p] = fence[p]
      \/ matrixVersion'[p] = matrixVersion[p] + 1
    <2>1. CASE \E t \in Threads : SyncBump(t)
        BY <1>1, <2>1, BumpMoves
    <2>2. ASSUME NEW q \in Procs, Crash(q) PROVE <1>3
        <3>1. p # q
            BY <2>2
        <3> QED BY <1>1, <2>2, <3>1 DEF Crash, IInv, TypeOK
    <2>3. CASE ~ (\E t \in Threads : SyncBump(t)) /\ ~ (\E q \in Procs : Crash(q))
        BY <2>3, VersionsStay
    <2> QED BY <2>1, <2>2, <2>3
<1> HIDE DEF p
<1> QED BY <1>1, <1>2, <1>3 DEF Searching, p

LEMMA SearchPreserved == IInv /\ [Next]_vars => SearchInv'
<1> SUFFICES ASSUME IInv, [Next]_vars, NEW u \in Threads PROVE Searching(u)'
    BY DEF SearchInv
<1> USE VectorsAssumption
<1>0. /\ TypeOK /\ ProcOf[u] \in Procs
      /\ Latest \in Nat \ {0} /\ Latest' \in Nat \ {0} /\ Latest <= Latest'
    BY HistoryGrows DEF IInv
<1>1. CASE pc'[u] \notin {"load", "put", "mask"}
    BY <1>1 DEF Searching
<1>2. ASSUME NEW t \in Threads, SyncNext(t) \/ SearchNext(t), t # u PROVE Searching(u)'
    <2>1. pc'[u] = pc[u] /\ job'[u] = job[u]
        BY <1>0, <1>2, OthersStay
    <2>2. CASE Crash(ProcOf[u])
        BY <1>0, <2>2 DEF Crash, TypeOK, Searching
    <2>3. CASE ~ Crash(ProcOf[u])
        BY <2>1, <2>3, SearchingStays
    <2> QED BY <2>2, <2>3
<1>3. CASE SyncNext(u)
    BY <1>0, <1>1, <1>3 DEF TypeOK, SyncNext, SyncLock, SyncSnapshot, SyncRead, SyncCommit,
                      SyncBump, SyncReturn, SyncFail, Leave, Goto
<1>4. CASE SearchNext(u)
    <2>1. CASE SearchHit(u)
        <3> DEFINE p == ProcOf[u]
        <3>1. /\ job'[u].floor = fence[p] /\ job'[u].at = matrixCache[p].at
              /\ pc'[u] = "mask" /\ history' = history
            BY <1>0, <2>1 DEF TypeOK, SearchHit, Goto, NoJob
        <3>2. fence[p] \in 1 .. Latest /\ matrixCache[p].at \in fence[p] .. Latest
            BY <1>0, <2>1 DEF SearchHit, IInv, CacheInv, CacheServesOwnSyncs, TypeOK
        <3> QED BY <3>1, <3>2 DEF Searching, Latest
    <2>2. CASE SearchMiss(u)
        <3> DEFINE p == ProcOf[u]
        <3>1. /\ job'[u].floor = fence[p] /\ job'[u].label = matrixVersion[p]
              /\ job'[u].hits = {}
              /\ pc'[u] = "load" /\ history' = history
              /\ matrixVersion' = matrixVersion /\ fence' = fence
            BY <1>0, <2>2 DEF TypeOK, SearchMiss, Goto, NoJob, process
        <3>2. fence[p] \in 1 .. Latest /\ matrixVersion[p] \in Nat
            BY <1>0 DEF TypeOK
        <3> QED BY <3>1, <3>2 DEF Searching, Latest
    <2>3. CASE SearchLoad(u)
        <3>1. /\ job'[u].floor = job[u].floor /\ job'[u].label = job[u].label
              /\ job'[u].at = Latest /\ pc[u] = "load"
              /\ pc'[u] \in {"answer", "put"} /\ history' = history
              /\ matrixVersion' = matrixVersion /\ fence' = fence
            BY <1>0, <2>3 DEF TypeOK, JobType, SearchLoad, Goto, process
        <3>2. Searching(u)
            BY DEF IInv, SearchInv
        <3> QED BY <1>0, <3>1, <3>2 DEF Searching, Latest
    <2>4. CASE SearchPut(u)
        <3>1. pc[u] = "put" /\ pc'[u] = "mask" /\ job' = job /\ history' = history
            BY <1>0, <2>4 DEF TypeOK, SearchPut, Goto
        <3>2. Searching(u)
            BY DEF IInv, SearchInv
        <3> QED BY <3>1, <3>2 DEF Searching, Latest
    <2>5. CASE SearchMask(u) \/ SearchReturn(u)
        BY <1>0, <1>1, <2>5 DEF TypeOK, SearchMask, SearchReturn, Goto
    <2> QED BY <1>4, <2>1, <2>2, <2>3, <2>4, <2>5 DEF SearchNext
<1>5. ASSUME NEW p \in Procs, Crash(p) PROVE Searching(u)'
    <2>1. CASE ProcOf[u] = p
        BY <1>0, <1>1, <1>5, <2>1 DEF TypeOK, Crash
    <2>2. CASE ProcOf[u] # p
        <3>1. pc'[u] = pc[u] /\ job'[u] = job[u]
            BY <1>0, <1>5, <2>2 DEF TypeOK, Crash
        <3>2. CASE Crash(ProcOf[u])
            BY <1>0, <3>2 DEF Crash, TypeOK, Searching
        <3>3. CASE ~ Crash(ProcOf[u])
            BY <3>1, <3>3, SearchingStays
        <3> QED BY <3>2, <3>3
    <2> QED BY <2>1, <2>2
<1>6. CASE UpstreamCommit \/ DeleteStore \/ UNCHANGED vars
    <2>1. pc' = pc /\ job' = job
        BY <1>6 DEF UpstreamCommit, DeleteStore, vars
    <2>2. CASE Crash(ProcOf[u])
        BY <1>0, <2>2 DEF Crash, TypeOK, Searching
    <2>3. CASE ~ Crash(ProcOf[u])
        BY <2>1, <2>3, SearchingStays
    <2> QED BY <2>2, <2>3
<1> QED BY <1>2, <1>3, <1>4, <1>5, <1>6 DEF Next

-----------------------------------------------------------------------------
(* The syncs *)

\* A sync that does not move keeps its part of the invariant: nobody of its
\* process commits or bumps meanwhile, because it holds the lock.
LEMMA SyncingStays ==
    ASSUME IInv, [Next]_vars, NEW u \in Threads, pc'[u] = pc[u], job'[u] = job[u],
           ~ Crash(ProcOf[u]),
           \A t \in Threads : SyncCommit(t) \/ SyncBump(t) => t # u
    PROVE  Syncing(u)'
<1> USE VectorsAssumption
<1>1. /\ Syncing(u) /\ ProcOf[u] \in Procs
      /\ revision \in Nat /\ revision' \in Nat /\ revision <= revision'
      /\ job[u].rev \in Nat
    BY RevisionGrows DEF IInv, SyncInv, TypeOK, JobType
<1>2. /\ Latest \in Nat \ {0} /\ Latest' \in Nat \ {0} /\ Latest <= Latest'
      /\ \A i \in 1 .. Latest : history'[i] = history[i]
    BY HistoryGrows
<1>3. ASSUME pc[u] \in SyncSteps, NEW t \in Threads, SyncCommit(t) \/ SyncBump(t)
      PROVE  ProcOf[t] # ProcOf[u]
    <2>1. t # u /\ pc[t] \in SyncSteps
        BY <1>3 DEF SyncCommit, SyncBump, Goto, SyncSteps
    <2> QED BY <1>3, <2>1, OneSyncer DEF IInv
<1>4. ASSUME pc[u] \in SyncSteps, NEW i \in Latest + 1 .. Latest'
      PROVE  history'[i].by # ProcOf[u]
    BY <1>1, <1>3, <1>4, HistoryGrows
<1>5. pc[u] \in SyncSteps => fence'[ProcOf[u]] = fence[ProcOf[u]]
    <2> SUFFICES ASSUME pc[u] \in SyncSteps PROVE fence'[ProcOf[u]] = fence[ProcOf[u]]
        OBVIOUS
    <2>1. ASSUME NEW t \in Threads, SyncBump(t) PROVE fence'[ProcOf[u]] = fence[ProcOf[u]]
        BY <1>1, <1>3, <2>1, BumpMoves
    <2>2. ASSUME NEW q \in Procs, Crash(q) PROVE fence'[ProcOf[u]] = fence[ProcOf[u]]
        BY <1>1, <2>2 DEF Crash, IInv, TypeOK
    <2>3. CASE ~ (\E t \in Threads : SyncBump(t)) /\ ~ (\E q \in Procs : Crash(q))
        BY <2>3, VersionsStay
    <2> QED BY <2>1, <2>2, <2>3
<1>6. pc[u] \in {"bump", "return"} =>
          /\ job[u].at \in 1 .. Latest
          /\ job[u].mine \in job[u].at + 1 .. Latest
          /\ job[u].mine \in 1 .. Latest
    BY <1>1, <1>2 DEF Syncing
<1>7. ExactFor(u)'
    <2> SUFFICES ASSUME pc[u] \in {"bump", "return"},
                        \A k \in job[u].at + 1 .. job[u].mine - 1 :
                            history'[k].by = ProcOf[u]
                 PROVE  history'[job[u].mine].rows = Fresh(job[u].snap)
        BY DEF ExactFor, Undisturbed
    <2>1. \A k \in job[u].at + 1 .. job[u].mine - 1 : k \in 1 .. Latest
        BY <1>2, <1>6
    <2>2. Undisturbed(u, job[u].at, job[u].mine)
        BY <1>2, <2>1 DEF Undisturbed
    <2> QED BY <1>1, <1>2, <1>6, <2>2 DEF Syncing, ExactFor
<1>8. pc[u] \in {"read", "commit"} =>
          /\ job[u].rev <= revision'
          /\ \A i \in 1 .. Latest' :
                 history'[i].by = ProcOf[u] => history'[i].rev <= job[u].rev
    <2> SUFFICES ASSUME pc[u] \in {"read", "commit"}
                 PROVE  /\ job[u].rev <= revision'
                        /\ \A i \in 1 .. Latest' :
                             history'[i].by = ProcOf[u] => history'[i].rev <= job[u].rev
        OBVIOUS
    <2>1. job[u].rev <= revision'
        BY <1>1 DEF Syncing
    <2>2. ASSUME NEW i \in 1 .. Latest', history'[i].by = ProcOf[u]
          PROVE  history'[i].rev <= job[u].rev
        <3>1. i \in 1 .. Latest
            BY <1>2, <1>4, <2>2 DEF SyncSteps
        <3> QED BY <1>1, <1>2, <2>2, <3>1 DEF Syncing
    <2> QED BY <2>1, <2>2
<1>9. pc[u] = "commit" =>
          /\ job[u].at \in 1 .. Latest'
          /\ \A i \in job[u].at + 1 .. Latest' : history'[i].by # ProcOf[u]
    <2> SUFFICES ASSUME pc[u] = "commit"
                 PROVE  /\ job[u].at \in 1 .. Latest'
                        /\ \A i \in job[u].at + 1 .. Latest' : history'[i].by # ProcOf[u]
        OBVIOUS
    <2>1. /\ job[u].at \in 1 .. Latest
          /\ \A i \in job[u].at + 1 .. Latest : history[i].by # ProcOf[u]
        BY <1>1 DEF Syncing
    <2>2. ASSUME NEW i \in job[u].at + 1 .. Latest' PROVE history'[i].by # ProcOf[u]
        <3>1. CASE i \in job[u].at + 1 .. Latest
            BY <1>2, <2>1, <3>1
        <3>2. CASE i \in Latest + 1 .. Latest'
            BY <1>4, <3>2 DEF SyncSteps
        <3> QED BY <1>2, <2>1, <3>1, <3>2
    <2> QED BY <1>2, <2>1, <2>2
<1>10. pc[u] \in {"bump", "return"} =>
          job[u].at \in 1 .. Latest' /\ job[u].mine \in job[u].at + 1 .. Latest'
    BY <1>2, <1>6
<1>11. pc[u] = "bump" => fence'[ProcOf[u]] < job[u].mine
    BY <1>1, <1>5 DEF Syncing, SyncSteps
<1> QED BY <1>7, <1>8, <1>9, <1>10, <1>11 DEF Syncing

\* The commit of a sync: under the lock its SELECT still shows what the store
\* holds, unless someone else committed.
LEMMA SyncingCommits ==
    ASSUME IInv, NEW u \in Threads, SyncCommit(u)
    PROVE  Syncing(u)'
<1> USE VectorsAssumption
<1> DEFINE j == job[u]
<1>1. PICK c \in Commit :
         /\ history' = Append(history, c)
         /\ c.rows = Apply(Store, j.snap, history[j.at].rows)
         /\ c.by = ProcOf[u]
         /\ c.rev = j.rev
    BY SyncCommitTyped
<1>2. /\ Latest \in Nat \ {0} /\ history \in Seq(Commit)
      /\ Latest' = Latest + 1
      /\ \A i \in 1 .. Latest : history'[i] = history[i]
      /\ history'[Latest + 1] = c
    BY <1>1, AppendHistory DEF IInv, TypeOK
<1>3. /\ pc[u] = "commit" /\ pc'[u] = "bump" /\ fence' = fence
      /\ job'[u].at = j.at /\ job'[u].snap = j.snap /\ job'[u].mine = Latest + 1
    BY DEF IInv, TypeOK, JobType, SyncCommit, Goto, process
<1>4. /\ j.at \in 1 .. Latest
      /\ \A i \in j.at + 1 .. Latest : history[i].by # ProcOf[u]
    BY <1>3 DEF IInv, SyncInv, Syncing
<1>5. ExactFor(u)'
    <2> SUFFICES ASSUME \A k \in j.at + 1 .. Latest : history'[k].by = ProcOf[u]
                 PROVE  history'[Latest + 1].rows = Fresh(j.snap)
        BY <1>2, <1>3 DEF ExactFor, Undisturbed
    <2>1. j.at = Latest
        BY <1>2, <1>4
    <2>2. Store \in Rows /\ j.snap \in Sources
        BY <1>2, HistoryElements DEF Store, IInv, TypeOK, JobType
    <2>3. Consistent(Store)
        BY <1>2 DEF IInv, HistoryInv, HistoryConsistent, Store
    <2> QED BY <1>1, <1>2, <2>1, <2>2, <2>3, ApplyFresh DEF Store
<1>6. fence'[ProcOf[u]] < job'[u].mine
    BY <1>2, <1>3 DEF IInv, TypeOK
<1>7. job'[u].at \in 1 .. Latest' /\ job'[u].mine \in job'[u].at + 1 .. Latest'
    BY <1>2, <1>3, <1>4
<1> QED BY <1>3, <1>5, <1>6, <1>7 DEF Syncing

LEMMA SyncPreserved == IInv /\ [Next]_vars => SyncInv'
<1> SUFFICES ASSUME IInv, [Next]_vars, NEW u \in Threads PROVE Syncing(u)'
    BY DEF SyncInv
<1> USE VectorsAssumption
<1>0. /\ TypeOK /\ Syncing(u) /\ ProcOf[u] \in Procs
      /\ Latest \in Nat \ {0} /\ revision \in Nat
    BY DEF IInv, SyncInv, TypeOK
<1>1. CASE pc'[u] \notin {"read", "commit", "bump", "return"}
    BY <1>1 DEF Syncing, ExactFor
<1>2. CASE Crash(ProcOf[u])
    BY <1>0, <1>1, <1>2 DEF Crash, TypeOK
<1>3. CASE \E t \in Threads : (SyncNext(t) \/ SearchNext(t)) /\ t # u
    <2>1. pc'[u] = pc[u] /\ job'[u] = job[u]
        BY <1>0, <1>3, OthersStay
    <2>2. ASSUME SyncCommit(u) \/ SyncBump(u) PROVE FALSE
        BY <1>0, <2>1, <2>2 DEF SyncCommit, SyncBump, Goto, TypeOK
    <2> QED BY <1>2, <2>1, <2>2, SyncingStays
<1>4. CASE SyncNext(u)
    <2>1. CASE SyncLock(u) \/ SyncReturn(u) \/ SyncFail(u)
        BY <1>0, <1>1, <2>1 DEF TypeOK, SyncLock, SyncReturn, SyncFail, Leave, Goto
    <2>2. CASE SyncSnapshot(u)
        <3>1. /\ pc'[u] = "read" /\ job'[u].rev = revision
              /\ revision' = revision /\ history' = history
            BY <1>0, <2>2 DEF TypeOK, JobType, SyncSnapshot, Goto
        <3>2. \A i \in 1 .. Latest : history[i].rev <= revision
            BY DEF IInv, HistoryInv
        <3> QED BY <1>0, <3>1, <3>2 DEF Syncing, ExactFor, Latest
    <2>3. CASE SyncRead(u)
        <3>1. /\ pc[u] = "read" /\ pc'[u] = "commit" /\ job'[u].rev = job[u].rev
              /\ job'[u].at = Latest /\ revision' = revision /\ history' = history
            BY <1>0, <2>3 DEF TypeOK, JobType, SyncRead, Goto
        <3> QED BY <1>0, <3>1 DEF Syncing, ExactFor, Latest
    <2>4. CASE SyncCommit(u)
        BY <2>4, SyncingCommits
    <2>5. CASE SyncBump(u)
        <3>1. /\ pc[u] = "bump" /\ pc'[u] = "return"
              /\ job' = job /\ history' = history
            BY <1>0, <2>5 DEF TypeOK, SyncBump, Goto
        <3> QED BY <1>0, <3>1 DEF Syncing, ExactFor, Undisturbed, Latest
    <2> QED BY <1>4, <2>1, <2>2, <2>3, <2>4, <2>5 DEF SyncNext
<1>5. CASE SearchNext(u)
    BY <1>0, <1>1, <1>5 DEF TypeOK, SearchNext, SearchHit, SearchMiss, SearchLoad,
                            SearchPut, SearchMask, SearchReturn, Goto
<1>6. ASSUME NEW p \in Procs, Crash(p), p # ProcOf[u] PROVE Syncing(u)'
    <2>1. pc'[u] = pc[u] /\ job'[u] = job[u] /\ history' = history
          /\ revision' = revision /\ fence'[ProcOf[u]] = fence[ProcOf[u]]
        BY <1>0, <1>6 DEF TypeOK, Crash
    <2> QED BY <1>0, <2>1 DEF Syncing, ExactFor, Undisturbed, Latest
<1>7. CASE UpstreamCommit \/ DeleteStore \/ UNCHANGED vars
    <2>1. pc' = pc /\ job' = job
        BY <1>7 DEF UpstreamCommit, DeleteStore, vars
    <2>2. ASSUME SyncCommit(u) \/ SyncBump(u) PROVE FALSE
        BY <1>0, <2>1, <2>2 DEF SyncCommit, SyncBump, Goto, TypeOK
    <2> QED BY <1>2, <2>1, <2>2, SyncingStays
<1> QED BY <1>2, <1>3, <1>4, <1>5, <1>6, <1>7 DEF Next

-----------------------------------------------------------------------------
(* The theorems *)

\* IInv is inductive: it holds in every reachable state of vectors.py's model.
THEOREM Invariance == Spec => []IInv
<1>1. IInv /\ [Next]_vars => IInv'
    BY TypePreserved, LockPreserved, HistoryPreserved, CachePreserved,
       SearchPreserved, SyncPreserved DEF IInv
<1> QED BY InitIInv, <1>1, PTL DEF Spec

\* The variables keep their types, for any processes, threads, rowids and texts.
THEOREM TypeCorrectness == Spec => []TypeOK
<1>1. IInv => TypeOK
    BY DEF IInv
<1> QED BY Invariance, <1>1, PTL

\* A matrix that would be served is no older than the syncs its own process
\* acknowledged (vectors.py:200-224).
THEOREM CacheIsSafe == Spec => []CacheServesOwnSyncs
<1>1. IInv => CacheServesOwnSyncs
    BY DEF IInv, CacheInv
<1> QED BY Invariance, <1>1, PTL

\* An undisturbed sync leaves exactly the rows of its snapshot
\* (vectors.py:128-174).
THEOREM SyncIsExact == Spec => []SyncExact
<1>1. IInv => SyncExact
    BY DEF IInv, SyncInv, Syncing, SyncExact
<1> QED BY Invariance, <1>1, PTL

\* The commits of a process follow its snapshots (vectors.py:128-129).
THEOREM CommitsAreOrdered == Spec => []CommitsFollowSnapshots
<1>1. IInv => CommitsFollowSnapshots
    BY DEF IInv, HistoryInv
<1> QED BY Invariance, <1>1, PTL

\* Undisturbed callers of one process never embed a chunk twice
\* (vectors.py:119-121).
THEOREM NothingEmbeddedTwice == Spec => []ChunksEmbeddedOnce
<1>1. ASSUME IInv, NEW t \in Threads, pc[t] = "commit",
             Undisturbed(t, job[t].at, Latest + 1)
      PROVE  job[t].at = Latest
    <2>1. /\ Latest \in Nat /\ job[t].at \in 1 .. Latest
          /\ \A i \in job[t].at + 1 .. Latest : history[i].by # ProcOf[t]
        BY <1>1 DEF IInv, TypeOK, SyncInv, Syncing
    <2> QED BY <1>1, <2>1 DEF Undisturbed
<1>2. IInv => ChunksEmbeddedOnce
    BY <1>1 DEF ChunksEmbeddedOnce, Store
<1> QED BY Invariance, <1>2, PTL
=============================================================================
