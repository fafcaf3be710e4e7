-------------------------- MODULE VectorsRefinement --------------------------
(* Vectors implements VectorIndex, for every value of the constants. *)
EXTENDS VectorsProofs, FiniteSetTheorems

-----------------------------------------------------------------------------
(* The mapping *)

\* A top k of the live rows of a matrix is an answer of the abstract index.
LEMMA HitsAreAnswers ==
    ASSUME NEW rows
    PROVE  TopHits(rows, Indexed(rows) \cap Live(source))
             = Index!Answers(rows, Index!Kept(rows))
<1>1. Index!Kept(rows) = Indexed(rows) \cap Live(source)
    BY DEF Index!Kept, Indexed, Live
<1>2. ASSUME NEW kept PROVE TopHits(rows, kept) = Index!Answers(rows, kept)
    BY DEF TopHits, Index!Answers, Cardinality, Index!Cardinality
<1> QED BY <1>1, <1>2

\* No rows have one answer, the empty one.
LEMMA NoAnswers ==
    ASSUME NEW rows
    PROVE  {} \in Index!Answers(rows, {})
<1>1. Cardinality({}) = 0
    BY FS_EmptySet
<1>2. TopHits(rows, {}) = Index!Answers(rows, {})
    BY DEF TopHits, Index!Answers, Cardinality, Index!Cardinality
<1>3. {} \in TopHits(rows, {})
    BY <1>1, VectorsAssumption DEF TopHits
<1> QED BY <1>2, <1>3

\* The contents the abstract index passes through are those of the history.
LEMMA ContentsMap ==
    ASSUME IInv
    PROVE  /\ Contents \in Seq(Rows)
           /\ Index!Current = Latest
           /\ \A i \in 1 .. Latest : Contents[i] = history[i].rows
<1>1. /\ history \in Seq(Commit) /\ Latest \in Nat
      /\ \A i \in 1 .. Latest : history[i].rows \in Rows
    BY HistoryElements DEF IInv, TypeOK
<1>2. Contents \in Seq(Rows) /\ Len(Contents) = Latest
    BY <1>1 DEF Contents
<1> QED BY <1>1, <1>2 DEF Contents, Index!Current

\* A commit appends its rows to the contents.
LEMMA ContentsAppend ==
    ASSUME IInv, NEW c \in Commit, history' = Append(history, c)
    PROVE  Contents' = Append(Contents, c.rows)
<1>1. /\ history \in Seq(Commit) /\ Latest \in Nat /\ c.rows \in Rows
      /\ Latest' = Latest + 1
      /\ \A i \in 1 .. Latest : history'[i] = history[i]
      /\ history'[Latest + 1] = c
    BY AppendHistory DEF IInv, TypeOK, Commit
<1>2. Contents \in Seq(Rows) /\ Len(Contents) = Latest
    BY ContentsMap DEF Index!Current
<1>3. DOMAIN Contents' = 1 .. Latest + 1
      /\ DOMAIN Append(Contents, c.rows) = 1 .. Latest + 1
    BY <1>1, <1>2 DEF Contents
<1>4. ASSUME NEW i \in 1 .. Latest + 1
      PROVE  Contents'[i] = Append(Contents, c.rows)[i]
    <2>1. CASE i \in 1 .. Latest
        <3>1. Contents'[i] = history[i].rows /\ Contents[i] = history[i].rows
            BY <1>1, <2>1 DEF Contents
        <3> QED BY <1>1, <1>2, <2>1, <3>1
    <2>2. CASE i = Latest + 1
        <3>1. Contents'[i] = c.rows
            BY <1>1, <2>2 DEF Contents
        <3> QED BY <1>1, <1>2, <2>2, <3>1
    <2>3. i \in 1 .. Latest \/ i = Latest + 1
        BY <1>1
    <2> QED BY <2>1, <2>2, <2>3
<1>5. Contents' = [i \in 1 .. Latest + 1 |-> Contents'[i]]
    BY <1>1 DEF Contents
<1>6. Append(Contents, c.rows) \in Seq(Rows)
      /\ Len(Append(Contents, c.rows)) = Latest + 1
    BY <1>1, <1>2
<1>7. Append(Contents, c.rows) =
          [i \in 1 .. Latest + 1 |-> Append(Contents, c.rows)[i]]
    BY <1>1, <1>2, <1>6
<1> QED BY <1>4, <1>5, <1>7

\* The mapped variables of a thread whose call is not a search.
LEMMA NoQuestion ==
    ASSUME NEW t \in Threads, pc[t] \notin SearchSteps
    PROVE  Asked[t] = 0 /\ Reply[t] = {}
BY DEF Asked, Reply, SearchSteps

-----------------------------------------------------------------------------
(* The initial states *)

LEMMA InitRefines == Init => Index!Init
<1> SUFFICES ASSUME Init PROVE Index!Init
    OBVIOUS
<1>1. PICK rows \in LegacyRows : history = <<[rows |-> rows, by |-> User, rev |-> 0]>>
    BY DEF Init
<1>2. rows \in [Rowids -> Index!Row \cup {NoRow}]
    BY DEF LegacyRows, Index!Row
<1>3. Contents = <<rows>>
    <2>1. Latest = 1 /\ history[1].rows = rows
        BY <1>1 DEF Latest
    <2>2. Contents = [i \in 1 .. 1 |-> history[i].rows]
        BY <2>1 DEF Contents
    <2>3. Contents = [i \in 1 .. 1 |-> rows]
        BY <2>1, <2>2
    <2> QED BY <2>3
<1>4. Asked = [t \in Threads |-> 0] /\ Reply = [t \in Threads |-> {}]
    BY DEF Init, Asked, Reply, SearchSteps
<1> QED BY <1>2, <1>3, <1>4 DEF Init, Index!Init, Sources, Index!Sources

-----------------------------------------------------------------------------
(* The steps of a sync *)

\* A step that leaves the history alone leaves the contents alone.
LEMMA ContentsStay ==
    ASSUME history' = history
    PROVE  Contents' = Contents
BY DEF Contents, Latest

\* A step of a thread that is in no search before or after asks and answers
\* nothing.
LEMMA QuestionsStay ==
    ASSUME NEW t \in Threads, pc[t] \notin SearchSteps, pc'[t] \notin SearchSteps,
           \A u \in Threads \ {t} : pc'[u] = pc[u] /\ job'[u] = job[u]
    PROVE  Asked' = Asked /\ Reply' = Reply
<1>1. ASSUME NEW u \in Threads
      PROVE  /\ (IF pc'[u] \in SearchSteps THEN job'[u].floor ELSE 0)
                  = (IF pc[u] \in SearchSteps THEN job[u].floor ELSE 0)
             /\ (IF pc'[u] = "answer" THEN {job'[u].hits} ELSE {})
                  = (IF pc[u] = "answer" THEN {job[u].hits} ELSE {})
    BY DEF SearchSteps
<1> QED BY <1>1 DEF Asked, Reply

\* New contents keep, drop or replace each row.
LEMMA AppliedRows ==
    ASSUME NEW rows \in Rows, NEW chunks \in Sources, NEW stored \in Rows,
           NEW r \in Rowids
    PROVE  \/ Apply(rows, chunks, stored)[r] \in {NoRow, rows[r]}
           \/ \E x \in Texts : Apply(rows, chunks, stored)[r] = [hash |-> x, vec |-> x]
<1>1. CASE r \in Todo(chunks, stored)
    BY <1>1 DEF Apply, Todo, Live, Sources, RowOf
<1>2. CASE r \notin Todo(chunks, stored)
    BY <1>2 DEF Apply
<1> QED BY <1>1, <1>2

LEMMA InstallRefines ==
    ASSUME IInv, NEW c \in Commit, history' = Append(history, c),
           source' = source, fence' = fence, Asked' = Asked, Reply' = Reply,
           \A r \in Rowids : \/ c.rows[r] \in {NoRow, Store[r]}
                             \/ \E x \in Texts : c.rows[r] = [hash |-> x, vec |-> x]
    PROVE  Index!Install
<1>1. Contents' = Append(Contents, c.rows)
    BY ContentsAppend
<1>2. Contents[Index!Current] = Store
    <2>1. Latest \in Nat \ {0}
        BY DEF IInv, TypeOK
    <2> QED BY <2>1, ContentsMap DEF Store
<1>3. c.rows \in [Rowids -> Index!Row \cup {NoRow}]
    BY DEF Commit, Rows, Row, Index!Row
<1> QED BY <1>1, <1>2, <1>3 DEF Index!Install

LEMMA SyncRefines ==
    ASSUME IInv, NEW t \in Threads, SyncNext(t)
    PROVE  Index!Next \/ UNCHANGED Index!vars
<1> USE VectorsAssumption
<1>1. /\ pc[t] \notin SearchSteps /\ pc'[t] \notin SearchSteps
      /\ \A u \in Threads \ {t} : pc'[u] = pc[u] /\ job'[u] = job[u]
      /\ source' = source
    BY DEF IInv, TypeOK, SyncNext, SyncLock, SyncSnapshot, SyncRead, SyncCommit,
           SyncBump, SyncReturn, SyncFail, Leave, Goto, SearchSteps
<1>2. Asked' = Asked /\ Reply' = Reply
    BY <1>1, QuestionsStay
<1>3. CASE SyncCommit(t)
    <2>1. PICK c \in Commit :
             /\ history' = Append(history, c)
             /\ c.rows = Apply(Store, job[t].snap, history[job[t].at].rows)
        BY <1>3, SyncCommitTyped
    <2>2. /\ Store \in Rows /\ job[t].snap \in Sources
          /\ history[job[t].at].rows \in Rows
        <3>1. history \in Seq(Commit) /\ Latest \in 1 .. Latest /\ job[t].at \in 1 .. Latest
            BY <1>3 DEF IInv, TypeOK, SyncInv, Syncing, SyncCommit, Goto
        <3> QED BY <3>1, HistoryElements DEF Store, IInv, TypeOK, JobType
    <2>3. \A r \in Rowids : \/ c.rows[r] \in {NoRow, Store[r]}
                            \/ \E x \in Texts : c.rows[r] = [hash |-> x, vec |-> x]
        <3> DEFINE new == Apply(Store, job[t].snap, history[job[t].at].rows)
        <3>1. \A r \in Rowids : \/ new[r] \in {NoRow, Store[r]}
                               \/ \E x \in Texts : new[r] = [hash |-> x, vec |-> x]
            BY <2>2, AppliedRows
        <3>2. c.rows = new
            BY <2>1
        <3> HIDE DEF new
        <3> QED BY <3>1, <3>2
    <2>4. fence' = fence
        BY <1>3 DEF SyncCommit, process
    <2>5. Index!Install
        BY <1>1, <1>2, <2>1, <2>3, <2>4, InstallRefines
    <2> QED BY <2>5 DEF Index!Next
<1>4. CASE SyncBump(t)
    <2> DEFINE p == ProcOf[t]
    <2>1. /\ p \in Procs /\ fence \in [Procs -> 1 .. Latest]
          /\ job[t].mine \in fence[p] + 1 .. Latest
        BY <1>4 DEF IInv, TypeOK, SyncInv, Syncing, SyncBump, Goto, JobType
    <2>2. fence' = [fence EXCEPT ![p] = job[t].mine] /\ Contents' = Contents
        BY <1>4, ContentsStay DEF SyncBump
    <2>3. Index!Acknowledge(p)
        BY <1>1, <1>2, <2>1, <2>2, ContentsMap DEF Index!Acknowledge
    <2> QED BY <2>1, <2>3 DEF Index!Next
<1>5. CASE ~ SyncCommit(t) /\ ~ SyncBump(t)
    <2>1. history' = history /\ fence' = fence
        BY <1>5 DEF SyncNext, SyncLock, SyncSnapshot, SyncRead, SyncReturn, SyncFail,
                    Leave, process
    <2> QED BY <1>1, <1>2, <2>1, ContentsStay DEF Index!vars
<1> QED BY <1>3, <1>4, <1>5

-----------------------------------------------------------------------------
(* The steps of a search *)

\* What a search step does to the questions, from what it does to its call.
LEMMA QuestionMoves ==
    ASSUME TypeOK, NEW t \in Threads, NEW to, NEW j,
           pc' = [pc EXCEPT ![t] = to], job' = [job EXCEPT ![t] = j]
    PROVE  /\ Asked' = [Asked EXCEPT ![t] = IF to \in SearchSteps THEN j.floor ELSE 0]
           /\ Reply' = [Reply EXCEPT ![t] = IF to = "answer" THEN {j.hits} ELSE {}]
<1>1. pc'[t] = to /\ job'[t] = j
      /\ \A u \in Threads \ {t} : pc'[u] = pc[u] /\ job'[u] = job[u]
    BY DEF TypeOK
<1>2. Asked' = [Asked EXCEPT ![t] = IF to \in SearchSteps THEN j.floor ELSE 0]
    <2> DEFINE asked == [Asked EXCEPT ![t] = IF to \in SearchSteps THEN j.floor ELSE 0]
    <2>1. ASSUME NEW u \in Threads PROVE Asked'[u] = asked[u]
        BY <1>1 DEF Asked
    <2>2. Asked' = [u \in Threads |-> Asked'[u]]
        BY DEF Asked
    <2>3. Asked = [u \in Threads |-> Asked[u]]
        BY DEF Asked
    <2>4. asked = [u \in Threads |-> asked[u]]
        BY <2>3
    <2> HIDE DEF asked
    <2>5. Asked' = asked
        BY <2>1, <2>2, <2>4
    <2> QED BY <2>5 DEF asked
<1>3. Reply' = [Reply EXCEPT ![t] = IF to = "answer" THEN {j.hits} ELSE {}]
    <2> DEFINE reply == [Reply EXCEPT ![t] = IF to = "answer" THEN {j.hits} ELSE {}]
    <2>1. ASSUME NEW u \in Threads PROVE Reply'[u] = reply[u]
        BY <1>1 DEF Reply
    <2>2. Reply' = [u \in Threads |-> Reply'[u]]
        BY DEF Reply
    <2>3. Reply = [u \in Threads |-> Reply[u]]
        BY DEF Reply
    <2>4. reply = [u \in Threads |-> reply[u]]
        BY <2>3
    <2> HIDE DEF reply
    <2>5. Reply' = reply
        BY <2>1, <2>2, <2>4
    <2> QED BY <2>5 DEF reply
<1> QED BY <1>2, <1>3

LEMMA SearchRefines ==
    ASSUME IInv, NEW t \in Threads, SearchNext(t)
    PROVE  Index!Next \/ UNCHANGED Index!vars
<1> USE VectorsAssumption
<1>1. /\ TypeOK /\ Searching(t) /\ ProcOf[t] \in Procs /\ Latest \in Nat \ {0}
      /\ job[t] \in JobType /\ job \in [Threads -> JobType]
      /\ pc \in [Threads -> {"idle"} \cup SyncSteps \cup SearchSteps]
    BY DEF IInv, SearchInv, TypeOK
<1>2. /\ source' = source /\ fence' = fence /\ history' = history
      /\ Contents' = Contents
    BY ContentsStay DEF SearchNext, SearchHit, SearchMiss, SearchLoad, SearchPut,
                        SearchMask, SearchReturn, process
<1>3. DOMAIN Asked = Threads /\ DOMAIN Reply = Threads
    BY DEF Asked, Reply
<1>4. CASE SearchHit(t) \/ SearchMiss(t)
    <2>1. PICK to \in {"mask", "load"}, j \in JobType :
             /\ pc' = [pc EXCEPT ![t] = to] /\ job' = [job EXCEPT ![t] = j]
             /\ j.floor = fence[ProcOf[t]]
        <3> DEFINE hit == [NoJob EXCEPT !.at = matrixCache[ProcOf[t]].at,
                                        !.label = matrixVersion[ProcOf[t]],
                                        !.floor = fence[ProcOf[t]]]
                   miss == [NoJob EXCEPT !.label = matrixVersion[ProcOf[t]],
                                         !.floor = fence[ProcOf[t]]]
        <3>1. /\ matrixCache[ProcOf[t]].at \in Nat /\ matrixVersion[ProcOf[t]] \in Nat
              /\ fence[ProcOf[t]] \in Nat
            BY <1>1 DEF TypeOK
        <3>2. hit \in JobType /\ miss \in JobType
              /\ hit.floor = fence[ProcOf[t]] /\ miss.floor = fence[ProcOf[t]]
            BY <3>1 DEF NoJob, JobType, Sources
        <3>3. CASE SearchHit(t)
            <4>1. pc' = [pc EXCEPT ![t] = "mask"] /\ job' = [job EXCEPT ![t] = hit]
                BY <3>3 DEF SearchHit, Goto
            <4> HIDE DEF hit
            <4> QED BY <3>2, <4>1
        <3>4. CASE SearchMiss(t)
            <4>1. pc' = [pc EXCEPT ![t] = "load"] /\ job' = [job EXCEPT ![t] = miss]
                BY <3>4 DEF SearchMiss, Goto
            <4> HIDE DEF miss
            <4> QED BY <3>2, <4>1
        <3> QED BY <1>4, <3>3, <3>4
    <2>2. pc[t] = "idle" /\ Asked[t] = 0 /\ Reply[t] = {}
        BY <1>4, NoQuestion DEF SearchHit, SearchMiss, Goto, SearchSteps
    <2>3. Asked' = [Asked EXCEPT ![t] = fence[ProcOf[t]]] /\ Reply' = Reply
        <3>1. /\ Asked' = [Asked EXCEPT ![t] = IF to \in SearchSteps THEN j.floor ELSE 0]
              /\ Reply' = [Reply EXCEPT ![t] = IF to = "answer" THEN {j.hits} ELSE {}]
            BY <1>1, <2>1, QuestionMoves
        <3>2. to \in SearchSteps /\ to # "answer"
            BY <2>1 DEF SearchSteps
        <3>3. Reply' = [Reply EXCEPT ![t] = Reply[t]]
            BY <2>2, <3>1, <3>2
        <3>4. Reply = [Reply EXCEPT ![t] = Reply[t]]
            BY DEF Reply
        <3> QED BY <2>1, <3>1, <3>2, <3>3, <3>4
    <2>4. Index!Ask(t)
        BY <1>2, <2>2, <2>3 DEF Index!Ask
    <2> QED BY <2>4 DEF Index!Next
<1>5. CASE SearchLoad(t)
    <2>1. PICK to \in {"answer", "put"}, j \in JobType :
             /\ pc' = [pc EXCEPT ![t] = to] /\ job' = [job EXCEPT ![t] = j]
             /\ j.floor = job[t].floor /\ j.hits = job[t].hits
             /\ to = "answer" => Indexed(Store) = {}
        <3> DEFINE j == [job[t] EXCEPT !.at = Latest]
                   to == IF Indexed(Store) = {} THEN "answer" ELSE "put"
        <3>1. j \in JobType /\ j.floor = job[t].floor /\ j.hits = job[t].hits
            BY <1>1 DEF JobType
        <3>2. pc' = [pc EXCEPT ![t] = to] /\ job' = [job EXCEPT ![t] = j]
            BY <1>5 DEF SearchLoad, Goto
        <3>3. to \in {"answer", "put"} /\ (to = "answer" => Indexed(Store) = {})
            OBVIOUS
        <3> HIDE DEF j, to
        <3> QED BY <3>1, <3>2, <3>3
    <2>2. /\ pc[t] = "load" /\ Asked[t] = job[t].floor /\ Reply[t] = {}
          /\ job[t].floor \in 1 .. Latest /\ job[t].hits = {}
        BY <1>1, <1>5 DEF SearchLoad, Goto, Asked, Reply, SearchSteps, Searching,
                          IInv, SearchInv
    <2>3. /\ Asked' = [Asked EXCEPT ![t] = IF to \in SearchSteps THEN j.floor ELSE 0]
          /\ Reply' = [Reply EXCEPT ![t] = IF to = "answer" THEN {j.hits} ELSE {}]
        BY <1>1, <2>1, QuestionMoves
    <2>4. /\ Asked = [Asked EXCEPT ![t] = Asked[t]]
          /\ Reply = [Reply EXCEPT ![t] = Reply[t]]
        BY DEF Asked, Reply
    <2>5. Asked' = Asked
        BY <2>1, <2>2, <2>3, <2>4 DEF SearchSteps
    <2>6. CASE to = "put"
        BY <1>2, <2>2, <2>3, <2>4, <2>5, <2>6 DEF Index!vars
    <2>7. CASE to = "answer"
        <3>1. Contents[Latest] = Store /\ Index!Kept(Store) = {}
            BY <1>1, <2>1, <2>7, ContentsMap DEF Store, Index!Kept, Indexed
        <3>2. {} \in Index!Answers(Store, {})
            BY NoAnswers
        <3>3. Latest \in Asked[t] .. Index!Current
            BY <1>1, <2>2, ContentsMap
        <3>4. Reply' = [Reply EXCEPT ![t] = {{}}]
            BY <2>1, <2>2, <2>3, <2>7
        <3>5. {} \in Index!Answers(Contents[Latest], Index!Kept(Contents[Latest]))
            BY <3>1, <3>2
        <3>6. Asked[t] > 0
            BY <1>1, <2>2
        <3>7. Index!Answer(t)
            BY <1>2, <2>2, <2>5, <3>3, <3>4, <3>5, <3>6 DEF Index!Answer
        <3> QED BY <3>7 DEF Index!Next
    <2> QED BY <2>1, <2>6, <2>7
<1>6. CASE SearchPut(t)
    <2>1. pc[t] = "put" /\ pc' = [pc EXCEPT ![t] = "mask"] /\ job' = [job EXCEPT ![t] = job[t]]
        BY <1>1, <1>6 DEF SearchPut, Goto
    <2>2. Asked[t] = job[t].floor /\ Reply[t] = {}
        BY <2>1 DEF Asked, Reply, SearchSteps
    <2>3. /\ Asked' = [Asked EXCEPT ![t] = job[t].floor]
          /\ Reply' = [Reply EXCEPT ![t] = {}]
        <3>1. /\ Asked' = [Asked EXCEPT ![t] =
                              IF "mask" \in SearchSteps THEN job[t].floor ELSE 0]
              /\ Reply' = [Reply EXCEPT ![t] =
                              IF "mask" = "answer" THEN {job[t].hits} ELSE {}]
            BY <1>1, <2>1, QuestionMoves
        <3> QED BY <3>1 DEF SearchSteps
    <2>4. /\ Asked = [Asked EXCEPT ![t] = Asked[t]]
          /\ Reply = [Reply EXCEPT ![t] = Reply[t]]
        BY DEF Asked, Reply
    <2> QED BY <1>2, <2>2, <2>3, <2>4 DEF Index!vars
<1>7. CASE SearchMask(t)
    <2> DEFINE rows == history[job[t].at].rows
               kept == Indexed(rows) \cap Live(source)
    <2>1. PICK hits \in TopHits(rows, kept) : job' = [job EXCEPT ![t].hits = hits]
        BY <1>7 DEF SearchMask
    <2>2. /\ pc[t] = "mask" /\ pc' = [pc EXCEPT ![t] = "answer"]
          /\ job' = [job EXCEPT ![t] = [job[t] EXCEPT !.hits = hits]]
        BY <1>1, <1>7, <2>1 DEF SearchMask, Goto
    <2>3. /\ Asked[t] = job[t].floor /\ Reply[t] = {}
          /\ job[t].floor \in 1 .. Latest /\ job[t].at \in job[t].floor .. Latest
        BY <1>1, <2>2 DEF Asked, Reply, SearchSteps, Searching
    <2>4. /\ Asked' = [Asked EXCEPT ![t] = job[t].floor]
          /\ Reply' = [Reply EXCEPT ![t] = {hits}]
        <3> DEFINE j == [job[t] EXCEPT !.hits = hits]
        <3>1. j.floor = job[t].floor /\ j.hits = hits
            BY <1>1 DEF JobType
        <3>2. /\ Asked' = [Asked EXCEPT ![t] =
                              IF "answer" \in SearchSteps THEN j.floor ELSE 0]
              /\ Reply' = [Reply EXCEPT ![t] =
                              IF "answer" = "answer" THEN {j.hits} ELSE {}]
            BY <1>1, <2>2, QuestionMoves
        <3> HIDE DEF j
        <3> QED BY <3>1, <3>2 DEF SearchSteps
    <2>5. Asked' = Asked
        <3>1. Asked = [Asked EXCEPT ![t] = Asked[t]]
            BY DEF Asked
        <3> QED BY <2>3, <2>4, <3>1
    <2>6. /\ job[t].at \in Asked[t] .. Index!Current
          /\ Contents[job[t].at] = rows
        BY <1>1, <2>3, ContentsMap
    <2>7. hits \in Index!Answers(rows, Index!Kept(rows))
        BY <2>1, HitsAreAnswers
    <2> HIDE DEF rows
    <2>8. hits \in Index!Answers(Contents[job[t].at], Index!Kept(Contents[job[t].at]))
        BY <2>6, <2>7
    <2>9. Asked[t] > 0
        BY <1>1, <2>3
    <2>10. Index!Answer(t)
        BY <1>2, <2>3, <2>4, <2>5, <2>6, <2>8, <2>9 DEF Index!Answer
    <2> QED BY <2>10 DEF Index!Next
<1>8. CASE SearchReturn(t)
    <2>1. /\ pc[t] = "answer" /\ pc' = [pc EXCEPT ![t] = "idle"]
          /\ job' = [job EXCEPT ![t] = NoJob]
        BY <1>8 DEF SearchReturn, Goto
    <2>2. Reply[t] # {}
        BY <2>1 DEF Reply
    <2>3. Asked' = [Asked EXCEPT ![t] = 0] /\ Reply' = [Reply EXCEPT ![t] = {}]
        <3>1. /\ Asked' = [Asked EXCEPT ![t] =
                              IF "idle" \in SearchSteps THEN NoJob.floor ELSE 0]
              /\ Reply' = [Reply EXCEPT ![t] =
                              IF "idle" = "answer" THEN {NoJob.hits} ELSE {}]
            BY <1>1, <2>1, QuestionMoves
        <3> QED BY <3>1 DEF SearchSteps
    <2>4. Index!Done(t)
        BY <1>2, <2>2, <2>3 DEF Index!Done
    <2> QED BY <2>4 DEF Index!Next
<1> QED BY <1>4, <1>5, <1>6, <1>7, <1>8 DEF SearchNext

-----------------------------------------------------------------------------
(* The theorem *)

LEMMA StepRefines == IInv /\ [Next]_vars => [Index!Next]_(Index!vars)
<1> SUFFICES ASSUME IInv, [Next]_vars PROVE Index!Next \/ UNCHANGED Index!vars
    OBVIOUS
<1> USE VectorsAssumption
<1>0. TypeOK /\ Latest \in Nat \ {0} /\ history \in Seq(Commit)
    BY DEF IInv, TypeOK
<1>1. CASE UpstreamCommit
    <2>1. /\ history' = history /\ fence' = fence /\ pc' = pc /\ job' = job
          /\ source' \in Sources
        BY <1>1 DEF UpstreamCommit, process
    <2>2. Contents' = Contents /\ Asked' = Asked /\ Reply' = Reply
        BY <2>1, ContentsStay DEF Asked, Reply
    <2>3. Index!Upstream
        BY <2>1, <2>2 DEF Index!Upstream, Sources, Index!Sources
    <2> QED BY <2>3 DEF Index!Next
<1>2. ASSUME NEW t \in Threads, SyncNext(t) PROVE Index!Next \/ UNCHANGED Index!vars
    BY <1>2, SyncRefines
<1>3. ASSUME NEW t \in Threads, SearchNext(t) PROVE Index!Next \/ UNCHANGED Index!vars
    BY <1>3, SearchRefines
<1>4. ASSUME NEW p \in Procs, Crash(p) PROVE Index!Next \/ UNCHANGED Index!vars
    <2>1. history' = history /\ source' = source /\ fence' = [fence EXCEPT ![p] = Latest]
        BY <1>4 DEF Crash
    <2>2. Contents' = Contents /\ Index!Current = Latest
        BY <2>1, ContentsStay, ContentsMap
    <2>3. ASSUME NEW u \in Threads
          PROVE  /\ ProcOf[u] = p => pc'[u] = "idle"
                 /\ ProcOf[u] # p => pc'[u] = pc[u] /\ job'[u] = job[u]
        BY <1>4 DEF Crash
    <2>4. Asked' = [u \in Threads |-> IF ProcOf[u] = p THEN 0 ELSE Asked[u]]
        BY <2>3 DEF Asked, SearchSteps
    <2>5. Reply' = [u \in Threads |-> IF ProcOf[u] = p THEN {} ELSE Reply[u]]
        BY <2>3 DEF Reply
    <2>6. Index!Restart(p)
        BY <2>1, <2>2, <2>4, <2>5 DEF Index!Restart
    <2> QED BY <2>6 DEF Index!Next
<1>5. CASE DeleteStore
    <2> DEFINE c == [rows |-> Empty, by |-> User, rev |-> 0]
    <2>1. c \in Commit /\ \A r \in Rowids : c.rows[r] = NoRow
        BY DEF Commit, Empty, Rows
    <2>2. /\ history' = Append(history, c) /\ source' = source /\ fence' = fence
          /\ pc' = pc /\ job' = job
        BY <1>5 DEF DeleteStore, process
    <2>3. Asked' = Asked /\ Reply' = Reply
        BY <2>2 DEF Asked, Reply
    <2> HIDE DEF c
    <2>4. Index!Install
        BY <2>1, <2>2, <2>3, InstallRefines
    <2> QED BY <2>4 DEF Index!Next
<1>6. CASE UNCHANGED vars
    <2>1. /\ history' = history /\ source' = source /\ fence' = fence
          /\ pc' = pc /\ job' = job
        BY <1>6 DEF vars
    <2>2. Contents' = Contents /\ Asked' = Asked /\ Reply' = Reply
        BY <2>1, ContentsStay DEF Asked, Reply
    <2> QED BY <2>1, <2>2 DEF Index!vars
<1> QED BY <1>1, <1>2, <1>3, <1>4, <1>5, <1>6 DEF Next

\* Every behaviour of the locks, versions and caches of vectors.py is one that
\* VectorIndex allows: each answer is a full top k of the live rows, from
\* contents no older than the syncs acknowledged when it was asked for.
THEOREM Refinement == Spec => ImplementsIndex
BY InitRefines, StepRefines, Invariance, PTL
   DEF Spec, ImplementsIndex, Index!Spec
=============================================================================
