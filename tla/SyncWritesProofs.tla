--------------------------- MODULE SyncWritesProofs ---------------------------
(***************************************************************************)
(* The writes of a sync, for any number of chunks and processes, whatever  *)
(* the embedder returns: what the transaction holds is at every step what  *)
(* its process has to say of the rows committed before, and nobody commits *)
(* in between, so that the commit is the one step that Vectors takes it    *)
(* for.                                                                    *)
(***************************************************************************)
EXTENDS SyncWrites, FiniteSetTheorems, TLAPS

\* The lists a sync pairs are of one length.
Paired(j) == Len(j.vecs) = Len(j.todo)

\* The rowids of the first n chunks to embed.
First(j, n) == {j.todo[i] : i \in 1 .. n}

\* What a sync that is j.done inserts and some deletes on its way makes of rows.
Partly(old, j) ==
    [r \in Rowids |->
        IF r \in First(j, j.done) THEN RowOf(j.snap[r])
        ELSE IF r \in Stale(j.snap, j.found) \ j.left THEN NoRow
        ELSE old[r]]

\* What the SELECT said, and how far the sync is.
Planned(step, j) ==
    /\ step # "idle" => First(j, Len(j.todo)) = Todo(j.snap, j.found)
    /\ j.left \subseteq Stale(j.snap, j.found)
    /\ j.done <= Len(j.todo) /\ j.done <= Len(j.vecs)
    /\ step \in {"idle", "embed"} => j.done = 0
    /\ step # "delete" => j.left = Stale(j.snap, j.found)
    /\ step = "delete" => Paired(j) /\ j.done = Len(j.todo)
    /\ step \in {"insert", "delete"} /\ Paired(j) =>
          \A i \in 1 .. Len(j.todo) : j.vecs[i] = j.snap[j.todo[i]]

\* The transaction of a sync whose lists pair holds what it has written, on top
\* of the committed rows.
WriterInv ==
    \A p \in Procs : writer = p =>
        pc[p] \in {"insert", "delete"} /\ (Paired(job[p]) => pending = Partly(rows, job[p]))

Inv ==
    /\ TypeOK
    /\ \A p \in Procs : Planned(pc[p], job[p])
    /\ WriterInv
    /\ RowsSelfConsistent

-----------------------------------------------------------------------------
(* Facts *)

LEMMA NoJobType == NoJob \in JobType /\ ~ Wrote(NoJob) /\ Planned("idle", NoJob)
<1>1. Stale(NoJob.snap, NoJob.found) = {}
  BY DEF NoJob, Empty, Stale, Indexed
<1>2. NoJob.left = {} /\ NoJob.done = 0 /\ Len(NoJob.todo) = 0 /\ Len(NoJob.vecs) = 0
  BY DEF NoJob
<1>3. NoJob \in JobType
  BY DEF NoJob, JobType, Sources, Rows, Empty
<1>4. QED
  BY <1>1, <1>2, <1>3 DEF Wrote, Planned

\* The order of a snapshot names every chunk to embed.
LEMMA OrderNamesAll ==
    ASSUME NEW chunks \in Sources, NEW stored \in Rows,
           NEW todo \in SetToSeqs(Todo(chunks, stored))
    PROVE  /\ todo \in Seq(Rowids)
           /\ {todo[i] : i \in 1 .. Len(todo)} = Todo(chunks, stored)
<1> DEFINE S == Todo(chunks, stored)
           n == Cardinality(S)
<1>1. IsFiniteSet(S) /\ S \subseteq Rowids
  BY SyncWritesAssumption, FS_Subset DEF Todo, Live
<1>2. n \in Nat
  BY <1>1, FS_CardinalityType
<1> HIDE DEF S
<1>3. todo \in [1 .. n -> S] /\ \A i, j \in 1 .. n : i # j => todo[i] # todo[j]
  BY DEF SetToSeqs, S
<1>4. todo \in Injection(1 .. n, S)
  BY <1>3 DEF Injection, IsInjective
<1>5. Cardinality(1 .. n) = n
  BY <1>2, FS_Interval
<1> HIDE DEF n
<1>6. todo \in Surjection(1 .. n, S)
  BY <1>1, <1>4, <1>5, FS_Injection, FS_Interval, <1>2 DEF n
<1>7. todo \in Seq(Rowids) /\ Len(todo) = n
  BY <1>1, <1>2, <1>3
<1>8. {todo[i] : i \in 1 .. n} = S
  BY <1>3, <1>6 DEF Surjection
<1>9. QED
  BY <1>7, <1>8 DEF S

\* A batch is either the texts or does not pair with them.
LEMMA BatchesType ==
    ASSUME NEW texts \in Seq(Texts), NEW vecs \in Batches(texts)
    PROVE  /\ vecs \in Seq(Texts)
           /\ Len(vecs) = Len(texts) => vecs = texts
BY DEF Batches

\* A sync that has written nothing holds the committed rows.
LEMMA NothingWritten ==
    ASSUME Inv, NEW p \in Procs, writer # p
    PROVE  Partly(rows, job[p]) = rows
<1>1. job[p].done = 0 /\ job[p].left = Stale(job[p].snap, job[p].found)
  BY DEF Inv, TypeOK, JobType, Wrote
<1>2. rows \in Rows
  BY DEF Inv, TypeOK
<1>3. QED
  BY <1>1, <1>2 DEF Partly, First, Rows

\* A sync that has written everything holds what Apply says.
LEMMA AllWritten ==
    ASSUME Inv, NEW p \in Procs, pc[p] = "delete", job[p].left = {}
    PROVE  Partly(rows, job[p]) = Apply(rows, job[p].snap, job[p].found)
<1>1. First(job[p], job[p].done) = Todo(job[p].snap, job[p].found)
  BY DEF Inv, Planned
<1>2. QED
  BY <1>1 DEF Partly, Apply

\* What a sync sees when its lists pair.
LEMMA SeenIsPartly ==
    ASSUME Inv, NEW p \in Procs, pc[p] \in {"insert", "delete"}, Paired(job[p])
    PROVE  Seen(p) = Partly(rows, job[p])
BY NothingWritten DEF Inv, WriterInv, Seen

LEMMA ApplyConsistent ==
    ASSUME NEW old \in Rows, NEW chunks \in Sources, NEW stored \in Rows, Consistent(old)
    PROVE  Consistent(Apply(old, chunks, stored))
<1> SUFFICES ASSUME NEW r \in Indexed(Apply(old, chunks, stored))
             PROVE  LET row == Apply(old, chunks, stored)[r]
                    IN  row.hash \in Texts => row.vec = row.hash
  BY DEF Consistent
<1>1. CASE r \in Todo(chunks, stored)
  BY <1>1 DEF Apply, Todo, Live, Indexed, RowOf
<1>2. CASE r \notin Todo(chunks, stored)
  BY <1>2 DEF Apply, Indexed, Consistent
<1>3. QED
  BY <1>1, <1>2

-----------------------------------------------------------------------------
(* The steps *)

LEMMA InitInv == Init => Inv
<1> SUFFICES ASSUME Init PROVE Inv
  OBVIOUS
<1>1. rows \in Rows /\ RowsSelfConsistent
  BY SyncWritesAssumption
     DEF Init, LegacyRows, Rows, Row, RowsSelfConsistent, Consistent, Indexed
<1>2. TypeOK
  BY <1>1, NoJobType, SyncWritesAssumption DEF Init, TypeOK
<1>3. \A p \in Procs : Planned(pc[p], job[p])
  BY NoJobType DEF Init
<1>4. WriterInv
  BY SyncWritesAssumption DEF Init, WriterInv
<1>5. QED
  BY <1>1, <1>2, <1>3, <1>4 DEF Inv

LEMMA SelectStep ==
    ASSUME Inv, NEW p \in Procs, Select(p)
    PROVE  Inv'
<1>0. PICK chunks \in Sources : \E todo \in SetToSeqs(Todo(chunks, rows)) :
          /\ Goto(p, "idle", IF todo = <<>> THEN "delete" ELSE "embed")
          /\ job' = [job EXCEPT ![p] =
                        [snap |-> chunks, found |-> rows, todo |-> todo, vecs |-> <<>>,
                         done |-> 0, left |-> Stale(chunks, rows)]]
          /\ UNCHANGED store
  BY DEF Select
<1>1. PICK todo \in SetToSeqs(Todo(chunks, rows)) :
          /\ Goto(p, "idle", IF todo = <<>> THEN "delete" ELSE "embed")
          /\ job' = [job EXCEPT ![p] =
                        [snap |-> chunks, found |-> rows, todo |-> todo, vecs |-> <<>>,
                         done |-> 0, left |-> Stale(chunks, rows)]]
          /\ UNCHANGED store
  BY <1>0
<1> DEFINE j == [snap |-> chunks, found |-> rows, todo |-> todo, vecs |-> <<>>,
                 done |-> 0, left |-> Stale(chunks, rows)]
<1>2. rows \in Rows /\ job \in [Procs -> JobType] /\ pc \in [Procs -> {"idle", "embed", "insert", "delete"}]
  BY DEF Inv, TypeOK
<1>3. todo \in Seq(Rowids) /\ {todo[i] : i \in 1 .. Len(todo)} = Todo(chunks, rows)
  BY <1>2, OrderNamesAll
<1>4. /\ j \in JobType /\ ~ Wrote(j)
      /\ Planned(IF todo = <<>> THEN "delete" ELSE "embed", j)
  <2>1. j = [snap |-> chunks, found |-> rows, todo |-> todo, vecs |-> <<>>,
             done |-> 0, left |-> Stale(chunks, rows)]
    OBVIOUS
  <2> HIDE DEF j
  <2>2. Stale(chunks, rows) \subseteq Rowids
    BY DEF Stale, Indexed
  <2>3. j \in JobType
    BY <1>2, <1>3, <2>1, <2>2 DEF JobType
  <2>4. First(j, Len(j.todo)) = Todo(j.snap, j.found)
    BY <1>3, <2>1 DEF First
  <2>5. Len(j.vecs) = 0 /\ j.done = 0 /\ Len(j.todo) \in Nat
        /\ (j.todo = <<>> => Len(j.todo) = 0) /\ j.todo = todo
        /\ j.left = Stale(j.snap, j.found)
    BY <1>3, <2>1
  <2>6. QED
    BY <2>3, <2>4, <2>5 DEF Wrote, Planned, Paired
<1> HIDE DEF j
<1>5. job' = [job EXCEPT ![p] = j] /\ job'[p] = j
  BY <1>1, <1>2 DEF j
<1>6. writer # p
  BY <1>1 DEF Inv, WriterInv, Goto
<1>7. TypeOK'
  <2>1. \A q \in Procs : writer' = q <=> Wrote(job'[q])
    BY <1>1, <1>2, <1>4, <1>5, <1>6 DEF Inv, TypeOK, store
  <2>2. QED
    BY <1>1, <1>2, <1>4, <1>5, <2>1 DEF Inv, TypeOK, store, Goto
<1>8. \A q \in Procs : Planned(pc'[q], job'[q])
  <2>1. Planned(pc'[p], job'[p])
    BY <1>1, <1>2, <1>4, <1>5 DEF Goto
  <2>2. ASSUME NEW q \in Procs, q # p PROVE Planned(pc'[q], job'[q])
    BY <1>1, <1>2, <1>5, <2>2 DEF Inv, Planned, Goto
  <2>3. QED
    BY <2>1, <2>2
<1>9. WriterInv'
  BY <1>1, <1>2, <1>5, <1>6 DEF Inv, WriterInv, Partly, store, Goto
<1>10. QED
  BY <1>1, <1>7, <1>8, <1>9 DEF Inv, RowsSelfConsistent, store

LEMMA EmbedStep ==
    ASSUME Inv, NEW p \in Procs, Embed(p)
    PROVE  Inv'
<1> DEFINE texts == [i \in DOMAIN job[p].todo |-> job[p].snap[job[p].todo[i]]]
<1>1. PICK vecs \in Batches(texts) : job' = [job EXCEPT ![p].vecs = vecs]
  BY DEF Embed
<1>2. job \in [Procs -> JobType] /\ pc \in [Procs -> {"idle", "embed", "insert", "delete"}]
  BY DEF Inv, TypeOK
<1>3. pc[p] = "embed" /\ pc' = [pc EXCEPT ![p] = "insert"]
  BY DEF Embed, Goto
<1>4. texts \in Seq(Texts) /\ Len(texts) = Len(job[p].todo)
  <2>1. job[p].todo \in Seq(Rowids) /\ job[p].snap \in Sources
    BY <1>2 DEF JobType
  <2>2. \A i \in 1 .. Len(job[p].todo) : job[p].todo[i] \in Todo(job[p].snap, job[p].found)
    BY <1>3 DEF Inv, Planned, First
  <2>3. \A i \in DOMAIN job[p].todo : job[p].snap[job[p].todo[i]] \in Texts
    BY <2>1, <2>2 DEF Todo, Live, Sources
  <2>4. QED
    BY <2>1, <2>3
<1>5. vecs \in Seq(Texts) /\ (Len(vecs) = Len(job[p].todo) => vecs = texts)
  BY <1>4, BatchesType
<1>6. writer # p /\ job[p].done = 0
  BY <1>2, <1>3 DEF Inv, WriterInv, Planned
<1>7. /\ job'[p] = [job[p] EXCEPT !.vecs = vecs] /\ job'[p] \in JobType
      /\ job'[p].vecs = vecs /\ job'[p].done = 0 /\ job'[p].todo = job[p].todo
      /\ job'[p].snap = job[p].snap /\ job'[p].found = job[p].found
      /\ job'[p].left = job[p].left
  BY <1>1, <1>2, <1>5, <1>6 DEF JobType
<1>8. \A q \in Procs : q # p => job'[q] = job[q] /\ pc'[q] = pc[q]
  BY <1>1, <1>2, <1>3
<1>9. UNCHANGED <<rows, writer, pending>>
  BY DEF Embed, store
<1>10. TypeOK'
  <2>1. job' \in [Procs -> JobType]
    BY <1>1, <1>2, <1>7, <1>8
  <2>2. Wrote(job'[p]) <=> Wrote(job[p])
    BY <1>6, <1>7 DEF Wrote
  <2>3. \A q \in Procs : writer' = q <=> Wrote(job'[q])
    BY <1>8, <1>9, <2>2 DEF Inv, TypeOK
  <2>4. QED
    BY <1>3, <1>9, <2>1, <2>3 DEF Inv, TypeOK
<1>11. \A q \in Procs : Planned(pc'[q], job'[q])
  <2>1. Planned(pc'[p], job'[p])
    <3>1. job[p].todo \in Seq(Rowids) /\ DOMAIN job[p].todo = 1 .. Len(job[p].todo)
      BY <1>2 DEF JobType
    <3>2. 0 <= Len(vecs) /\ 0 <= Len(job[p].todo)
      BY <1>5, <3>1
    <3>3. Len(vecs) = Len(job[p].todo) =>
              \A i \in 1 .. Len(job[p].todo) : vecs[i] = job[p].snap[job[p].todo[i]]
      BY <1>5, <3>1
    <3>4. pc'[p] = "insert"
      BY <1>2, <1>3
    <3>5. Planned("embed", job[p])
      BY <1>3 DEF Inv
    <3>6. QED
      BY <1>7, <3>2, <3>3, <3>4, <3>5 DEF Planned, Paired, First
  <2>2. ASSUME NEW q \in Procs, q # p PROVE Planned(pc'[q], job'[q])
    BY <1>8, <2>2 DEF Inv, Planned
  <2>3. QED
    BY <2>1, <2>2
<1>12. WriterInv'
  BY <1>6, <1>8, <1>9 DEF Inv, WriterInv, Partly
<1>13. QED
  BY <1>9, <1>10, <1>11, <1>12 DEF Inv, RowsSelfConsistent

LEMMA InsertStep ==
    ASSUME Inv, NEW p \in Procs, Insert(p)
    PROVE  Inv'
<1> DEFINE j == job[p]
           i == j.done + 1
           r == j.todo[i]
           row == [hash |-> j.snap[r], vec |-> j.vecs[i]]
<1>1. /\ job \in [Procs -> JobType] /\ rows \in Rows /\ pending \in Rows
      /\ pc \in [Procs -> {"idle", "embed", "insert", "delete"}]
      /\ j \in JobType /\ Seen(p) \in Rows
  BY DEF Inv, TypeOK, Seen
<1>2. /\ pc[p] = "insert" /\ i \in 1 .. Len(j.todo) /\ i \in 1 .. Len(j.vecs)
      /\ writer \in {Free, p} /\ writer' = p
      /\ pending' = [Seen(p) EXCEPT ![r] = row]
      /\ job' = [job EXCEPT ![p].done = i]
      /\ UNCHANGED <<rows, pc>>
  BY <1>1 DEF Insert, Write, JobType
<1>3. r \in Todo(j.snap, j.found) /\ r \in Rowids /\ j.snap[r] \in Texts
  <2>1. First(j, Len(j.todo)) = Todo(j.snap, j.found)
    BY <1>2 DEF Inv, Planned
  <2>2. r \in First(j, Len(j.todo))
    BY <1>2 DEF First
  <2>3. QED
    BY <1>1, <2>1, <2>2 DEF Todo, Live, JobType, Sources
<1>4. row \in Row
  <2>1. j.vecs[i] \in Texts
    BY <1>1, <1>2 DEF JobType
  <2>2. QED
    BY <1>3, <2>1 DEF Row
<1>5. /\ job'[p] = [j EXCEPT !.done = i] /\ job'[p] \in JobType
      /\ job'[p].done = i /\ job'[p].todo = j.todo /\ job'[p].vecs = j.vecs
      /\ job'[p].snap = j.snap /\ job'[p].found = j.found /\ job'[p].left = j.left
  <2>1. i \in Nat
    BY <1>2
  <2>2. job'[p] = [j EXCEPT !.done = i]
    BY <1>1, <1>2
  <2> HIDE DEF i
  <2>3. QED
    BY <1>1, <2>1, <2>2 DEF JobType
<1>6. \A q \in Procs : q # p => job'[q] = job[q] /\ pc'[q] = pc[q]
  BY <1>1, <1>2
<1>7. TypeOK'
  <2>1. pending' \in Rows
    BY <1>1, <1>2, <1>3, <1>4 DEF Rows
  <2>2. job' \in [Procs -> JobType]
    BY <1>1, <1>2, <1>5, <1>6
  <2>3. i > 0
    BY <1>1 DEF JobType
  <2> HIDE DEF i, row
  <2>4. ASSUME NEW q \in Procs
        PROVE  writer' = q <=> Wrote(job'[q])
    <3>1. CASE q = p
      BY <1>2, <1>5, <2>3, <3>1 DEF Wrote
    <3>2. CASE q # p
      BY <1>2, <1>6, <3>2, SyncWritesAssumption DEF Inv, TypeOK
    <3>3. QED
      BY <3>1, <3>2
  <2>5. QED
    BY <1>1, <1>2, <2>1, <2>2, <2>4 DEF TypeOK
<1>8. \A q \in Procs : Planned(pc'[q], job'[q])
  <2>1. Planned(pc'[p], job'[p])
    <3> HIDE DEF i
    <3>1. pc'[p] = "insert" /\ i <= Len(j.todo) /\ i <= Len(j.vecs)
      BY <1>2
    <3>2. Planned("insert", j)
      BY <1>2 DEF Inv
    <3>3. First(job'[p], Len(j.todo)) = First(j, Len(j.todo))
      BY <1>5 DEF First
    <3>4. QED
      BY <1>5, <3>1, <3>2, <3>3 DEF Planned, Paired
  <2>2. ASSUME NEW q \in Procs, q # p PROVE Planned(pc'[q], job'[q])
    BY <1>6, <2>2 DEF Inv, Planned
  <2>3. QED
    BY <2>1, <2>2
<1>9. WriterInv'
  <2>1. ASSUME Paired(j) PROVE pending' = Partly(rows', job'[p])
    <3>1. Seen(p) = Partly(rows, j)
      BY <1>2, <2>1, SeenIsPartly
    <3>2. j.vecs[i] = j.snap[r]
      BY <1>2, <2>1 DEF Inv, Planned
    <3>3. row = RowOf(j.snap[r])
      BY <3>2 DEF RowOf
    <3>4. First(job'[p], job'[p].done) = First(j, j.done) \cup {r}
      <4>1. \A m : m \in 1 .. i <=> m \in 1 .. j.done \/ m = i
        BY <1>1 DEF JobType
      <4> HIDE DEF i
      <4>2. QED
        BY <1>5, <4>1 DEF First
    <3>5. Partly(rows', job'[p]) = [Partly(rows, j) EXCEPT ![r] = RowOf(j.snap[r])]
      <4>1. ASSUME NEW x \in Rowids
            PROVE  Partly(rows', job'[p])[x] =
                       IF x = r THEN RowOf(j.snap[r]) ELSE Partly(rows, j)[x]
        BY <1>2, <1>5, <3>4 DEF Partly
      <4>2. QED
        BY <1>3, <4>1 DEF Partly
    <3>6. QED
      BY <1>2, <3>1, <3>3, <3>5
  <2>2. Paired(job[p])' <=> Paired(j)
    BY <1>5 DEF Paired
  <2>3. QED
    BY <1>2, <2>1, <2>2 DEF WriterInv
<1>10. QED
  BY <1>2, <1>7, <1>8, <1>9 DEF Inv, RowsSelfConsistent

LEMMA InsertedStep ==
    ASSUME Inv, NEW p \in Procs, Inserted(p)
    PROVE  Inv'
<1>1. TypeOK'
  BY DEF Inv, TypeOK, Inserted, Goto, store
<1>2. \A q \in Procs : Planned(pc'[q], job'[q])
  BY DEF Inv, TypeOK, Planned, Paired, Inserted, Goto
<1>3. WriterInv'
  BY DEF Inv, TypeOK, WriterInv, Partly, Inserted, Goto, store
<1>4. QED
  BY <1>1, <1>2, <1>3 DEF Inv, RowsSelfConsistent, Inserted, store

LEMMA DeleteStep ==
    ASSUME Inv, NEW p \in Procs, Delete(p)
    PROVE  Inv'
<1> DEFINE j == job[p]
<1>1. PICK r \in j.left :
          /\ Write(p, [Seen(p) EXCEPT ![r] = NoRow])
          /\ job' = [job EXCEPT ![p].left = j.left \ {r}]
  BY DEF Delete
<1>2. /\ job \in [Procs -> JobType] /\ rows \in Rows /\ pending \in Rows
      /\ pc \in [Procs -> {"idle", "embed", "insert", "delete"}]
      /\ j \in JobType /\ Seen(p) \in Rows
  BY DEF Inv, TypeOK, Seen
<1>3. pc[p] = "delete" /\ UNCHANGED <<rows, pc>>
  BY DEF Delete
<1>4. /\ r \in Rowids /\ r \in Stale(j.snap, j.found) /\ j.left \subseteq Stale(j.snap, j.found)
      /\ r \notin Todo(j.snap, j.found)
      /\ Paired(j) /\ j.done = Len(j.todo)
  BY <1>2, <1>3 DEF Inv, Planned, JobType, Stale, Todo
<1>5. /\ writer \in {Free, p} /\ writer' = p
      /\ pending' = [Seen(p) EXCEPT ![r] = NoRow]
  BY <1>1 DEF Write
<1>6. /\ job'[p] = [j EXCEPT !.left = j.left \ {r}] /\ job'[p] \in JobType
      /\ job'[p].done = j.done /\ job'[p].todo = j.todo /\ job'[p].vecs = j.vecs
      /\ job'[p].snap = j.snap /\ job'[p].found = j.found /\ job'[p].left = j.left \ {r}
  BY <1>1, <1>2 DEF JobType
<1>7. \A q \in Procs : q # p => job'[q] = job[q] /\ pc'[q] = pc[q]
  BY <1>1, <1>2, <1>3
<1>8. TypeOK'
  <2>1. pending' \in Rows
    BY <1>2, <1>4, <1>5 DEF Rows
  <2>2. job' \in [Procs -> JobType]
    BY <1>1, <1>2, <1>6, <1>7
  <2>3. ASSUME NEW q \in Procs
        PROVE  writer' = q <=> Wrote(job'[q])
    <3>1. CASE q = p
      BY <1>4, <1>5, <1>6, <3>1 DEF Wrote
    <3>2. CASE q # p
      BY <1>5, <1>7, <3>2, SyncWritesAssumption DEF Inv, TypeOK
    <3>3. QED
      BY <3>1, <3>2
  <2>4. QED
    BY <1>2, <1>3, <1>5, <2>1, <2>2, <2>3 DEF TypeOK
<1>9. \A q \in Procs : Planned(pc'[q], job'[q])
  <2>1. Planned(pc'[p], job'[p])
    BY <1>3, <1>4, <1>6 DEF Inv, Planned, Paired, First
  <2>2. ASSUME NEW q \in Procs, q # p PROVE Planned(pc'[q], job'[q])
    BY <1>7, <2>2 DEF Inv, Planned
  <2>3. QED
    BY <2>1, <2>2
<1>10. WriterInv'
  <2>1. Seen(p) = Partly(rows, j)
    BY <1>3, <1>4, SeenIsPartly
  <2>2. First(job'[p], job'[p].done) = First(j, j.done) /\ r \notin First(j, j.done)
    <3>1. First(j, j.done) = Todo(j.snap, j.found)
      BY <1>3, <1>4 DEF Inv, Planned
    <3>2. QED
      BY <1>4, <1>6, <3>1 DEF First
  <2>3. Partly(rows', job'[p]) = [Partly(rows, j) EXCEPT ![r] = NoRow]
    BY <1>3, <1>4, <1>6, <2>2 DEF Partly
  <2>4. QED
    BY <1>3, <1>5, <2>1, <2>3 DEF WriterInv
<1>11. QED
  BY <1>3, <1>8, <1>9, <1>10 DEF Inv, RowsSelfConsistent

\* What a commit makes of the rows.
LEMMA CommitApplies ==
    ASSUME Inv, NEW p \in Procs, Commit(p)
    PROVE  /\ rows' = Apply(rows, job[p].snap, job[p].found)
           /\ rows' \in Rows
           /\ writer # p => rows' = rows
<1>1. Paired(job[p])
  BY DEF Inv, Planned, Commit
<1>2. QED
  BY <1>1, SeenIsPartly, AllWritten DEF Commit, Seen, Inv, TypeOK

\* A call that is over leaves the others as they were.
LEMMA LeaveStep ==
    ASSUME Inv, NEW p \in Procs, Leave(p), rows' \in Rows, Consistent(rows'),
           IF writer = p THEN writer' = Free /\ pending' = rows'
                         ELSE UNCHANGED <<rows, writer, pending>>
    PROVE  Inv'
<1>1. job' = [job EXCEPT ![p] = NoJob] /\ pc' = [pc EXCEPT ![p] = "idle"]
  BY DEF Leave
<1>2. job \in [Procs -> JobType] /\ pc \in [Procs -> {"idle", "embed", "insert", "delete"}]
  BY DEF Inv, TypeOK
<1>3. writer' # p
  BY SyncWritesAssumption
<1>4. job'[p] = NoJob /\ \A q \in Procs : q # p => job'[q] = job[q] /\ pc'[q] = pc[q]
  BY <1>1, <1>2
<1>5. TypeOK'
  <2>1. ASSUME NEW q \in Procs
        PROVE  writer' = q <=> Wrote(job'[q])
    <3>1. CASE q = p
      BY <1>3, <1>4, <3>1, NoJobType
    <3>2. CASE q # p
      BY <1>4, <3>2, SyncWritesAssumption DEF Inv, TypeOK
    <3>3. QED
      BY <3>1, <3>2
  <2>2. QED
    BY <1>1, <1>2, <2>1, NoJobType DEF Inv, TypeOK
<1>6. \A q \in Procs : Planned(pc'[q], job'[q])
  BY <1>1, <1>2, <1>4, NoJobType DEF Inv
<1>7. WriterInv'
  BY <1>3, <1>4, SyncWritesAssumption DEF Inv, WriterInv, Partly
<1>8. QED
  BY <1>5, <1>6, <1>7 DEF Inv, RowsSelfConsistent

LEMMA NextStep == ASSUME Inv, [Next]_vars PROVE Inv'
<1>1. ASSUME NEW p \in Procs, Commit(p) PROVE Inv'
  <2>1. rows' \in Rows /\ Consistent(rows') /\ (writer # p => rows' = rows)
    BY <1>1, CommitApplies, ApplyConsistent DEF Inv, TypeOK, JobType, RowsSelfConsistent
  <2>2. QED
    BY <1>1, <2>1, LeaveStep DEF Commit
<1>2. ASSUME NEW p \in Procs, Mismatch(p) \/ Fail(p) PROVE Inv'
  BY <1>2, LeaveStep DEF Mismatch, Fail, Rollback, Inv, TypeOK, RowsSelfConsistent
<1>3. CASE UNCHANGED vars
  BY <1>3 DEF vars, Inv, TypeOK, Planned, WriterInv, Partly, RowsSelfConsistent
<1>4. QED
  BY <1>1, <1>2, <1>3, SelectStep, EmbedStep, InsertStep, InsertedStep, DeleteStep DEF Next

-----------------------------------------------------------------------------
(* The theorems *)

\* At every step the transaction holds what its sync has to say of the
\* committed rows, provided that the embedder returned a vector per text
\* (vectors.py:148-174).
THEOREM Invariance == Spec => []Inv
<1>1. Inv /\ [Next]_vars => Inv'
  BY NextStep
<1>2. QED
  BY InitInv, <1>1, PTL DEF Spec

\* A process has the write lock exactly while it has written and not committed.
THEOREM TypeCorrectness == Spec => []TypeOK
BY Invariance, PTL DEF Inv

\* No short batch, crash, failed write or other process ever leaves a row with
\* the hash of one text and the vector of another (vectors.py:151-173).
THEOREM RowsAreSelfConsistent == Spec => []RowsSelfConsistent
BY Invariance, PTL DEF Inv

\* A commit is a whole sync of the rows as they are then, which is what Vectors
\* takes it for (vectors.py:151-174).
THEOREM CommitsAreWhole == Spec => SyncsAreWhole
<1> DEFINE Whole(p) == pc[p] = "delete" /\ rows' = Apply(rows, job[p].snap, job[p].found)
<1>1. ASSUME Inv, [Next]_vars, rows' # rows PROVE \E p \in Procs : Whole(p)
  <2>1. PICK p \in Procs : Commit(p)
    BY <1>1 DEF Next, vars, store, Select, Embed, Insert, Inserted, Mismatch, Delete, Fail
  <2>2. Whole(p)
    BY <1>1, <2>1, CommitApplies DEF Commit
  <2>3. QED
    BY <2>2
<1>2. Inv /\ [Next]_vars => [\E p \in Procs : Whole(p)]_rows
  BY <1>1
<1>3. QED
  BY <1>2, Invariance, PTL DEF Spec, SyncsAreWhole
===============================================================================
