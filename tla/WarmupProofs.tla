----------------------------- MODULE WarmupProofs -----------------------------
(***************************************************************************)
(* The safety properties of Warmup, for any number of databases, paths and *)
(* servers and whatever the bounds.  None of them is inductive: what a run *)
(* promises when it ends rests on what it has done so far and on what each *)
(* server is about to commit.                                              *)
(***************************************************************************)
EXTENDS Warmup, TLAPS

PruneSteps == {"list", "look", "delete", "finish"}

\* Which steps belong to which command.
Shape ==
    /\ \A s \in Servers : pc[s] \in SyncSteps \cup {"idle"}
    /\ pc[Tool] = "idle" <=> tool.cmd = "none"
    /\ pc[Tool] \in PruneSteps <=> tool.cmd = "prune"
    /\ tool.cmd # "prune" => tool.dead = {}
    /\ pc[Tool] # "idle" => outcome.cmd = "none"

\* The run promises nothing about the key.
Excused(k) == k \in inflight \/ FileOf[k] \in touched

\* A server that started its sync after the run began commits what is there.
ServerInv ==
    Remembered => \A s \in Servers : pc[s] \in SyncSteps =>
        LET k == job[s].key
        IN  Excused(k) \/ (There(k) /\ job[s].snap = file[FileOf[k]])

\* Rows a prune may delete.
MayGo(k) == ~ There(k) \/ FileOf[k] \in touched \/ (k \in Relative /\ tool.away)

PruneInv ==
    tool.cmd = "prune" =>
        /\ \A k \in tool.dead : MayGo(k)
        /\ pc[Tool] = "delete" => MayGo(job[Tool].key)
        /\ pc[Tool] # "list" =>
              \A k \in Paths : rows[k] # NoRow =>
                  There(k) \/ Excused(k) \/ k \in tool.todo \cup tool.dead
        /\ pc[Tool] = "finish" => tool.todo = {}

Served(k) == ~ There(k) \/ Excused(k) \/ rows[k] = Embedded(file[FileOf[k]])

WarmInv ==
    tool.cmd = "warm" =>
        /\ failed # {} => tool.failures > 0
        /\ \A k \in listed :
              \/ Served(k)
              \/ k \in failed
              \/ k \in tool.todo
              \/ pc[Tool] \in SyncSteps /\ job[Tool].key = k
        /\ pc[Tool] \in SyncSteps =>
              LET k == job[Tool].key
              IN  /\ ~ There(k) \/ Excused(k) \/ job[Tool].snap = file[FileOf[k]]
                  /\ pc[Tool] = "write" => Served(k) \/ job[Tool].found = rows[k]

Inv ==
    /\ TypeOK
    /\ Shape
    /\ ServerInv
    /\ PruneInv
    /\ WarmInv
    /\ WarmedIsServed
    /\ PruneIsThorough

-----------------------------------------------------------------------------
(* Facts *)

LEMMA NoJobType ==
    NoJob \in [key : Paths, snap : Contents, found : Revisions \cup {NoRow}]
<1>1. (CHOOSE k \in Paths : TRUE) \in Paths
  BY WarmupAssumption
<1>2. 0 \in Contents
  BY WarmupAssumption DEF Revisions, Contents
<1>3. QED
  BY <1>1, <1>2 DEF NoJob

LEMMA FirstOfType == ASSUME NEW todo, todo # {} PROVE FirstOf(todo) \in todo
BY DEF FirstOf

LEMMA NoRowIsNoRevision == NoRow \notin Revisions /\ Absent \notin Contents
BY WarmupAssumption DEF Revisions, Contents

LEMMA EmbeddedType ==
    ASSUME NEW content \in Contents
    PROVE  Embedded(content) \in Revisions \cup {NoRow}
BY DEF Embedded, Contents

LEMMA InitInv == Init => Inv
<1> SUFFICES ASSUME Init PROVE Inv
  OBVIOUS
<1> USE WarmupAssumption, NoRowIsNoRevision DEF Init
<1>1. TypeOK
  <2>1. 0 \in Revisions /\ Tool \in Procs
    BY DEF Revisions, Procs
  <2>2. /\ rows \in [Paths -> Revisions \cup {NoRow}]
        /\ retired \subseteq Paths
        /\ file \in [Dbs -> Contents \cup {Absent}]
    BY <2>1 DEF Contents
  <2>3. job \in [Procs -> [key : Paths, snap : Contents, found : Revisions \cup {NoRow}]]
    BY NoJobType
  <2>4. \A q \in Procs : writer = q <=> \/ pc[q] \in {"commit", "finish"}
                                        \/ q = Tool /\ tool.dead # {}
    BY DEF NoRun, Procs
  <2>5. QED
    BY <2>1, <2>2, <2>3, <2>4 DEF TypeOK, NoRun, Procs, SyncSteps
<1>2. Shape /\ PruneInv /\ WarmInv
  BY DEF Shape, NoRun, SyncSteps, PruneInv, WarmInv, Procs, PruneSteps
<1>3. ServerInv /\ WarmedIsServed /\ PruneIsThorough
  BY DEF ServerInv, Remembered, WarmedIsServed, PruneIsThorough, Procs, SyncSteps
<1>4. QED
  BY <1>1, <1>2, <1>3 DEF Inv

\* The type of tool.
Runs == [cmd : {"none", "warm", "prune"}, todo : SUBSET Paths,
         dead : SUBSET Paths, failures : Nat, away : BOOLEAN]

\* The type of a job.
Jobs == [key : Paths, snap : Contents, found : Revisions \cup {NoRow}]

LEMMA NoRunType == NoRun \in Runs
BY DEF NoRun, Runs

USE DEF upstream, store, run, history, Procs, SyncSteps, PruneSteps

LEMMA ServerSyncStep ==
    ASSUME NEW s \in Servers, NEW k \in Paths, Inv, ServerSync(s, k)
    PROVE  Inv'
<1>1. TypeOK'
  <2>1. /\ pc' \in [Procs -> SyncSteps \cup {"idle", "next"} \cup PruneSteps]
        /\ job' \in [Procs -> Jobs]
    <3>1. job \in [Procs -> Jobs] /\ k \in Paths
      BY DEF Inv, TypeOK, Jobs
    <3>2. file[FileOf[k]] \in Contents
      BY <3>1, WarmupAssumption DEF ServerSync, Snapshot, There, Inv, TypeOK
    <3>3. [NoJob EXCEPT !.key = k, !.snap = file[FileOf[k]]] \in Jobs
      BY <3>1, <3>2, NoJobType DEF Jobs
    <3>4. job' = [job EXCEPT ![s] =
                      [NoJob EXCEPT !.key = k, !.snap = file[FileOf[k]]]]
      BY DEF ServerSync, Snapshot
    <3>5. pc' \in [Procs -> SyncSteps \cup {"idle", "next"} \cup PruneSteps]
      BY DEF ServerSync, Snapshot, Inv, TypeOK
    <3>6. QED
      BY <3>1, <3>3, <3>4, <3>5
  <2>2. tool' \in [cmd : {"none", "warm", "prune"}, todo : SUBSET Paths,
                 dead : SUBSET Paths, failures : Nat, away : BOOLEAN]
    BY DEF Inv, TypeOK, ServerSync
  <2>3. \A q \in Procs : writer' = q <=> \/ pc'[q] \in {"commit", "finish"}
                                         \/ q = Tool /\ tool'.dead # {}
    BY DEF Inv, TypeOK, ServerSync, Snapshot
  <2>4. QED
    BY <2>1, <2>2, <2>3 DEF Inv, TypeOK, ServerSync, Jobs
<1>2. Shape'
  BY WarmupAssumption DEF Inv, Shape, ServerSync, Snapshot
<1>3. ServerInv'
  BY WarmupAssumption
     DEF Inv, TypeOK, ServerInv, Remembered, Excused, There, ServerSync, Snapshot
<1>4. PruneInv'
  BY DEF Inv, PruneInv, MayGo, Excused, There, ServerSync, Snapshot
<1>5. WarmInv'
  BY DEF Inv, Shape, WarmInv, Served, Excused, There, ServerSync, Snapshot
<1>6. WarmedIsServed'
  BY DEF Inv, WarmedIsServed, There, ServerSync
<1>7. PruneIsThorough'
  BY DEF Inv, PruneIsThorough, There, ServerSync
<1>8. QED
  BY <1>1, <1>2, <1>3, <1>4, <1>5, <1>6, <1>7 DEF Inv

LEMMA SyncReadStep ==
    ASSUME NEW p \in Procs, Inv, SyncRead(p)
    PROVE  Inv'
<1>1. TypeOK'
  BY DEF Inv, TypeOK, SyncRead, Goto
<1>2. Shape'
  BY DEF Inv, Shape, SyncRead, Goto
<1>3. ServerInv'
  BY DEF Inv, ServerInv, Remembered, Excused, There, SyncRead, Goto
<1>4. PruneInv'
  BY DEF Inv, PruneInv, MayGo, Excused, There, SyncRead, Goto
<1>5. WarmInv'
  BY DEF Inv, TypeOK, WarmInv, Served, Excused, There, SyncRead, Goto
<1>6. WarmedIsServed'
  BY DEF Inv, WarmedIsServed, There, SyncRead
<1>7. PruneIsThorough'
  BY DEF Inv, PruneIsThorough, There, SyncRead
<1>8. QED
  BY <1>1, <1>2, <1>3, <1>4, <1>5, <1>6, <1>7 DEF Inv

LEMMA SyncNothingStep ==
    ASSUME NEW p \in Procs, Inv, SyncNothing(p)
    PROVE  Inv'
<1>1. TypeOK'
  BY NoJobType DEF Inv, TypeOK, SyncNothing, SyncOver, After
<1>2. Shape'
  BY WarmupAssumption DEF Inv, Shape, SyncNothing, SyncOver, After
<1>3. ServerInv'
  BY DEF Inv, TypeOK, ServerInv, Remembered, Excused, There, SyncNothing, SyncOver,
         After
<1>4. PruneInv'
  BY DEF Inv, PruneInv, MayGo, Excused, There, SyncNothing, SyncOver, After
<1>5. WarmInv'
  BY DEF Inv, TypeOK, WarmInv, Served, Excused, There, SyncNothing, SyncOver, After
<1>6. WarmedIsServed'
  BY DEF Inv, WarmedIsServed, There, SyncNothing
<1>7. PruneIsThorough'
  BY DEF Inv, PruneIsThorough, There, SyncNothing
<1>8. QED
  BY <1>1, <1>2, <1>3, <1>4, <1>5, <1>6, <1>7 DEF Inv

LEMMA SyncWriteStep ==
    ASSUME NEW p \in Procs, Inv, SyncWrite(p)
    PROVE  Inv'
<1>1. TypeOK'
  BY WarmupAssumption DEF Inv, TypeOK, SyncWrite, Goto
<1>2. Shape'
  BY DEF Inv, Shape, SyncWrite, Goto
<1>3. ServerInv'
  BY DEF Inv, ServerInv, Remembered, Excused, There, SyncWrite, Goto
<1>4. PruneInv'
  BY DEF Inv, PruneInv, MayGo, Excused, There, SyncWrite, Goto
<1>5. WarmInv'
  BY DEF Inv, WarmInv, Served, Excused, There, SyncWrite, Goto
<1>6. WarmedIsServed'
  BY DEF Inv, WarmedIsServed, There, SyncWrite
<1>7. PruneIsThorough'
  BY DEF Inv, PruneIsThorough, There, SyncWrite
<1>8. QED
  BY <1>1, <1>2, <1>3, <1>4, <1>5, <1>6, <1>7 DEF Inv

LEMMA SyncCommitStep ==
    ASSUME NEW p \in Procs, Inv, SyncCommit(p)
    PROVE  Inv'
<1>1. TypeOK'
  BY NoJobType, EmbeddedType, WarmupAssumption DEF Inv, TypeOK, Shape, SyncCommit, SyncOver, After
<1>2. Shape'
  BY WarmupAssumption DEF Inv, Shape, SyncCommit, SyncOver, After
<1>3. ServerInv'
  BY DEF Inv, TypeOK, ServerInv, Remembered, Excused, There, SyncCommit, SyncOver, After
<1>4. PruneInv'
  BY DEF Inv, Shape, PruneInv, ServerInv, Remembered, MayGo, Excused, There,
         SyncCommit, SyncOver
<1>5. WarmInv'
  BY DEF Inv, TypeOK, Shape, WarmInv, ServerInv, Remembered, Served, Excused, There,
         SyncCommit, SyncOver, After
<1>6. WarmedIsServed'
  BY DEF Inv, Shape, WarmedIsServed, ServerInv, Remembered, Excused, There, SyncCommit
<1>7. PruneIsThorough'
  BY DEF Inv, Shape, PruneIsThorough, ServerInv, Remembered, Excused, There, SyncCommit
<1>8. QED
  BY <1>1, <1>2, <1>3, <1>4, <1>5, <1>6, <1>7 DEF Inv

LEMMA SyncFailsStep ==
    ASSUME NEW p \in Procs, Inv, SyncFails(p)
    PROVE  Inv'
<1>1. TypeOK'
  BY NoJobType, WarmupAssumption
     DEF Inv, TypeOK, Shape, SyncFails, Fails, Failing, Rollback, SyncOver, After
<1>2. Shape'
  BY WarmupAssumption DEF Inv, Shape, SyncFails, Fails, Failing, SyncOver, After
<1>3. ServerInv'
  BY DEF Inv, TypeOK, ServerInv, Remembered, Excused, There, SyncFails, Fails, Failing,
         SyncOver, After
<1>4. PruneInv'
  BY DEF Inv, PruneInv, MayGo, Excused, There, SyncFails, Fails, Failing, SyncOver, After
<1>5. WarmInv'
  <2>1. CASE p = Tool
    <3>1. tool.failures \in Nat /\ tool'.failures = tool.failures + 1
          /\ tool'.todo = tool.todo /\ tool'.cmd = tool.cmd
      BY <2>1 DEF Inv, TypeOK, SyncFails, Fails
    <3>2. failed' = failed \cup {job[Tool].key} /\ pc'[Tool] = "next"
      BY <2>1 DEF Inv, TypeOK, SyncFails, Fails, Failing, SyncOver, After
    <3>3. \A k \in Paths : Served(k)' = Served(k)
      BY DEF Served, Excused, There, SyncFails, Fails
    <3>4. listed' = listed /\ listed \subseteq Paths
      BY DEF Inv, TypeOK, SyncFails, Fails
    <3>5. tool'.failures > 0
      BY <3>1
    <3>6. QED
      BY <3>1, <3>2, <3>3, <3>4, <3>5 DEF Inv, WarmInv
  <2>2. CASE p # Tool
    BY <2>2 DEF Inv, TypeOK, WarmInv, Served, Excused, There, SyncFails, Fails, Failing,
                SyncOver
  <2>3. QED
    BY <2>1, <2>2
<1>6. WarmedIsServed'
  BY DEF Inv, WarmedIsServed, There, SyncFails, Fails, Failing
<1>7. PruneIsThorough'
  BY DEF Inv, PruneIsThorough, There, SyncFails, Fails, Failing
<1>8. QED
  BY <1>1, <1>2, <1>3, <1>4, <1>5, <1>6, <1>7 DEF Inv

LEMMA SyncLockedStep ==
    ASSUME NEW p \in Procs, Inv, SyncLocked(p)
    PROVE  Inv'
<1>1. TypeOK'
  BY NoJobType DEF Inv, TypeOK, SyncLocked, Locked, Fails, Failing, Rollback, SyncOver, After
<1>2. Shape'
  BY WarmupAssumption DEF Inv, Shape, SyncLocked, Fails, Failing, SyncOver, After
<1>3. ServerInv'
  BY DEF Inv, TypeOK, ServerInv, Remembered, Excused, There, SyncLocked, Fails, Failing,
         SyncOver, After
<1>4. PruneInv'
  BY DEF Inv, PruneInv, MayGo, Excused, There, SyncLocked, Fails, Failing, SyncOver, After
<1>5. WarmInv'
  <2>1. CASE p = Tool
    <3>1. tool.failures \in Nat /\ tool'.failures = tool.failures + 1
          /\ tool'.todo = tool.todo /\ tool'.cmd = tool.cmd
      BY <2>1 DEF Inv, TypeOK, SyncLocked, Fails
    <3>2. failed' = failed \cup {job[Tool].key} /\ pc'[Tool] = "next"
      BY <2>1 DEF Inv, TypeOK, SyncLocked, Fails, Failing, SyncOver, After
    <3>3. \A k \in Paths : Served(k)' = Served(k)
      BY DEF Served, Excused, There, SyncLocked, Fails
    <3>4. listed' = listed /\ listed \subseteq Paths
      BY DEF Inv, TypeOK, SyncLocked, Fails
    <3>5. tool'.failures > 0
      BY <3>1
    <3>6. QED
      BY <3>1, <3>2, <3>3, <3>4, <3>5 DEF Inv, WarmInv
  <2>2. CASE p # Tool
    BY <2>2 DEF Inv, TypeOK, WarmInv, Served, Excused, There, SyncLocked, Fails, Failing,
                SyncOver
  <2>3. QED
    BY <2>1, <2>2
<1>6. WarmedIsServed'
  BY DEF Inv, WarmedIsServed, There, SyncLocked, Fails, Failing
<1>7. PruneIsThorough'
  BY DEF Inv, PruneIsThorough, There, SyncLocked, Fails, Failing
<1>8. QED
  BY <1>1, <1>2, <1>3, <1>4, <1>5, <1>6, <1>7 DEF Inv

LEMMA DieStep ==
    ASSUME NEW p \in Procs, Inv, Die(p)
    PROVE  Inv'
<1>1. TypeOK'
  <2>1. /\ pc' \in [Procs -> SyncSteps \cup {"idle", "next"} \cup PruneSteps]
        /\ job' \in [Procs -> Jobs]
    BY NoJobType DEF Inv, TypeOK, Die, Jobs
  <2>2. tool' \in Runs
    <3>1. tool \in Runs
      BY DEF Inv, TypeOK, Runs
    <3>2. tool' = NoRun \/ tool' = tool
      BY DEF Die
    <3>3. QED
      BY <3>1, <3>2, NoRunType
  <2>3. \A q \in Procs : writer' = q <=> \/ pc'[q] \in {"commit", "finish"}
                                         \/ q = Tool /\ tool'.dead # {}
    BY WarmupAssumption DEF Inv, TypeOK, Die, Rollback, NoRun
  <2>4. QED
    BY <2>1, <2>2, <2>3, WarmupAssumption DEF Inv, TypeOK, Die, Rollback, Forget, Runs, Jobs
<1>2. Shape'
  BY DEF Inv, TypeOK, Shape, Die, NoRun
<1>3. ServerInv'
  BY DEF Inv, TypeOK, Shape, ServerInv, Remembered, Excused, There, Die
<1>4. PruneInv'
  BY DEF Inv, PruneInv, MayGo, Excused, There, Die, NoRun
<1>5. WarmInv'
  BY DEF Inv, WarmInv, Served, Excused, There, Die, NoRun
<1>6. WarmedIsServed'
  BY DEF Inv, WarmedIsServed, There, Die, Forget
<1>7. PruneIsThorough'
  BY DEF Inv, Shape, PruneIsThorough, There, Die
<1>8. QED
  BY <1>1, <1>2, <1>3, <1>4, <1>5, <1>6, <1>7 DEF Inv

LEMMA WarmStep ==
    ASSUME Inv, Warm
    PROVE  Inv'
<1>1. TypeOK'
  <2>1. /\ pc' \in [Procs -> SyncSteps \cup {"idle", "next"} \cup PruneSteps]
        /\ job' \in [Procs -> Jobs]
    BY DEF Inv, TypeOK, Warm, Jobs
  <2>2. tool' \in Runs
    <3>1. PICK todo \in {{k \in Paths \ Relative : There(k)}} \cup {{k} : k \in Paths} :
              tool' = [NoRun EXCEPT !.cmd = "warm", !.todo = todo]
      BY Warm DEF Warm
    <3>2. todo \in SUBSET Paths
      OBVIOUS
    <3>3. QED
      BY <3>1, <3>2, NoRunType DEF Runs
  <2>3. \A q \in Procs : writer' = q <=> \/ pc'[q] \in {"commit", "finish"}
                                         \/ q = Tool /\ tool'.dead # {}
    BY DEF Inv, TypeOK, Shape, Warm, NoRun
  <2>4. QED
    BY <2>1, <2>2, <2>3, WarmupAssumption DEF Inv, TypeOK, Warm, Runs, Jobs
<1>2. Shape'
  BY WarmupAssumption DEF Inv, TypeOK, Shape, Warm, NoRun
<1>3. ServerInv'
  BY DEF ServerInv, Excused, Warm
<1>4. PruneInv'
  BY DEF PruneInv, Warm
<1>5. WarmInv'
  BY DEF WarmInv, Warm
<1>6. WarmedIsServed'
  BY DEF WarmedIsServed, Warm
<1>7. PruneIsThorough'
  BY DEF PruneIsThorough, Warm
<1>8. QED
  BY <1>1, <1>2, <1>3, <1>4, <1>5, <1>6, <1>7 DEF Inv

LEMMA WarmSkipStep ==
    ASSUME Inv, WarmSkip
    PROVE  Inv'
<1>1. TypeOK'
  BY DEF Inv, TypeOK, WarmSkip
<1>2. Shape'
  BY DEF Inv, Shape, WarmSkip
<1>3. ServerInv'
  BY DEF Inv, ServerInv, Remembered, Excused, There, WarmSkip
<1>4. PruneInv'
  BY DEF Inv, Shape, PruneInv, WarmSkip
<1>5. WarmInv'
  BY DEF Inv, WarmInv, Served, Excused, There, WarmSkip
<1>6. WarmedIsServed'
  BY DEF Inv, Shape, WarmedIsServed, WarmSkip
<1>7. PruneIsThorough'
  BY DEF Inv, Shape, PruneIsThorough, WarmSkip
<1>8. QED
  BY <1>1, <1>2, <1>3, <1>4, <1>5, <1>6, <1>7 DEF Inv

LEMMA WarmOneStep ==
    ASSUME Inv, WarmOne
    PROVE  Inv'
<1>1. TypeOK'
  <2>1. /\ pc' \in [Procs -> SyncSteps \cup {"idle", "next"} \cup PruneSteps]
        /\ job' \in [Procs -> Jobs]
    <3>1. job \in [Procs -> Jobs] /\ FirstOf(tool.todo) \in Paths
      BY FirstOfType DEF WarmOne, Inv, TypeOK, Jobs
    <3>2. file[FileOf[FirstOf(tool.todo)]] \in Contents
      BY <3>1, WarmupAssumption DEF WarmOne, Snapshot, There, Inv, TypeOK
    <3>3. [NoJob EXCEPT !.key = FirstOf(tool.todo),
                        !.snap = file[FileOf[FirstOf(tool.todo)]]] \in Jobs
      BY <3>1, <3>2, NoJobType DEF Jobs
    <3>4. job' = [job EXCEPT ![Tool] =
                      [NoJob EXCEPT !.key = FirstOf(tool.todo),
                                    !.snap = file[FileOf[FirstOf(tool.todo)]]]]
      BY DEF WarmOne, Snapshot
    <3>5. pc' \in [Procs -> SyncSteps \cup {"idle", "next"} \cup PruneSteps]
      BY DEF WarmOne, Snapshot, Inv, TypeOK
    <3>6. QED
      BY <3>1, <3>3, <3>4, <3>5
  <2>2. tool' \in [cmd : {"none", "warm", "prune"}, todo : SUBSET Paths,
                 dead : SUBSET Paths, failures : Nat, away : BOOLEAN]
    BY DEF Inv, TypeOK, WarmOne
  <2>3. \A q \in Procs : writer' = q <=> \/ pc'[q] \in {"commit", "finish"}
                                         \/ q = Tool /\ tool'.dead # {}
    BY DEF Inv, TypeOK, WarmOne, Snapshot
  <2>4. QED
    BY <2>1, <2>2, <2>3 DEF Inv, TypeOK, WarmOne, Jobs
<1>2. Shape'
  BY DEF Inv, Shape, WarmOne, Snapshot
<1>3. ServerInv'
  BY DEF Inv, Shape, ServerInv, Remembered, Excused, There, WarmOne, Snapshot
<1>4. PruneInv'
  BY DEF Inv, Shape, PruneInv, WarmOne
<1>5. WarmInv'
  BY DEF Inv, TypeOK, WarmInv, Served, Excused, There, WarmOne, Snapshot
<1>6. WarmedIsServed'
  BY DEF Inv, Shape, WarmedIsServed, WarmOne
<1>7. PruneIsThorough'
  BY DEF Inv, Shape, PruneIsThorough, WarmOne
<1>8. QED
  BY <1>1, <1>2, <1>3, <1>4, <1>5, <1>6, <1>7 DEF Inv

LEMMA WarmCannotOpenStep ==
    ASSUME Inv, WarmCannotOpen
    PROVE  Inv'
<1>1. TypeOK'
  <2>1. /\ pc' \in [Procs -> SyncSteps \cup {"idle", "next"} \cup PruneSteps]
        /\ job' \in [Procs -> Jobs]
    BY DEF Inv, TypeOK, WarmCannotOpen, Jobs
  <2>2. tool' \in Runs
    <3>1. tool \in Runs
      BY DEF Inv, TypeOK, Runs
    <3>2. tool' = [tool EXCEPT !.todo = tool.todo \ {FirstOf(tool.todo)},
                               !.failures = tool.failures + 1]
      BY DEF WarmCannotOpen
    <3>3. tool.todo \ {FirstOf(tool.todo)} \in SUBSET Paths /\ tool.failures + 1 \in Nat
      BY <3>1 DEF Runs
    <3>4. QED
      BY <3>1, <3>2, <3>3 DEF Runs
  <2>3. \A q \in Procs : writer' = q <=> \/ pc'[q] \in {"commit", "finish"}
                                         \/ q = Tool /\ tool'.dead # {}
    BY DEF Inv, TypeOK, WarmCannotOpen
  <2>4. failed' \subseteq Paths
    BY FirstOfType DEF Inv, TypeOK, WarmCannotOpen
  <2>5. QED
    BY <2>1, <2>2, <2>3, <2>4, WarmupAssumption DEF Inv, TypeOK, WarmCannotOpen, Runs, Jobs
<1>2. Shape'
  BY DEF Inv, Shape, WarmCannotOpen
<1>3. ServerInv'
  BY DEF Inv, ServerInv, Remembered, Excused, There, WarmCannotOpen
<1>4. PruneInv'
  BY DEF Inv, Shape, PruneInv, WarmCannotOpen
<1>5. WarmInv'
  BY DEF Inv, TypeOK, WarmInv, Served, Excused, There, WarmCannotOpen
<1>6. WarmedIsServed'
  BY DEF Inv, Shape, WarmedIsServed, WarmCannotOpen
<1>7. PruneIsThorough'
  BY DEF Inv, Shape, PruneIsThorough, WarmCannotOpen
<1>8. QED
  BY <1>1, <1>2, <1>3, <1>4, <1>5, <1>6, <1>7 DEF Inv

LEMMA WarmDoneStep ==
    ASSUME Inv, WarmDone
    PROVE  Inv'
<1>1. TypeOK'
  BY NoJobType DEF Inv, TypeOK, Shape, WarmDone, End, NoRun
<1>2. Shape'
  BY DEF Inv, TypeOK, Shape, WarmDone, End, NoRun
<1>3. ServerInv'
  BY DEF Inv, TypeOK, ServerInv, Remembered, Excused, There, WarmDone, End
<1>4. PruneInv'
  BY DEF PruneInv, WarmDone, End, NoRun
<1>5. WarmInv'
  BY DEF WarmInv, WarmDone, End, NoRun
<1>6. WarmedIsServed'
  BY DEF Inv, TypeOK, WarmedIsServed, WarmInv, Served, Excused, There, WarmDone, End
<1>7. PruneIsThorough'
  BY DEF Inv, Shape, PruneIsThorough, WarmDone, End
<1>8. QED
  BY <1>1, <1>2, <1>3, <1>4, <1>5, <1>6, <1>7 DEF Inv

LEMMA PruneStep ==
    ASSUME Inv, Prune
    PROVE  Inv'
<1>1. TypeOK'
  <2>1. /\ pc' \in [Procs -> SyncSteps \cup {"idle", "next"} \cup PruneSteps]
        /\ job' \in [Procs -> Jobs]
    BY DEF Inv, TypeOK, Prune, Jobs
  <2>2. tool' \in Runs
    <3>1. PICK away \in BOOLEAN : tool' = [NoRun EXCEPT !.cmd = "prune", !.away = away]
      BY Prune DEF Prune
    <3>2. QED
      BY <3>1, NoRunType DEF Runs
  <2>3. \A q \in Procs : writer' = q <=> \/ pc'[q] \in {"commit", "finish"}
                                         \/ q = Tool /\ tool'.dead # {}
    BY DEF Inv, TypeOK, Shape, Prune, NoRun
  <2>4. QED
    BY <2>1, <2>2, <2>3, WarmupAssumption DEF Inv, TypeOK, Prune, Runs, Jobs
<1>2. Shape'
  BY WarmupAssumption DEF Inv, TypeOK, Shape, Prune
<1>3. ServerInv'
  BY DEF ServerInv, Excused, Prune
<1>4. PruneInv'
  BY DEF Inv, TypeOK, PruneInv, Prune, NoRun
<1>5. WarmInv'
  BY DEF WarmInv, Prune
<1>6. WarmedIsServed'
  BY DEF WarmedIsServed, Prune
<1>7. PruneIsThorough'
  BY DEF PruneIsThorough, Prune
<1>8. QED
  BY <1>1, <1>2, <1>3, <1>4, <1>5, <1>6, <1>7 DEF Inv

LEMMA PruneListStep ==
    ASSUME Inv, PruneList
    PROVE  Inv'
<1>1. TypeOK'
  BY DEF Inv, TypeOK, PruneList, Goto, Stored
<1>2. Shape'
  BY DEF Inv, Shape, PruneList, Goto
<1>3. ServerInv'
  BY DEF Inv, ServerInv, Remembered, Excused, There, PruneList, Goto
<1>4. PruneInv'
  BY DEF Inv, PruneInv, MayGo, There, PruneList, Goto, Stored
<1>5. WarmInv'
  BY DEF Inv, Shape, WarmInv, PruneList, Goto
<1>6. WarmedIsServed'
  BY DEF Inv, Shape, WarmedIsServed, PruneList, Goto
<1>7. PruneIsThorough'
  BY DEF Inv, Shape, PruneIsThorough, PruneList, Goto
<1>8. QED
  BY <1>1, <1>2, <1>3, <1>4, <1>5, <1>6, <1>7 DEF Inv

LEMMA PruneKeepStep ==
    ASSUME Inv, PruneKeep
    PROVE  Inv'
<1>1. TypeOK'
  BY DEF Inv, TypeOK, PruneKeep
<1>2. Shape'
  BY DEF Inv, Shape, PruneKeep
<1>3. ServerInv'
  BY DEF Inv, ServerInv, Remembered, Excused, There, PruneKeep
<1>4. PruneInv'
  BY DEF Inv, PruneInv, MayGo, Excused, There, PruneKeep, IsFile
<1>5. WarmInv'
  BY DEF Inv, Shape, WarmInv, PruneKeep
<1>6. WarmedIsServed'
  BY DEF Inv, Shape, WarmedIsServed, PruneKeep
<1>7. PruneIsThorough'
  BY DEF Inv, Shape, PruneIsThorough, PruneKeep
<1>8. QED
  BY <1>1, <1>2, <1>3, <1>4, <1>5, <1>6, <1>7 DEF Inv

LEMMA PruneGoneStep ==
    ASSUME Inv, PruneGone
    PROVE  Inv'
<1>1. TypeOK'
  BY FirstOfType DEF Inv, TypeOK, PruneGone, Goto
<1>2. Shape'
  BY DEF Inv, Shape, PruneGone, Goto
<1>3. ServerInv'
  BY DEF Inv, ServerInv, Remembered, Excused, There, PruneGone, Goto
<1>4. PruneInv'
  BY DEF Inv, TypeOK, PruneInv, MayGo, Excused, There, PruneGone, IsFile, Goto
<1>5. WarmInv'
  BY DEF Inv, Shape, WarmInv, PruneGone, Goto
<1>6. WarmedIsServed'
  BY DEF Inv, Shape, WarmedIsServed, PruneGone, Goto
<1>7. PruneIsThorough'
  BY DEF Inv, Shape, PruneIsThorough, PruneGone, Goto
<1>8. QED
  BY <1>1, <1>2, <1>3, <1>4, <1>5, <1>6, <1>7 DEF Inv

LEMMA PruneDeleteStep ==
    ASSUME Inv, PruneDelete
    PROVE  Inv'
<1>1. TypeOK'
  <2>1. /\ pc' \in [Procs -> SyncSteps \cup {"idle", "next"} \cup PruneSteps]
        /\ job' \in [Procs -> Jobs]
    BY NoJobType DEF Inv, TypeOK, PruneDelete, Goto, Jobs
  <2>2. tool' \in Runs
    <3>1. tool \in Runs /\ job[Tool].key \in Paths
      BY DEF Inv, TypeOK, Runs
    <3>2. tool' = [tool EXCEPT !.todo = tool.todo \ {job[Tool].key},
                               !.dead = tool.dead \cup {job[Tool].key}]
      BY DEF PruneDelete
    <3>3. /\ tool.todo \ {job[Tool].key} \in SUBSET Paths
          /\ tool.dead \cup {job[Tool].key} \in SUBSET Paths
      BY <3>1 DEF Runs
    <3>4. QED
      BY <3>1, <3>2, <3>3 DEF Runs
  <2>3. \A q \in Procs : writer' = q <=> \/ pc'[q] \in {"commit", "finish"}
                                         \/ q = Tool /\ tool'.dead # {}
    BY WarmupAssumption DEF Inv, TypeOK, PruneDelete, Goto
  <2>4. QED
    BY <2>1, <2>2, <2>3 DEF Inv, TypeOK, PruneDelete, Runs, Jobs
<1>2. Shape'
  BY DEF Inv, Shape, PruneDelete, Goto
<1>3. ServerInv'
  BY DEF Inv, ServerInv, Remembered, Excused, There, PruneDelete, Goto
<1>4. PruneInv'
  BY DEF Inv, TypeOK, PruneInv, MayGo, Excused, There, PruneDelete, Goto
<1>5. WarmInv'
  BY DEF Inv, Shape, WarmInv, PruneDelete, Goto
<1>6. WarmedIsServed'
  BY DEF Inv, Shape, WarmedIsServed, PruneDelete, Goto
<1>7. PruneIsThorough'
  BY DEF Inv, Shape, PruneIsThorough, PruneDelete, Goto
<1>8. QED
  BY <1>1, <1>2, <1>3, <1>4, <1>5, <1>6, <1>7 DEF Inv

LEMMA PruneModelsStep ==
    ASSUME Inv, PruneModels
    PROVE  Inv'
<1>1. TypeOK'
  BY WarmupAssumption DEF Inv, TypeOK, PruneModels, Goto
<1>2. Shape'
  BY DEF Inv, Shape, PruneModels, Goto
<1>3. ServerInv'
  BY DEF Inv, ServerInv, Remembered, Excused, There, PruneModels, Goto
<1>4. PruneInv'
  BY DEF Inv, PruneInv, MayGo, Excused, There, PruneModels, Goto
<1>5. WarmInv'
  BY DEF Inv, Shape, WarmInv, PruneModels, Goto
<1>6. WarmedIsServed'
  BY DEF Inv, Shape, WarmedIsServed, PruneModels, Goto
<1>7. PruneIsThorough'
  BY DEF Inv, Shape, PruneIsThorough, PruneModels, Goto
<1>8. QED
  BY <1>1, <1>2, <1>3, <1>4, <1>5, <1>6, <1>7 DEF Inv

LEMMA PruneCommitStep ==
    ASSUME Inv, PruneCommit
    PROVE  Inv'
<1>1. TypeOK'
  BY NoJobType, WarmupAssumption DEF Inv, TypeOK, PruneCommit, End, NoRun
<1>2. Shape'
  BY DEF Inv, TypeOK, Shape, PruneCommit, End, NoRun
<1>3. ServerInv'
  BY DEF Inv, ServerInv, Remembered, Excused, There, PruneCommit, End
<1>4. PruneInv'
  BY DEF PruneInv, PruneCommit, End, NoRun
<1>5. WarmInv'
  BY DEF WarmInv, PruneCommit, End, NoRun
<1>6. WarmedIsServed'
  BY DEF Inv, Shape, WarmedIsServed, PruneCommit, End
<1>7. PruneIsThorough'
  BY DEF Inv, PruneIsThorough, PruneInv, Excused, There, PruneCommit, End
<1>8. QED
  BY <1>1, <1>2, <1>3, <1>4, <1>5, <1>6, <1>7 DEF Inv

LEMMA PruneLockedStep ==
    ASSUME Inv, PruneLocked
    PROVE  Inv'
<1>1. TypeOK'
  BY NoJobType DEF Inv, TypeOK, PruneLocked, Locked, End, NoRun
<1>2. Shape'
  BY DEF Inv, TypeOK, Shape, PruneLocked, End, NoRun
<1>3. ServerInv'
  BY DEF Inv, TypeOK, ServerInv, Remembered, Excused, There, PruneLocked, End
<1>4. PruneInv'
  BY DEF PruneInv, PruneLocked, End, NoRun
<1>5. WarmInv'
  BY DEF WarmInv, PruneLocked, End, NoRun
<1>6. WarmedIsServed'
  BY DEF Inv, Shape, WarmedIsServed, PruneLocked, End
<1>7. PruneIsThorough'
  BY DEF Inv, Shape, PruneIsThorough, PruneLocked, End
<1>8. QED
  BY <1>1, <1>2, <1>3, <1>4, <1>5, <1>6, <1>7 DEF Inv

LEMMA UpstreamStep ==
    ASSUME NEW d \in Dbs, Inv, Upstream(d)
    PROVE  Inv'
<1>1. TypeOK'
  <2>1. changes' \in 0 .. MaxChanges /\ changes' \in Revisions
    BY WarmupAssumption DEF Inv, TypeOK, Revisions, Upstream
  <2>2. file' \in [Dbs -> Contents \cup {Absent}]
    BY <2>1 DEF Inv, TypeOK, Contents, Upstream
  <2>3. touched' \subseteq Dbs
    BY DEF Inv, TypeOK, Upstream
  <2>4. QED
    BY <2>1, <2>2, <2>3 DEF Inv, TypeOK, Upstream
<1>2. Shape'
  BY DEF Inv, Shape, Upstream
<1>3. ServerInv'
  BY WarmupAssumption DEF Inv, TypeOK, ServerInv, Remembered, Excused, There, Upstream
<1>4. PruneInv'
  BY WarmupAssumption
     DEF Inv, TypeOK, Shape, PruneInv, Remembered, MayGo, Excused, There, Upstream
<1>5. WarmInv'
  BY WarmupAssumption
     DEF Inv, TypeOK, Shape, WarmInv, Remembered, Served, Excused, There, Upstream
<1>6. WarmedIsServed'
  BY WarmupAssumption DEF Inv, TypeOK, WarmedIsServed, Remembered, There, Upstream
<1>7. PruneIsThorough'
  BY WarmupAssumption DEF Inv, TypeOK, PruneIsThorough, Remembered, There, Upstream
<1>8. QED
  BY <1>1, <1>2, <1>3, <1>4, <1>5, <1>6, <1>7 DEF Inv

LEMMA StutterStep == ASSUME Inv, UNCHANGED vars PROVE Inv'
BY Inv DEF Inv, vars, TypeOK, Shape, ServerInv, PruneInv, WarmInv, WarmedIsServed,
   PruneIsThorough, Remembered, Served, MayGo, Excused, There

LEMMA NextStep == ASSUME Inv, [Next]_vars PROVE Inv'
<1>1. ASSUME NEW p \in Procs, SyncStep(p) PROVE Inv'
  BY <1>1, Inv, SyncReadStep, SyncNothingStep, SyncWriteStep, SyncCommitStep,
     SyncLockedStep DEF SyncStep
<1>2. ASSUME NEW s \in Servers, NEW k \in Paths, ServerSync(s, k) PROVE Inv'
  BY <1>2, ServerSyncStep
<1>3. CASE Warm \/ Prune \/ WarmCannotOpen
  BY <1>3, WarmStep, PruneStep, WarmCannotOpenStep
<1>4. CASE ToolStep
  BY <1>1, <1>4, Inv, WarmSkipStep, WarmOneStep, WarmDoneStep, PruneListStep,
     PruneKeepStep,
     PruneGoneStep, PruneDeleteStep, PruneModelsStep, PruneCommitStep, PruneLockedStep
     DEF ToolStep
<1>5. ASSUME NEW p \in Procs, SyncFails(p) \/ Die(p) PROVE Inv'
  BY <1>5, SyncFailsStep, DieStep
<1>6. ASSUME NEW d \in Dbs, Upstream(d) PROVE Inv'
  BY <1>6, UpstreamStep
<1>7. CASE UNCHANGED vars
  BY <1>7, StutterStep
<1>8. QED
  BY <1>1, <1>2, <1>3, <1>4, <1>5, <1>6, <1>7 DEF Next

-----------------------------------------------------------------------------
\* Whatever the program does, a run has at every step done for the paths it is
\* through with what it promises for them when it ends, and a server that began
\* its sync after the run commits nothing else (warmup.py:50-132,
\* vectors.py:100-181).
THEOREM Invariance == Spec => []Inv
<1>1. Init => Inv
  BY InitInv
<1>2. Inv /\ [Next]_vars => Inv'
  BY NextStep
<1>3. QED
  BY <1>1, <1>2, PTL DEF Spec

-----------------------------------------------------------------------------
(* What the program promises *)

\* Every step keeps every variable in its type; a process holds the write lock
\* exactly while it has written and not committed (vectors.py:168-181).
THEOREM TypeCorrectness == Spec => []TypeOK
BY Invariance, PTL DEF Inv

\* After a warmup every key it was given is up to date, whatever happened to
\* the others, unless that key failed and the status says so (warmup.py:12-13,
\* 30-47, 121-132).
THEOREM WarmupServes == Spec => []WarmedIsServed
BY Invariance, PTL DEF Inv

\* A prune that ended with status 0 left nothing behind (warmup.py:50-76).
THEOREM PruneCleans == Spec => []PruneIsThorough
BY Invariance, PTL DEF Inv

\* A prune commits the deletion of the rows of no database but one that was
\* gone while it ran, from where it looked (warmup.py:67-76).
THEOREM PruneSpares == Spec => LiveRowsKept
<1> DEFINE Ends == pc[Tool] = "finish" /\ pc'[Tool] = "idle"
           Lost(k) == rows[k] # NoRow /\ rows'[k] = NoRow
<1>1. ASSUME Inv, [Next]_vars, Ends, NEW k \in Paths, Lost(k) PROVE MayGo(k)
  <2>1. CASE \E p \in Procs : SyncCommit(p)
    BY <1>1, <2>1 DEF SyncCommit, SyncOver, Inv, TypeOK
  <2>2. CASE PruneCommit
    <3>1. k \in tool.dead
      BY <1>1, <2>2 DEF PruneCommit
    <3>2. QED
      BY <3>1, <1>1 DEF Inv, Shape, PruneInv
  <2>3. CASE UNCHANGED rows
    BY <1>1, <2>3
  <2>4. QED
    BY <1>1, <2>1, <2>2, <2>3
       DEF Next, vars, SyncStep, ToolStep, ServerSync, SyncRead, SyncNothing, SyncWrite,
           SyncLocked, SyncFails, Fails, Die, Warm, WarmSkip, WarmOne, WarmCannotOpen,
           WarmDone, Prune, PruneList, PruneKeep, PruneGone, PruneDelete, PruneModels,
           PruneLocked, End, Upstream
<1>2. Inv /\ [Next]_vars =>
          [Ends => \A k \in Paths : Lost(k) =>
              ~ There(k) \/ FileOf[k] \in touched \/ (k \in Relative /\ tool.away)]_vars
  BY <1>1 DEF MayGo
<1>3. QED
  BY <1>2, Invariance, PTL DEF Spec, LiveRowsKept
===============================================================================
