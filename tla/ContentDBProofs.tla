--------------------------- MODULE ContentDBProofs ---------------------------
(***************************************************************************)
(* The safety properties of ContentDB, for any number of tables, attempts, *)
(* cases and changes.  The invariant follows a call through the file: what *)
(* it has established about it so far, and what it may still find.         *)
(***************************************************************************)
EXTENDS ContentDB, FiniteSetTheorems, TLAPS

EarlySteps == {"idle", "resolve", "look", "stat", "isfile", "connect"}
ReadSteps  == {"checked", "golds", "begin", "fetch", "commit", "fetched", "sync",
               "count", "read"}

\* What the connection reads has been so since the call began.
ViewInv ==
    /\ pc # "idle" => Situation(db) \subseteq seen
    /\ con # Closed => View \in Contents /\ Situation(View) \subseteq seen

\* The layout: as long as it has never been as expected, one of the tables that
\* are still to be read differs.
LayoutInv ==
    /\ pc = "table" /\ "expected" \notin seen =>
          \E t \in View.drifted : call.table <= t
    /\ pc \in ReadSteps => "expected" \in seen
    /\ pc = "dump" => "drifted" \in seen

\* The age, for the callers that ask for it.
AgeInv ==
    call.by \in {"probe", "query"} =>
        /\ call.stale => "dormant" \in seen
        /\ pc \in {"isfile", "connect", "table", "dump"} \cup ReadSteps =>
              call.stale \/ "live" \in seen \/ (db = Absent /\ con = Closed)

GoldInv ==
    call.by = "harness" /\ pc \in ReadSteps \ {"checked", "golds"} => "golds" \in seen

StepInv ==
    /\ pc \in {"count"} => call.by \in {"probe", "harness"}
    /\ pc \in {"golds"} => call.by = "harness"
    /\ IF pc \in EarlySteps THEN call.table = 1 ELSE con # Closed
    /\ call.by = "preflight" => pc \notin ReadSteps \ {"checked"}

RetryInv == call.attempt <= waits

Inv ==
    /\ TypeOK
    /\ AttemptsStartClean
    /\ ViewInv
    /\ LayoutInv
    /\ AgeInv
    /\ GoldInv
    /\ StepInv
    /\ RetryInv
    /\ VerdictWasTrue
    /\ TransientFailuresHidden

USE DEF upstream, results, history, By

LEMMA Special == Absent \notin Contents /\ Path \notin Contents /\ Closed \notin Contents
                 /\ Path # Closed
BY ContentDBAssumption

LEMMA NoCallType ==
    NoCall \in [by : Callers, table : 1 .. Tables, attempt : 0 .. MaxAttempts - 1,
               fetch : {"ok", "busy", "fatal"}, stale : BOOLEAN]
<1>1. 1 \in 1 .. Tables /\ 0 \in 0 .. MaxAttempts - 1
  BY ContentDBAssumption
<1>2. QED
  BY <1>1 DEF NoCall, Callers

LEMMA InitInv == Init => Inv
<1> SUFFICES ASSUME Init PROVE Inv
  OBVIOUS
<1>1. TypeOK
  <2>1. [drifted |-> {}, dormant |-> FALSE, golds |-> TRUE] \in Contents
    BY DEF Contents
  <2>2. 0 \in 0 .. MaxChanges /\ 0 \in 0 .. MaxAttempts
    BY ContentDBAssumption
  <2>3. QED
    BY <2>1, <2>2, NoCallType, Special DEF Init, TypeOK, NoOutcome, Callers, Steps
<1>2. QED
  BY <1>1, ContentDBAssumption
     DEF Init, Inv, AttemptsStartClean, ViewInv, LayoutInv, AgeInv, GoldInv, StepInv,
         RetryInv, VerdictWasTrue, TransientFailuresHidden, NoCall, NoOutcome,
         EarlySteps, ReadSteps

\* What Leave must know for VerdictWasTrue.
Verdict(status, why) ==
    LET Was(situations) == situations \subseteq seen
    IN  /\ why = "absent"   => Was({"absent"})
        /\ why = "drift"    => Was({"drifted"})
        /\ why = "moved"    => Was({"expected", "moved"})
        /\ why = "judged"   => Was({"expected", "golds"})
        /\ why \in {"expected", "warmed"} => Was({"expected"})
        /\ why = "expected" /\ call.by \in {"probe", "query"} =>
              Was(IF status = IF call.by = "probe" THEN 2 ELSE "warned"
                    THEN {"dormant"} ELSE {"live"})

LEMMA LeaveKeeps ==
    ASSUME Inv, NEW status, NEW why, Leave(status, why), Verdict(status, why),
           ranks' \in Reports \cup {<<>>}, waits' \in 0 .. MaxAttempts,
           why \in {"open", "busy"} => waits' = MaxAttempts
    PROVE  Inv'
<1>1. TypeOK'
  <2>1. call' \in [by : Callers, table : 1 .. Tables, attempt : 0 .. MaxAttempts - 1,
                   fetch : {"ok", "busy", "fatal"}, stale : BOOLEAN]
    BY Leave(status, why), NoCallType DEF Leave
  <2>2. outcome'.by \in Callers
    BY Inv, Leave(status, why) DEF Inv, TypeOK, Leave
  <2>3. pc' \in Steps /\ con' = Closed /\ txn' \in BOOLEAN
    BY Leave(status, why) DEF Leave, Steps
  <2>4. UNCHANGED <<db, changes, seen>>
    BY Leave(status, why) DEF Leave
  <2>5. QED
    BY <2>1, <2>2, <2>3, <2>4, Inv, Special, ranks' \in Reports \cup {<<>>},
       waits' \in 0 .. MaxAttempts
       DEF Inv, TypeOK
<1>2. (AttemptsStartClean /\ ViewInv /\ LayoutInv /\ AgeInv /\ GoldInv /\ StepInv /\ RetryInv)'
  BY Inv, Leave(status, why), ContentDBAssumption, waits' \in 0 .. MaxAttempts
     DEF Inv, Leave, NoCall, AttemptsStartClean, ViewInv, LayoutInv, AgeInv, GoldInv,
         StepInv, RetryInv, EarlySteps, ReadSteps
<1>3. VerdictWasTrue'
  BY Leave(status, why), Verdict(status, why) DEF Leave, VerdictWasTrue, Verdict
<1>4. TransientFailuresHidden'
  BY Leave(status, why), why \in {"open", "busy"} => waits' = MaxAttempts
     DEF Leave, TransientFailuresHidden
<1>5. QED
  BY <1>1, <1>2, <1>3, <1>4 DEF Inv

LEMMA RaiseKeeps ==
    ASSUME Inv, NEW why, Raise(why), Verdict("error", why) /\ Verdict(1, why),
           waits' \in 0 .. MaxAttempts, why \in {"open", "busy"} => waits' = MaxAttempts
    PROVE  Inv'
BY LeaveKeeps DEF Raise, Inv, TypeOK

LEMMA StartStep ==
    ASSUME NEW c \in Callers, Inv, Start(c)
    PROVE  Inv'
<1>1. TypeOK'
  <2>1. call' \in [by : Callers, table : 1 .. Tables, attempt : 0 .. MaxAttempts - 1,
                   fetch : {"ok", "busy", "fatal"}, stale : BOOLEAN]
    BY NoCallType DEF Start
  <2>2. QED
    BY <2>1, ContentDBAssumption
       DEF Inv, TypeOK, Callers, Steps, Start, NoOutcome, Situation
<1>2. AttemptsStartClean' /\ StepInv' /\ RetryInv'
  BY DEF Inv, AttemptsStartClean, StepInv, RetryInv, EarlySteps, ReadSteps, Start,
         NoCall
<1>3. ViewInv' /\ GoldInv'
  BY DEF Inv, ViewInv, GoldInv, AttemptsStartClean, ReadSteps, Start
<1>4. LayoutInv'
  BY DEF LayoutInv, ReadSteps, Start
<1>5. AgeInv'
  BY DEF AgeInv, ReadSteps, Start, NoCall
<1>6. VerdictWasTrue' /\ TransientFailuresHidden'
  BY DEF VerdictWasTrue, TransientFailuresHidden, Start, NoOutcome
<1>7. QED
  BY <1>1, <1>2, <1>3, <1>4, <1>5, <1>6 DEF Inv

LEMMA ResolveStep ==
    ASSUME Inv, Resolve
    PROVE  Inv'
<1>1. TypeOK'
  BY ContentDBAssumption DEF Inv, TypeOK, Steps, Resolve, Goto
<1>2. AttemptsStartClean' /\ StepInv' /\ RetryInv'
  BY DEF Inv, TypeOK, AttemptsStartClean, StepInv, RetryInv, EarlySteps, ReadSteps,
         Resolve, Goto
<1>3. ViewInv' /\ GoldInv'
  BY DEF Inv, ViewInv, GoldInv, ReadSteps, View, Resolve, Goto
<1>4. LayoutInv'
  BY DEF LayoutInv, ReadSteps, Resolve, Goto
<1>5. AgeInv'
  BY DEF Inv, AgeInv, ReadSteps, Resolve, Goto
<1>6. VerdictWasTrue' /\ TransientFailuresHidden'
  BY DEF Inv, VerdictWasTrue, TransientFailuresHidden, Resolve
<1>7. QED
  BY <1>1, <1>2, <1>3, <1>4, <1>5, <1>6 DEF Inv

LEMMA LookStep ==
    ASSUME Inv, Look
    PROVE  Inv'
<1>1. TypeOK'
  BY ContentDBAssumption DEF Inv, TypeOK, Steps, Look, Goto
<1>2. AttemptsStartClean' /\ StepInv' /\ RetryInv'
  BY DEF Inv, TypeOK, AttemptsStartClean, StepInv, RetryInv, EarlySteps, ReadSteps,
         Look, Goto
<1>3. ViewInv' /\ GoldInv'
  BY DEF Inv, ViewInv, GoldInv, ReadSteps, View, Look, Goto
<1>4. LayoutInv'
  BY DEF LayoutInv, ReadSteps, Look, Goto
<1>5. AgeInv'
  BY DEF Inv, AgeInv, ReadSteps, Look, Goto
<1>6. VerdictWasTrue' /\ TransientFailuresHidden'
  BY DEF Inv, VerdictWasTrue, TransientFailuresHidden, Look
<1>7. QED
  BY <1>1, <1>2, <1>3, <1>4, <1>5, <1>6 DEF Inv

LEMMA StatStep ==
    ASSUME Inv, Stat
    PROVE  Inv'
<1>1. TypeOK'
  BY Inv, Stat, ContentDBAssumption DEF Inv, TypeOK, Callers, Steps, Stat
<1>2. AttemptsStartClean' /\ StepInv' /\ RetryInv'
  BY DEF Inv, AttemptsStartClean, StepInv, RetryInv, EarlySteps, ReadSteps, Stat
<1>3. ViewInv' /\ GoldInv'
  BY DEF Inv, ViewInv, GoldInv, ReadSteps, View, Stat
<1>4. LayoutInv'
  BY DEF LayoutInv, ReadSteps, Stat
<1>5. AgeInv'
  BY Inv, Stat, ContentDBAssumption
     DEF Inv, TypeOK, ViewInv, AgeInv, StepInv, AttemptsStartClean, EarlySteps,
         ReadSteps, Situation, Stat
<1>6. VerdictWasTrue' /\ TransientFailuresHidden'
  BY DEF Inv, VerdictWasTrue, TransientFailuresHidden, Stat
<1>7. QED
  BY <1>1, <1>2, <1>3, <1>4, <1>5, <1>6 DEF Inv

LEMMA IsFileStep ==
    ASSUME Inv, IsFile
    PROVE  Inv'
<1>1. TypeOK'
  BY ContentDBAssumption DEF Inv, TypeOK, Steps, IsFile, Goto
<1>2. AttemptsStartClean' /\ StepInv' /\ RetryInv'
  BY DEF Inv, TypeOK, AttemptsStartClean, StepInv, RetryInv, EarlySteps, ReadSteps,
         IsFile, Goto
<1>3. ViewInv' /\ GoldInv'
  BY DEF Inv, ViewInv, GoldInv, ReadSteps, View, IsFile, Goto
<1>4. LayoutInv'
  BY DEF LayoutInv, ReadSteps, IsFile, Goto
<1>5. AgeInv'
  BY DEF Inv, AgeInv, IsFile, Goto
<1>6. VerdictWasTrue' /\ TransientFailuresHidden'
  BY DEF Inv, VerdictWasTrue, TransientFailuresHidden, IsFile
<1>7. QED
  BY <1>1, <1>2, <1>3, <1>4, <1>5, <1>6 DEF Inv

LEMMA ConnectStep ==
    ASSUME Inv, Connect
    PROVE  Inv'
<1>1. TypeOK'
  BY ContentDBAssumption DEF Inv, TypeOK, Steps, Connect, Goto
<1>2. AttemptsStartClean' /\ StepInv' /\ RetryInv'
  BY ContentDBAssumption
     DEF Inv, TypeOK, AttemptsStartClean, StepInv, RetryInv, ReadSteps, Connect, Goto
<1>3. ViewInv' /\ GoldInv'
  BY DEF Inv, TypeOK, ViewInv, GoldInv, ReadSteps, View, Connect, Goto
<1>4. LayoutInv'
  BY DEF Inv, TypeOK, ViewInv, LayoutInv, StepInv, EarlySteps, ReadSteps, View,
         Situation, Contents, Connect, Goto
<1>5. AgeInv'
  BY DEF Inv, AgeInv, Connect, Goto
<1>6. VerdictWasTrue' /\ TransientFailuresHidden'
  BY DEF Inv, VerdictWasTrue, TransientFailuresHidden, Connect
<1>7. QED
  BY <1>1, <1>2, <1>3, <1>4, <1>5, <1>6 DEF Inv

LEMMA ReadTableStep ==
    ASSUME Inv, ReadTable
    PROVE  Inv'
<1>1. TypeOK'
  BY ContentDBAssumption DEF Inv, TypeOK, Steps, ReadTable, Goto
<1>2. AttemptsStartClean' /\ StepInv' /\ RetryInv'
  BY DEF Inv, TypeOK, AttemptsStartClean, StepInv, RetryInv, EarlySteps, ReadSteps,
         ReadTable, Goto
<1>3. ViewInv' /\ GoldInv'
  BY DEF Inv, ViewInv, GoldInv, ReadSteps, View, ReadTable, Goto
<1>4. LayoutInv'
  BY ContentDBAssumption
     DEF Inv, TypeOK, ViewInv, LayoutInv, StepInv, EarlySteps, ReadSteps, View,
         Situation, Contents, ReadTable, Goto
<1>5. AgeInv'
  BY DEF Inv, TypeOK, AgeInv, ReadTable, Goto
<1>6. VerdictWasTrue' /\ TransientFailuresHidden'
  BY DEF Inv, VerdictWasTrue, TransientFailuresHidden, ReadTable
<1>7. QED
  BY <1>1, <1>2, <1>3, <1>4, <1>5, <1>6 DEF Inv

LEMMA OpenedStep ==
    ASSUME Inv, Opened
    PROVE  Inv'
<1>1. TypeOK'
  BY ContentDBAssumption DEF Inv, TypeOK, Steps, Opened, Goto
<1>2. AttemptsStartClean' /\ StepInv' /\ RetryInv'
  BY DEF Inv, TypeOK, AttemptsStartClean, StepInv, RetryInv, EarlySteps, Opened, Goto
<1>3. ViewInv' /\ GoldInv'
  BY DEF Inv, ViewInv, GoldInv, View, Opened, Goto
<1>4. LayoutInv'
  BY DEF Inv, LayoutInv, ReadSteps, Opened, Goto
<1>5. AgeInv'
  BY DEF Inv, AgeInv, ReadSteps, Opened, Goto
<1>6. VerdictWasTrue' /\ TransientFailuresHidden'
  BY DEF Inv, VerdictWasTrue, TransientFailuresHidden, Opened
<1>7. QED
  BY <1>1, <1>2, <1>3, <1>4, <1>5, <1>6 DEF Inv

LEMMA BeginStep ==
    ASSUME Inv, Begin
    PROVE  Inv'
<1>1. TypeOK'
  BY DEF Inv, TypeOK, Steps, Begin
<1>2. AttemptsStartClean' /\ StepInv' /\ RetryInv'
  BY DEF Inv, AttemptsStartClean, StepInv, RetryInv, EarlySteps, ReadSteps, Begin
<1>3. ViewInv' /\ GoldInv'
  BY DEF Inv, ViewInv, GoldInv, ReadSteps, View, Begin
<1>4. LayoutInv'
  BY DEF Inv, LayoutInv, ReadSteps, Begin
<1>5. AgeInv'
  BY DEF Inv, AgeInv, ReadSteps, Begin
<1>6. VerdictWasTrue' /\ TransientFailuresHidden'
  BY DEF Inv, VerdictWasTrue, TransientFailuresHidden, Begin
<1>7. QED
  BY <1>1, <1>2, <1>3, <1>4, <1>5, <1>6 DEF Inv

LEMMA FetchStep ==
    ASSUME Inv, Fetch
    PROVE  Inv'
<1>1. TypeOK'
  BY DEF Inv, TypeOK, Steps, Fetch
<1>2. AttemptsStartClean' /\ StepInv' /\ RetryInv'
  BY DEF Inv, AttemptsStartClean, StepInv, RetryInv, EarlySteps, ReadSteps, Fetch
<1>3. ViewInv' /\ GoldInv'
  BY DEF Inv, ViewInv, GoldInv, ReadSteps, View, Fetch
<1>4. LayoutInv'
  BY DEF Inv, LayoutInv, ReadSteps, Fetch
<1>5. AgeInv'
  BY DEF Inv, AgeInv, ReadSteps, Fetch
<1>6. VerdictWasTrue' /\ TransientFailuresHidden'
  BY DEF Inv, VerdictWasTrue, TransientFailuresHidden, Fetch
<1>7. QED
  BY <1>1, <1>2, <1>3, <1>4, <1>5, <1>6 DEF Inv

LEMMA CommitStep ==
    ASSUME Inv, Commit
    PROVE  Inv'
<1>1. TypeOK'
  BY Inv, Commit, ContentDBAssumption DEF Inv, TypeOK, Callers, Steps, Commit
<1>2. AttemptsStartClean' /\ StepInv' /\ RetryInv'
  BY DEF Inv, AttemptsStartClean, StepInv, RetryInv, EarlySteps, ReadSteps, Commit
<1>3. ViewInv' /\ GoldInv'
  BY DEF Inv, ViewInv, GoldInv, ReadSteps, View, Commit
<1>4. LayoutInv'
  BY DEF Inv, LayoutInv, ReadSteps, Commit
<1>5. AgeInv'
  BY DEF Inv, AgeInv, ReadSteps, Commit
<1>6. VerdictWasTrue' /\ TransientFailuresHidden'
  BY DEF Inv, VerdictWasTrue, TransientFailuresHidden, Commit
<1>7. QED
  BY <1>1, <1>2, <1>3, <1>4, <1>5, <1>6 DEF Inv

LEMMA FetchedStep ==
    ASSUME Inv, Fetched
    PROVE  Inv'
<1>1. TypeOK'
  BY ContentDBAssumption DEF Inv, TypeOK, Steps, Fetched, Goto
<1>2. AttemptsStartClean' /\ StepInv' /\ RetryInv'
  BY DEF Inv, TypeOK, AttemptsStartClean, StepInv, RetryInv, EarlySteps, ReadSteps,
         Fetched, Goto
<1>3. ViewInv' /\ GoldInv'
  BY DEF Inv, ViewInv, GoldInv, ReadSteps, View, Fetched, Goto
<1>4. LayoutInv'
  BY DEF Inv, LayoutInv, ReadSteps, Fetched, Goto
<1>5. AgeInv'
  BY DEF Inv, AgeInv, ReadSteps, Fetched, Goto
<1>6. VerdictWasTrue' /\ TransientFailuresHidden'
  BY DEF Inv, VerdictWasTrue, TransientFailuresHidden, Fetched
<1>7. QED
  BY <1>1, <1>2, <1>3, <1>4, <1>5, <1>6 DEF Inv

LEMMA UnresolvedStep == ASSUME Inv, Unresolved PROVE Inv'
BY LeaveKeeps, RaiseKeeps, ContentDBAssumption DEF Unresolved, Inv, TypeOK, Verdict

LEMMA UnindexedStep == ASSUME Inv, Unindexed PROVE Inv'
BY LeaveKeeps, RaiseKeeps, ContentDBAssumption
   DEF Unindexed, Inv, TypeOK, ViewInv, Verdict, Situation

LEMMA NotFoundStep == ASSUME Inv, NotFound PROVE Inv'
BY LeaveKeeps, RaiseKeeps, ContentDBAssumption
   DEF NotFound, Inv, TypeOK, ViewInv, Verdict, Situation

LEMMA DumpStep == ASSUME Inv, Dump PROVE Inv'
BY LeaveKeeps, RaiseKeeps, ContentDBAssumption
   DEF Dump, Inv, TypeOK, ViewInv, LayoutInv, Verdict, Situation

LEMMA ServeStep == ASSUME Inv, Serve PROVE Inv'
BY LeaveKeeps, RaiseKeeps, ContentDBAssumption
   DEF Serve, Inv, TypeOK, ViewInv, LayoutInv, ReadSteps, Verdict, Situation

LEMMA AnswerStep == ASSUME Inv, Answer PROVE Inv'
BY LeaveKeeps, RaiseKeeps, ContentDBAssumption
   DEF Answer, Inv, TypeOK, ViewInv, LayoutInv, AgeInv, StepInv, EarlySteps, ReadSteps,
       Verdict, Situation

LEMMA JudgeStep == ASSUME Inv, Judge PROVE Inv'
BY LeaveKeeps, RaiseKeeps, ContentDBAssumption
   DEF Judge, Inv, TypeOK, ViewInv, LayoutInv, AgeInv, GoldInv, StepInv, EarlySteps,
       ReadSteps, Verdict, Situation

LEMMA FatalStep == ASSUME Inv, Fatal PROVE Inv'
BY LeaveKeeps, RaiseKeeps, ContentDBAssumption
   DEF Fatal, Inv, TypeOK, ViewInv, LayoutInv, AgeInv, GoldInv, StepInv, EarlySteps,
       ReadSteps, Verdict, Situation

LEMMA CountFailsStep == ASSUME Inv, CountFails PROVE Inv'
BY LeaveKeeps, RaiseKeeps, ContentDBAssumption
   DEF CountFails, Inv, TypeOK, ViewInv, LayoutInv, AgeInv, GoldInv, StepInv,
       EarlySteps, ReadSteps, Verdict, Situation

LEMMA GoldsStep == ASSUME Inv, Golds PROVE Inv'
<1>1. CASE View.golds
  <2>1. Goto("begin") /\ UNCHANGED <<upstream, con, txn, results, history>>
    BY <1>1 DEF Golds
  <2>2. "golds" \in seen
    BY <1>1, Special DEF Inv, Golds, ViewInv, StepInv, EarlySteps, Situation
  <2>3. QED
    BY <2>1, <2>2, Inv, Golds, ContentDBAssumption
       DEF Golds, Goto, Inv, TypeOK, Steps, AttemptsStartClean, ViewInv, LayoutInv,
           AgeInv, GoldInv, StepInv, RetryInv, VerdictWasTrue, TransientFailuresHidden,
           EarlySteps, ReadSteps, View
<1>2. CASE ~ View.golds
  BY <1>2, Inv, Golds, LeaveKeeps, Special
     DEF Golds, Inv, TypeOK, ViewInv, LayoutInv, StepInv, EarlySteps, ReadSteps,
         Verdict, Situation, View
<1>3. QED
  BY <1>1, <1>2

LEMMA SyncStep == ASSUME Inv, Sync PROVE Inv'
<1>1. CASE call.by = "warmup"
  BY <1>1, LeaveKeeps DEF Sync, Inv, TypeOK, LayoutInv, ReadSteps, Verdict
<1>2. CASE call.by # "warmup"
  <2>1. /\ Goto(IF call.by = "harness" THEN "count" ELSE "read")
        /\ UNCHANGED <<upstream, con, txn, results, history>>
    BY <1>2 DEF Sync
  <2>2. QED
    BY <2>1, Inv, Sync, ContentDBAssumption
       DEF Sync, Goto, Inv, TypeOK, Steps, AttemptsStartClean, ViewInv, LayoutInv,
           AgeInv, GoldInv, StepInv, RetryInv, VerdictWasTrue, TransientFailuresHidden,
           EarlySteps, ReadSteps, View
<1>3. QED
  BY <1>1, <1>2

LEMMA CountStep == ASSUME Inv, Count PROVE Inv'
<1>1. CASE call.by = "probe"
  BY <1>1, Inv, Count, LeaveKeeps
     DEF Count, Inv, TypeOK, LayoutInv, AgeInv, StepInv, EarlySteps, ReadSteps, Verdict
<1>2. CASE call.by # "probe"
  <2>1. Goto("read") /\ UNCHANGED <<upstream, con, txn, results, history>>
    BY <1>2 DEF Count
  <2>2. QED
    BY <2>1, Inv, Count, ContentDBAssumption
       DEF Count, Goto, Inv, TypeOK, Steps, AttemptsStartClean, ViewInv, LayoutInv,
           AgeInv, GoldInv, StepInv, RetryInv, VerdictWasTrue, TransientFailuresHidden,
           EarlySteps, ReadSteps, View
<1>3. QED
  BY <1>1, <1>2

-----------------------------------------------------------------------------
(* Retries *)

LEMMA TryAgainKeeps ==
    ASSUME Inv, NEW step, NEW why, TryAgain(step, why), why \in {"open", "busy"},
           step \in {"connect", "table", "golds", "begin", "read"}, ~ txn,
           step = "connect" <=> pc = "connect",
           step = "golds" => pc = "golds",
           step = "begin" => pc = "fetched",
           step = "read" => pc = "read",
           step = "table" => pc \in {"table", "dump"}
    PROVE  Inv'
<1>1. OneMore \in 0 .. MaxAttempts /\ call.attempt + 1 <= OneMore
  BY Inv, ContentDBAssumption DEF Inv, TypeOK, RetryInv, OneMore
<1>2. CASE call.attempt + 1 < MaxAttempts
  <2>1. /\ pc' = step
        /\ call' = [call EXCEPT !.attempt = call.attempt + 1, !.table = 1, !.fetch = "ok"]
        /\ UNCHANGED <<upstream, con, txn, results, seen>>
        /\ waits' = OneMore
    BY <1>2, TryAgain(step, why) DEF TryAgain
  <2>2. call.attempt + 1 \in 0 .. MaxAttempts - 1 /\ 1 \in 1 .. Tables
    BY <1>2, Inv, ContentDBAssumption DEF Inv, TypeOK
  <2>3. TypeOK'
    BY <1>1, <2>1, <2>2, Inv DEF Inv, TypeOK, Steps
  <2>4. AttemptsStartClean' /\ StepInv' /\ RetryInv' /\ GoldInv' /\ ViewInv' /\ AgeInv'
    BY <1>1, <2>1, Inv
       DEF Inv, TypeOK, AttemptsStartClean, StepInv, RetryInv, GoldInv, ViewInv,
           AgeInv, View, EarlySteps, ReadSteps
  <2>5. LayoutInv'
    BY <2>1, Inv, Special
       DEF Inv, TypeOK, LayoutInv, ViewInv, StepInv, View, Situation, Contents,
           EarlySteps, ReadSteps
  <2>6. VerdictWasTrue' /\ TransientFailuresHidden'
    BY <2>1, Inv, <1>1 DEF Inv, TypeOK, VerdictWasTrue, TransientFailuresHidden, OneMore
  <2>7. QED
    BY <2>3, <2>4, <2>5, <2>6 DEF Inv
<1>3. CASE ~ (call.attempt + 1 < MaxAttempts)
  <2>1. Raise(why) /\ waits' = OneMore
    BY <1>3, TryAgain(step, why) DEF TryAgain
  <2>2. OneMore = MaxAttempts
    BY <1>1, <1>3, Inv, ContentDBAssumption DEF Inv, TypeOK
  <2>3. QED
    BY <1>1, <2>1, <2>2, Inv, RaiseKeeps DEF Verdict
<1>4. QED
  BY <1>2, <1>3

LEMMA RetryStep == ASSUME Inv, ConnectFails \/ Busy PROVE Inv'
<1>1. CASE ConnectFails
  BY <1>1, TryAgainKeeps DEF ConnectFails, Inv, AttemptsStartClean
<1>2. CASE Busy
  BY <1>2, TryAgainKeeps DEF Busy, Inv, AttemptsStartClean
<1>3. QED
  BY <1>1, <1>2

-----------------------------------------------------------------------------
(* Upstream *)

\* What an upstream step does to a file that stays: its layout only moves away
\* from the expected one.
LEMMA UpstreamKeeps ==
    ASSUME Inv, NEW next, Upstream(next), next \in Contents \cup {Absent},
           db # Absent /\ next # Absent => db.drifted \subseteq next.drifted,
           db = Absent /\ next # Absent => ~ next.dormant
    PROVE  Inv'
<1>1. TypeOK'
  BY Inv, Upstream(next), Special, ContentDBAssumption
     DEF Inv, TypeOK, Upstream, Situation
<1>2. AttemptsStartClean' /\ StepInv' /\ RetryInv' /\ GoldInv'
  BY Inv, Upstream(next), Special
     DEF Inv, TypeOK, AttemptsStartClean, StepInv, RetryInv, GoldInv, Upstream,
         EarlySteps, ReadSteps
<1>3. ViewInv'
  BY Inv, Upstream(next), Special
     DEF Inv, TypeOK, ViewInv, View, Upstream, AttemptsStartClean, EarlySteps
<1>4. LayoutInv'
  BY Inv, Upstream(next), Special
     DEF Inv, TypeOK, LayoutInv, StepInv, View, Upstream, EarlySteps, ReadSteps
<1>5. AgeInv'
  BY Inv, Upstream(next), Special
     DEF Inv, TypeOK, AgeInv, StepInv, Upstream, Situation, EarlySteps, ReadSteps
<1>6. VerdictWasTrue' /\ TransientFailuresHidden'
  BY Inv, Upstream(next)
     DEF Inv, VerdictWasTrue, TransientFailuresHidden, Upstream
<1>7. QED
  BY <1>1, <1>2, <1>3, <1>4, <1>5, <1>6 DEF Inv

LEMMA UpstreamStep == ASSUME Inv, Write \/ Migrate \/ Rest \/ Purge \/ Create PROVE Inv'
<1>1. CASE Write
  BY <1>1, Inv, UpstreamKeeps, Special DEF Write, Inv, TypeOK, Contents
<1>2. CASE Migrate
  BY <1>2, Inv, UpstreamKeeps, Special DEF Migrate, Inv, TypeOK, Contents
<1>3. CASE Rest
  BY <1>3, Inv, UpstreamKeeps, Special DEF Rest, Inv, TypeOK, Contents
<1>4. CASE Purge
  BY <1>4, UpstreamKeeps DEF Purge
<1>5. CASE Create
  BY <1>5, Inv, UpstreamKeeps, Special DEF Create, Contents
<1>6. QED
  BY <1>1, <1>2, <1>3, <1>4, <1>5

LEMMA NextStep == ASSUME Inv, [Next]_vars PROVE Inv'
<1>1. CASE \E c \in Callers : Start(c)
  BY <1>1, StartStep
<1>2. CASE Step
  BY <1>2, Inv, ResolveStep, UnresolvedStep, LookStep, UnindexedStep, StatStep,
     IsFileStep, NotFoundStep, ConnectStep, ReadTableStep, DumpStep, OpenedStep,
     ServeStep, GoldsStep, BeginStep, FetchStep, CommitStep, FetchedStep, SyncStep,
     CountStep, AnswerStep, JudgeStep, RetryStep, FatalStep, CountFailsStep
     DEF Step
<1>3. CASE Write \/ Migrate \/ Rest \/ Purge \/ Create
  BY <1>3, UpstreamStep
<1>4. CASE UNCHANGED vars
  BY <1>4, Inv
     DEF vars, Inv, TypeOK, AttemptsStartClean, ViewInv, LayoutInv, AgeInv, GoldInv,
         StepInv, RetryInv, VerdictWasTrue, TransientFailuresHidden, View
<1>5. QED
  BY <1>1, <1>2, <1>3, <1>4 DEF Next

-----------------------------------------------------------------------------
\* At every step of a call, what it has established of the file was so since it
\* began, whatever upstream did meanwhile, and no failed attempt left a
\* transaction or a connection behind (dbadapter.py:73-162, 211-226).
THEOREM Invariance == Spec => []Inv
<1>1. Init => Inv
  BY InitInv
<1>2. Inv /\ [Next]_vars => Inv'
  BY NextStep
<1>3. QED
  BY <1>1, <1>2, PTL DEF Spec

-----------------------------------------------------------------------------
(* The gates *)

\* The gates as the harness's documentation has them.
Thresholds(rows) ==
    LET Found(leg) == {i \in DOMAIN rows : Hit(rows[i][leg])}
        Worse == {i \in Found("bm25") :
                     rows[i].hybrid = Miss \/ rows[i].hybrid > rows[i].bm25}
    IN  /\ 5 * Cardinality(Worse) <= Cardinality(Found("bm25"))
        /\ Cardinality(Found("hybrid")) >= Cardinality(Found("bm25"))
        /\ Found("hybrid") \ Found("bm25") # {}

\* max(1, ceil(0.8 * hits)) of hits are needed: all but a fifth of them.
LEMMA NeededIsAllButAFifth ==
    ASSUME NEW hits \in Nat, NEW kept \in 0 .. hits
    PROVE  kept >= Needed(hits) <=> 5 * (hits - kept) <= hits
<1>1. CASE hits = 0
  BY <1>1 DEF Needed
<1>2. CASE hits # 0
  BY <1>2 DEF Needed
<1>3. QED
  BY <1>1, <1>2

\* For any number of cases and any ranks (harness.py:26-36, 135-164).
LEMMA PassedIsThresholds ==
    ASSUME NEW rows \in [1 .. Cases -> Row]
    PROVE  Passed(rows) <=> Thresholds(rows)
<1> DEFINE D     == 1 .. Cases
           Bm    == {i \in D : Hit(rows[i].bm25)}
           Hy    == {i \in D : Hit(rows[i].hybrid)}
           Kept  == {i \in D : rows[i].bm25 # Miss /\ NotWorse(rows[i])}
           Worse == {i \in Bm : rows[i].hybrid = Miss \/ rows[i].hybrid > rows[i].bm25}
           Saved == {i \in D : rows[i].bm25 = Miss /\ Hit(rows[i].hybrid)}
<1>1. /\ Bm25Hits(rows) = Cardinality(Bm) /\ HybridHits(rows) = Cardinality(Hy)
      /\ BindingNotWorse(rows) = Cardinality(Kept) /\ Rescues(rows) = Cardinality(Saved)
  BY DEF Bm25Hits, HybridHits, BindingNotWorse, Rescues, Tally
<1>2. Thresholds(rows) <=> /\ 5 * Cardinality(Worse) <= Cardinality(Bm)
                           /\ Cardinality(Hy) >= Cardinality(Bm)
                           /\ Hy \ Bm # {}
  BY DEF Thresholds
<1>3. \A i \in D : Hit(rows[i].bm25) <=> rows[i].bm25 # Miss
  <2>1. ASSUME NEW i \in D PROVE Hit(rows[i].bm25) <=> rows[i].bm25 # Miss
    <3>1. rows[i] \in Row
      OBVIOUS
    <3>2. rows[i].bm25 \in 1 .. TopK \cup {Miss}
      BY <3>1, RecallAssumption DEF Row
    <3>3. QED
      BY <3>2, RecallAssumption DEF Hit
  <2>2. QED
    BY <2>1
<1>4. Kept = Bm \ Worse /\ Saved = Hy \ Bm
  <2>1. \A i \in D : /\ rows[i].bm25 \in Nat \cup {Miss}
                     /\ rows[i].hybrid \in Nat \cup {Miss}
    <3>1. \A i \in D : rows[i] \in Row
      OBVIOUS
    <3>2. Bm25Ranks \subseteq Nat /\ HybridRanks \subseteq Nat
      BY RecallAssumption
    <3>3. \A row \in Row : /\ row.bm25 \in Bm25Ranks \cup {Miss}
                           /\ row.hybrid \in HybridRanks \cup {Miss}
      BY DEF Row
    <3>4. QED
      BY <3>1, <3>2, <3>3
  <2>2. \A i \in D : rows[i].bm25 # Miss =>
           (NotWorse(rows[i]) <=>
               ~ (rows[i].hybrid = Miss \/ rows[i].hybrid > rows[i].bm25))
    BY <2>1, RecallAssumption DEF NotWorse
  <2>3. QED
    BY <1>3, <2>2
<1>5. IsFiniteSet(D)
  BY RecallAssumption, FS_Interval
<1> HIDE DEF D
<1>6. IsFiniteSet(Bm) /\ IsFiniteSet(Saved) /\ IsFiniteSet(Kept)
  BY <1>5, FS_Subset
<1>7. Worse \subseteq Bm
  OBVIOUS
<1> HIDE DEF Bm, Hy, Kept, Worse, Saved
<1>8. /\ Cardinality(Bm) \in Nat /\ Cardinality(Kept) \in 0 .. Cardinality(Bm)
      /\ Cardinality(Worse) = Cardinality(Bm) - Cardinality(Kept)
  <2>1. IsFiniteSet(Worse) /\ Bm \cap Worse = Worse
    BY <1>6, <1>7, FS_Subset
  <2>2. Cardinality(Bm \ Worse) = Cardinality(Bm) - Cardinality(Worse)
    BY <1>6, <2>1, FS_Difference
  <2>3. /\ Cardinality(Bm) \in Nat /\ Cardinality(Worse) \in Nat
        /\ Cardinality(Bm \ Worse) \in Nat
    BY <1>4, <1>6, <2>1, FS_CardinalityType
  <2>4. QED
    BY <1>4, <2>2, <2>3
<1>9. Cardinality(Saved) >= 1 <=> Saved # {}
  BY <1>6, FS_EmptySet, FS_CardinalityType
<1>10. QED
  BY <1>1, <1>2, <1>4, <1>8, <1>9, NeededIsAllButAFifth DEF Passed

-----------------------------------------------------------------------------
(* What the program promises *)

\* Every step keeps every variable in its type; no step is tried more often than
\* MAX_ATTEMPTS (dbadapter.py:73-82).
THEOREM TypeCorrectness == Spec => []TypeOK
BY Invariance, PTL DEF Inv

\* No retry starts inside the transaction of the attempt before it, and no call
\* leaves a connection (dbadapter.py:112-115, 219-226).
THEOREM AttemptsAreClean == Spec => []AttemptsStartClean
BY Invariance, PTL DEF Inv

\* What a call tells of the file was so during the call, whatever the number of
\* tables and whenever upstream writes, migrates, purges or creates it
\* (dbadapter.py:96-162, projhash.py:118-126).
THEOREM VerdictsAreTrue == Spec => []VerdictWasTrue
BY Invariance, PTL DEF Inv

\* Only MAX_ATTEMPTS failures in one call can end it (dbadapter.py:73-82).
THEOREM RetriesHideFailures == Spec => []TransientFailuresHidden
BY Invariance, PTL DEF Inv

\* The status of the harness says whether the stated thresholds hold
\* (harness.py:26-36, 135-164, 292-294).
THEOREM GatesAreExact == Spec => []GatesAreTheThresholds
<1> DEFINE G == outcome.why = "judged" => (outcome.status = 0 <=> Thresholds(ranks))
<1>1. G <=> GatesAreTheThresholds
  BY DEF GatesAreTheThresholds, Thresholds
<1>2. Init => G
  BY DEF Init, NoOutcome
<1>3. ASSUME G, [Next]_vars PROVE G'
  <2>1. CASE Judge
    <3>1. /\ ranks' \in [1 .. Cases -> Row]
          /\ outcome'.status = IF Passed(ranks') THEN 0 ELSE 1
      BY <2>1, ContentDBAssumption DEF Judge, Leave
    <3>2. QED
      BY <3>1, PassedIsThresholds
  <2>2. CASE UNCHANGED <<outcome, ranks>>
    BY <1>3, <2>2
  <2>3. CASE outcome'.why # "judged"
    BY <2>3
  <2>4. CASE \E c \in Callers : Start(c)
    BY <2>3, <2>4 DEF Start, NoOutcome
  <2>5. CASE \/ Resolve \/ Look \/ Stat \/ IsFile \/ Connect \/ ReadTable \/ Opened
             \/ Begin \/ Fetch \/ Commit \/ Fetched
             \/ Write \/ Migrate \/ Rest \/ Purge \/ Create \/ UNCHANGED vars
    BY <2>2, <2>5
       DEF vars, Resolve, Look, Stat, IsFile, Connect, ReadTable, Opened, Begin, Fetch,
           Commit, Fetched, Write, Migrate, Rest, Purge, Create, Upstream
  <2>6. CASE \/ Unresolved \/ Unindexed \/ NotFound \/ Dump \/ Serve \/ Golds \/ Sync
             \/ Count \/ Answer \/ Fatal \/ CountFails
    BY <2>2, <2>3, <2>6
       DEF Unresolved, Unindexed, NotFound, Dump, Serve, Golds, Sync, Count, Answer,
           Fatal, CountFails, Raise, Leave
  <2>7. CASE ConnectFails \/ Busy
    BY <2>2, <2>3, <2>7 DEF ConnectFails, Busy, TryAgain, Raise, Leave
  <2>8. QED
    BY <1>3, <2>1, <2>4, <2>5, <2>6, <2>7 DEF Next, Step
<1>4. QED
  BY <1>1, <1>2, <1>3, PTL DEF Spec
===============================================================================
