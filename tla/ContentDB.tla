------------------------------- MODULE ContentDB -------------------------------
(***************************************************************************)
(* One caller at a time of a context-mode content DB: a query of the       *)
(* server, its preflight, the drift probe, the warmup of one database or   *)
(* the recall harness.  All of them resolve the path, open the file        *)
(* read-only, check its layout and read it, each its own way, while the    *)
(* upstream program writes, migrates, purges and creates it.  Callers only *)
(* read, each through a connection of its own, so one at a time is enough. *)
(*                                                                         *)
(* A statement may fail for a while (locked, busy) or for good; a failed   *)
(* attempt stands for the attempt and the timeout before it.  A connection *)
(* to a file that was unlinked keeps reading what the file held.           *)
(***************************************************************************)
EXTENDS Recall, Sequences

CONSTANTS
    Tables,         \* number of tables in EXPECTED_COLUMNS
    Absent,         \* there is no file at the path
    Path, Closed,   \* the connection: to the file at the path, or none
    MaxAttempts,    \* MAX_ATTEMPTS
    Reports,        \* the recall rows the harness may find: a set of sequences
    MaxChanges      \* bound: upstream changes

\* Which tables differ from EXPECTED_COLUMNS; was the file last written more
\* than STALE_AFTER_DAYS ago; are the harness's gold chunks at their rowids.
Contents == [drifted : SUBSET (1 .. Tables), dormant : BOOLEAN, golds : BOOLEAN]

ASSUME ContentDBAssumption ==
    /\ Tables \in Nat \ {0}
    /\ MaxAttempts \in Nat \ {0}
    /\ MaxChanges \in Nat
    /\ Reports \subseteq [1 .. Cases -> Row]
    /\ Absent \notin Contents
    /\ {Path, Closed} \cap Contents = {}
    /\ Path # Closed

VARIABLES
    db,         \* upstream: the file at the path
    changes,    \* upstream changes so far
    pc,         \* the next step of the call
    call,       \* the local state of the call
    con,        \* its connection: Closed, Path, or what an unlinked file held
    txn,        \* the connection has a transaction open
    outcome,    \* how the last call ended, and why
    ranks,      \* the rows of the last recall report, <<>> without one
    seen,       \* history: what the file has been since the call began
    waits       \* history: failures of this call, MaxAttempts standing for more

vars == <<db, changes, pc, call, con, txn, outcome, ranks, seen, waits>>

upstream == <<db, changes>>
results  == <<outcome, ranks>>
history  == <<seen, waits>>

Callers == {"query", "preflight", "probe", "warmup", "harness"}

\* by: the caller; table: the one _assert_schema looks at; attempt: failed
\* attempts of the step under retry; fetch: how the fetch of snapshot_chunks
\* ended; stale: the verdict of stale_status.
NoCall == [by |-> "query", table |-> 1, attempt |-> 0, fetch |-> "ok", stale |-> FALSE]

By(callers) == call.by \in callers

\* What a statement on the connection reads.
View == IF con = Path THEN db ELSE con

Situation(file) ==
    IF file = Absent THEN {"absent"}
    ELSE {IF file.drifted = {} THEN "expected" ELSE "drifted",
          IF file.dormant THEN "dormant" ELSE "live",
          IF file.golds THEN "golds" ELSE "moved"}

NoOutcome == [by |-> "query", status |-> "none", why |-> "none"]

Init ==
    /\ db \in {Absent, [drifted |-> {}, dormant |-> FALSE, golds |-> TRUE]}
    /\ changes = 0
    /\ pc = "idle"
    /\ call = NoCall
    /\ con = Closed
    /\ txn = FALSE
    /\ outcome = NoOutcome
    /\ ranks = <<>>
    /\ seen = {}
    /\ waits = 0

\* On to the next step of the call, its attempts counted from the start.
Goto(step) ==
    /\ pc' = step
    /\ call' = [call EXCEPT !.attempt = 0]

\* The call is over; the finally clauses on the way have closed the connection.
Leave(status, why) ==
    /\ pc' = "idle"
    /\ call' = NoCall
    /\ con' = Closed
    /\ txn' = FALSE
    /\ outcome' = [by |-> call.by, status |-> status, why |-> why]
    /\ UNCHANGED <<upstream, seen>>

\* It ends in an exception: an error of the tool; status 1 of a command that
\* does not catch it, and of a warmup, which counts it as a failure.
Raise(why) == Leave(IF By({"query"}) THEN "error" ELSE 1, why) /\ UNCHANGED ranks

-----------------------------------------------------------------------------
(* Finding the file *)

Start(c) ==
    /\ pc = "idle"
    /\ pc' = "resolve"
    /\ call' = [NoCall EXCEPT !.by = c]
    /\ outcome' = NoOutcome
    /\ ranks' = <<>>
    /\ seen' = Situation(db)
    /\ waits' = 0
    /\ UNCHANGED <<upstream, con, txn>>

\* resolve_db: $CTX_SEMANTIC_DB, or the hash of a project directory that
\* exists.  The harness opens the file at once.
Resolve ==
    /\ pc = "resolve"
    /\ Goto(IF By({"harness"}) THEN "isfile" ELSE "look")
    /\ UNCHANGED <<upstream, con, txn, results, history>>

\* No override and no such directory: preflight and probe say so and pass, the
\* warmup's parser refuses a directory it was given.
Unresolved ==
    /\ pc = "resolve"
    /\ \/ By({"preflight", "probe"}) /\ Leave(0, "unresolved") /\ UNCHANGED ranks
       \/ By({"warmup"}) /\ Leave(2, "unresolved") /\ UNCHANGED ranks
       \/ ~ By({"preflight", "probe"}) /\ Raise("unresolved")
    /\ UNCHANGED waits

\* The is_file() of the caller.
Look ==
    /\ pc = "look"
    /\ db # Absent
    /\ Goto(IF By({"warmup"}) THEN "isfile" ELSE "stat")
    /\ UNCHANGED <<upstream, con, txn, results, history>>

Unindexed ==
    /\ pc = "look"
    /\ db = Absent
    /\ Leave(IF By({"query"}) THEN "empty" ELSE 0, "absent")
    /\ UNCHANGED <<ranks, waits>>

\* stale_status; a file that is gone by now looks live.
Stat ==
    /\ pc = "stat"
    /\ pc' = "isfile"
    /\ call' = [call EXCEPT !.stale = (db # Absent /\ db.dormant)]
    /\ UNCHANGED <<upstream, con, txn, results, history>>

\* The is_file() of open_db.
IsFile ==
    /\ pc = "isfile"
    /\ db # Absent
    /\ Goto("connect")
    /\ UNCHANGED <<upstream, con, txn, results, history>>

\* FileNotFoundError, which preflight and probe catch.
NotFound ==
    /\ pc = "isfile"
    /\ db = Absent
    /\ IF By({"preflight", "probe"})
         THEN Leave(0, "absent") /\ UNCHANGED ranks
         ELSE Raise("absent")
    /\ UNCHANGED waits

-----------------------------------------------------------------------------
(* Opening it and checking its layout *)

Connect ==
    /\ pc = "connect"
    /\ db # Absent
    /\ con' = Path
    /\ Goto("table")
    /\ UNCHANGED <<upstream, txn, results, history>>

\* Bug: the first table speaks for all of them.
ReadFirstTable ==
    /\ pc = "table"
    /\ IF call.table \in View.drifted
         THEN pc' = "dump" /\ UNCHANGED call
         ELSE Goto("checked")
    /\ UNCHANGED <<upstream, con, txn, results, history>>

\* One PRAGMA table_info, a read of its own.
ReadTable ==
    /\ pc = "table"
    /\ \/ /\ call.table \in View.drifted
          /\ pc' = "dump"
          /\ UNCHANGED call
       \/ /\ call.table \notin View.drifted
          /\ call.table < Tables
          /\ call' = [call EXCEPT !.table = @ + 1]
          /\ UNCHANGED pc
       \/ /\ call.table \notin View.drifted
          /\ call.table = Tables
          /\ Goto("checked")
    /\ UNCHANGED <<upstream, con, txn, results, history>>

\* The fix kit takes one more read; then SchemaDrift, which preflight and probe
\* turn into status 1.
Dump ==
    /\ pc = "dump"
    /\ Raise("drift")
    /\ UNCHANGED waits

\* open_db returns.  A query whose claim is fresh goes without a sync.
Opened ==
    /\ pc = "checked"
    /\ \E step \in CASE By({"probe"})   -> {"count"}
                     [] By({"harness"}) -> {"golds"}
                     [] By({"warmup"})  -> {"begin"}
                     [] By({"query"})   -> {"begin", "read"}
                     [] OTHER           -> {} :
           Goto(step)
    /\ UNCHANGED <<upstream, con, txn, results, history>>

Serve ==
    /\ pc = "checked"
    /\ By({"preflight"})
    /\ Leave(0, "expected")
    /\ UNCHANGED <<ranks, waits>>

-----------------------------------------------------------------------------
(* Reading it *)

\* get_many of the gold rowids: the harness stops when one has moved.
Golds ==
    /\ pc = "golds"
    /\ IF View.golds
         THEN Goto("begin") /\ UNCHANGED <<upstream, con, txn, results, seen>>
         ELSE Leave(2, "moved") /\ UNCHANGED ranks
    /\ UNCHANGED waits

\* snapshot_chunks: BEGIN, SELECT, and COMMIT whatever became of the SELECT.
Begin ==
    /\ pc = "begin"
    /\ pc' = "fetch"
    /\ txn' = TRUE
    /\ UNCHANGED <<upstream, call, con, results, history>>

Fetch ==
    /\ pc = "fetch"
    /\ pc' = "commit"
    /\ \E how \in {"ok", "busy", "fatal"} : call' = [call EXCEPT !.fetch = how]
    /\ UNCHANGED <<upstream, con, txn, results, history>>

\* Bug: an attempt that fails does not get to its COMMIT.
CommitWhenFetched ==
    /\ pc = "commit"
    /\ pc' = "fetched"
    /\ txn' = (call.fetch # "ok")
    /\ UNCHANGED <<upstream, call, con, results, history>>

Commit ==
    /\ pc = "commit"
    /\ pc' = "fetched"
    /\ txn' = FALSE
    /\ UNCHANGED <<upstream, call, con, results, history>>

Fetched ==
    /\ pc = "fetched"
    /\ call.fetch = "ok"
    /\ Goto("sync")
    /\ UNCHANGED <<upstream, con, txn, results, history>>

\* The rest of vectors.sync, which does not read upstream.
Sync ==
    /\ pc = "sync"
    /\ IF By({"warmup"})
         THEN Leave(0, "warmed") /\ UNCHANGED ranks
         ELSE /\ Goto(IF By({"harness"}) THEN "count" ELSE "read")
              /\ UNCHANGED <<upstream, con, txn, results, seen>>
    /\ UNCHANGED waits

\* SELECT count(*), with no retry around it.
Count ==
    /\ pc = "count"
    /\ IF By({"probe"})
         THEN Leave(IF call.stale THEN 2 ELSE 0, "expected") /\ UNCHANGED ranks
         ELSE Goto("read") /\ UNCHANGED <<upstream, con, txn, results, seen>>
    /\ UNCHANGED waits

\* The reads of both legs and of the blocks: the query is answered, with a
\* warning in front if the file looked stale.
Answer ==
    /\ pc = "read"
    /\ By({"query"})
    /\ Leave(IF call.stale THEN "warned" ELSE "answer", "expected")
    /\ UNCHANGED <<ranks, waits>>

\* The same reads for every case, and the report.
Judge ==
    /\ pc = "read"
    /\ By({"harness"})
    /\ ranks' \in Reports
    /\ Leave(IF Passed(ranks') THEN 0 ELSE 1, "judged")
    /\ waits' = 0

-----------------------------------------------------------------------------
(* Failures *)

OneMore == IF waits < MaxAttempts THEN waits + 1 ELSE waits

\* Bug: one attempt too few.
TryOnceLess(step, why) ==
    /\ waits' = OneMore
    /\ IF call.attempt + 2 < MaxAttempts
         THEN /\ pc' = step
              /\ call' = [call EXCEPT !.attempt = @ + 1, !.table = 1, !.fetch = "ok"]
              /\ UNCHANGED <<upstream, con, txn, results, seen>>
         ELSE Raise(why)

\* Bug: attempts are not counted.
TryForEver(step, why) ==
    /\ waits' = OneMore
    /\ pc' = step
    /\ call' = [call EXCEPT !.table = 1, !.fetch = "ok"]
    /\ UNCHANGED <<upstream, con, txn, results, seen>>

\* Bug: one attempt too many.
TryOnceMore(step, why) ==
    /\ waits' = OneMore
    /\ IF call.attempt < MaxAttempts
         THEN /\ pc' = step
              /\ call' = [call EXCEPT !.attempt = @ + 1, !.table = 1, !.fetch = "ok"]
              /\ UNCHANGED <<upstream, con, txn, results, seen>>
         ELSE Raise(why)

\* The step is tried again from its start, MaxAttempts times in all.
TryAgain(step, why) ==
    /\ waits' = OneMore
    /\ IF call.attempt + 1 < MaxAttempts
         THEN /\ pc' = step
              /\ call' = [call EXCEPT !.attempt = @ + 1, !.table = 1, !.fetch = "ok"]
              /\ UNCHANGED <<upstream, con, txn, results, seen>>
         ELSE Raise(why)

\* Any failure to open the file counts as one that may pass.
ConnectFails ==
    /\ pc = "connect"
    /\ TryAgain("connect", "open")

\* Under _with_retry, a locked or busy database.
Busy ==
    \/ pc \in {"table", "dump"} /\ TryAgain("table", "busy")
    \/ pc \in {"golds", "read"} /\ TryAgain(pc, "busy")
    \/ pc = "fetched" /\ call.fetch = "busy" /\ TryAgain("begin", "busy")

\* Any other failure, the embedder's and the store's included.
Fatal ==
    /\ \/ pc \in {"table", "dump", "golds", "sync", "read"}
       \/ pc = "fetched" /\ call.fetch = "fatal"
    /\ Raise("fatal")
    /\ UNCHANGED waits

CountFails ==
    /\ pc = "count"
    /\ Raise("count")
    /\ UNCHANGED waits

-----------------------------------------------------------------------------
(* Upstream, the program whose database this is *)

Upstream(file) ==
    /\ changes < MaxChanges
    /\ changes' = changes + 1
    /\ db' = file
    /\ con' = IF con = Path /\ file = Absent THEN db ELSE con
    /\ seen' = IF pc = "idle" THEN seen ELSE seen \cup Situation(file)
    /\ UNCHANGED <<pc, call, txn, results, waits>>

\* Chunks are written; the gold chunks may move.
Write ==
    /\ db # Absent
    /\ \E golds \in BOOLEAN : Upstream([db EXCEPT !.dormant = FALSE, !.golds = golds])

\* An upgrade changes more tables, and never one back.
Migrate ==
    /\ db # Absent
    /\ \E more \in (SUBSET (1 .. Tables)) \ {{}} :
           /\ more \cap db.drifted = {}
           /\ Upstream([db EXCEPT !.dormant = FALSE, !.drifted = @ \cup more])

\* STALE_AFTER_DAYS pass without a write.
Rest ==
    /\ db # Absent
    /\ ~ db.dormant
    /\ Upstream([db EXCEPT !.dormant = TRUE])

Purge ==
    /\ db # Absent
    /\ Upstream(Absent)

\* A new file, in either layout.
Create ==
    /\ db = Absent
    /\ \E drifted \in SUBSET (1 .. Tables), golds \in BOOLEAN :
           Upstream([drifted |-> drifted, dormant |-> FALSE, golds |-> golds])

Step ==
    \/ Resolve \/ Unresolved \/ Look \/ Unindexed \/ Stat \/ IsFile \/ NotFound
    \/ Connect \/ ReadTable \/ Dump \/ Opened \/ Serve
    \/ Golds \/ Begin \/ Fetch \/ Commit \/ Fetched \/ Sync \/ Count \/ Answer \/ Judge
    \/ ConnectFails \/ Busy \/ Fatal \/ CountFails

Next ==
    \/ \E c \in Callers : Start(c)
    \/ Step
    \/ Write \/ Migrate \/ Rest \/ Purge \/ Create

\* A call that can step does step: it waits for nothing but timeouts.
Spec     == Init /\ [][Next]_vars
FairSpec == Spec /\ WF_vars(Step)

-----------------------------------------------------------------------------
(* Properties *)

Steps == {"idle", "resolve", "look", "stat", "isfile", "connect", "table", "dump",
          "checked", "golds", "begin", "fetch", "commit", "fetched", "sync", "count",
          "read"}

TypeOK ==
    /\ db \in Contents \cup {Absent}
    /\ changes \in 0 .. MaxChanges
    /\ pc \in Steps
    /\ call \in [by : Callers, table : 1 .. Tables, attempt : 0 .. MaxAttempts - 1,
                 fetch : {"ok", "busy", "fatal"}, stale : BOOLEAN]
    /\ con \in Contents \cup {Path, Closed}
    /\ con = Path => db # Absent
    /\ txn \in BOOLEAN
    /\ outcome.by \in Callers
    /\ ranks \in Reports \cup {<<>>}
    /\ seen \subseteq {"absent", "expected", "drifted", "dormant", "live", "golds", "moved"}
    /\ waits \in 0 .. MaxAttempts

\* However a call got here, by retries, drift or a failure half-way, BEGIN finds
\* no transaction open, and nothing is open once the call is over
\* (dbadapter.py:112-115, 219-226; a BEGIN inside a transaction would raise).
AttemptsStartClean ==
    /\ txn => con # Closed /\ pc \in {"fetch", "commit"}
    /\ pc \in {"idle", "resolve", "look", "stat", "isfile", "connect"} => con = Closed

\* A call tells of the file what was so at some moment of the call, although
\* it looks at the file several times and at its tables one by one: an answer
\* or a pass comes from a file whose whole layout was as expected, a drift from
\* one whose layout was not, and a verdict on its age from one that lay dormant
\* or did not (projhash.py:118-126, dbadapter.py:96-116, 127-162, server.py:115-120, 183-195, probe.py:42-67,
\* harness.py:182-187).
VerdictWasTrue ==
    LET Was(situations) == situations \subseteq seen
    IN  /\ outcome.why = "absent"   => Was({"absent"})
        /\ outcome.why = "drift"    => Was({"drifted"})
        /\ outcome.why = "moved"    => Was({"expected", "moved"})
        /\ outcome.why = "judged"   => Was({"expected", "golds"})
        /\ outcome.why \in {"expected", "warmed"} => Was({"expected"})
        /\ outcome.why = "expected" /\ outcome.by \in {"probe", "query"} =>
              Was(IF outcome.status = IF outcome.by = "probe" THEN 2 ELSE "warned"
                    THEN {"dormant"} ELSE {"live"})

\* Failures that pass stay inside: fewer than MaxAttempts of them, at whatever
\* steps, never end a call (dbadapter.py:73-82, 100-107, 219-226).  The
\* SELECT count(*) of probe.py:56 and harness.py:191 is the exception.
TransientFailuresHidden == outcome.why \in {"open", "busy"} => waits = MaxAttempts

\* The recall gates, said without counters: hybrid search may lose at most one
\* in five of the gold chunks BM25 finds to a worse rank, must find at least
\* as many in all, and at least one that BM25 does not find (harness.py:26-36).
GatesAreTheThresholds ==
    LET Found(leg) == {i \in DOMAIN ranks : Hit(ranks[i][leg])}
        Worse == {i \in Found("bm25") :
                     ranks[i].hybrid = Miss \/ ranks[i].hybrid > ranks[i].bm25}
        Holds == /\ 5 * Cardinality(Worse) <= Cardinality(Found("bm25"))
                 /\ Cardinality(Found("hybrid")) >= Cardinality(Found("bm25"))
                 /\ Found("hybrid") \ Found("bm25") # {}
    IN  outcome.why = "judged" => (outcome.status = 0 <=> Holds)

\* Every call ends, on a database that stays locked or vanishes as well: each
\* retry is bounded (dbadapter.py:75-82, 100-107).
CallsEnd == pc # "idle" ~> pc = "idle"
===============================================================================
