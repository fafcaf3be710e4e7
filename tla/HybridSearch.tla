----------------------------- MODULE HybridSearch -----------------------------
(***************************************************************************)
(* One call of hybrid.search in ctx_semantic/hybrid.py, again and again,   *)
(* while the upstream writer commits and other calls sync the store.  The  *)
(* call reads upstream once for the filter, once per query for the BM25    *)
(* leg and once per section for the blocks, each read in a transaction of  *)
(* its own.                                                                *)
(*                                                                         *)
(* Rowids are numbers because ties are broken by them.  Which rows match a *)
(* query and how well is the query's choice, so a BM25 leg is any ranking  *)
(* of at most limit rows and a vector leg any ranking of all rows it may   *)
(* return.  A chunk is what a rowid holds: a rowid may be used again for   *)
(* another chunk.  Of its content only the length counts and where lower() *)
(* of it holds the terms of each query, which is where the content holds   *)
(* them unless lower() makes characters before them longer.                *)
(***************************************************************************)
EXTENDS Excerpt, FiniteSets, SequencesExt

CONSTANTS
    Rowids,         \* rowids of the upstream chunks table
    Chunks,         \* what a rowid can hold
    NoChunk,        \* the rowid holds nothing
    LabelOf,        \* label of the source of each chunk
    All,            \* no filter
    Queries,        \* number of queries of a call
    TextOf,         \* content of each chunk
    Limits,         \* the numbers of chunks per section a call may ask for
    MaxCommits      \* bound: upstream commits

ASSUME HybridSearchAssumption ==
    /\ Rowids \subseteq Nat
    /\ IsFiniteSet(Rowids)
    /\ NoChunk \notin Chunks
    /\ DOMAIN LabelOf = Chunks
    /\ All \notin Range(LabelOf)
    /\ Queries \in 1 .. 3
    /\ DOMAIN TextOf = Chunks
    /\ \A c \in Chunks :
          /\ TextOf[c].len \in Nat
          /\ \A q \in 1 .. Queries :
                /\ TextOf[c].terms[q] \in Seq([at : Int, size : Nat \ {0}, grown : Nat])
                /\ \A i \in DOMAIN TextOf[c].terms[q] :
                      LET term == TextOf[c].terms[q][i]
                      IN  term.at \in {NotFound} \cup 0 .. TextOf[c].len - term.size
    /\ Limits \subseteq 1 .. 10 /\ Limits # {}
    /\ MaxCommits \in Nat

VARIABLES
    source,     \* upstream: rowid -> chunk
    store,      \* rowids that have a vector
    commits,    \* upstream commits so far
    pc,         \* the next step of the call
    query,      \* the query it is at
    filter,     \* the label asked for, or All
    limit,      \* chunks per section
    view,       \* the rowids _Narrowed pins for the vector leg
    legs,       \* per query: the two ranked lists
    sections,   \* the sections rendered so far
    rewritten   \* history: rowids upstream wrote since the call began

vars == <<source, store, commits, pc, query, filter, limit, view, legs, sections,
          rewritten>>

upstream == <<source, store, commits, rewritten>>

-----------------------------------------------------------------------------
(* Ranking *)

\* k of rrf and the width of the vector leg.
K == 60
VectorK == IF 4 * limit > 20 THEN 4 * limit ELSE 20

Rank(r, leg) == CHOOSE i \in DOMAIN leg : leg[i] = r
In(r, leg)   == \E i \in DOMAIN leg : leg[i] = r

\* A fused score is a fraction (the code adds floats); a leg without the row
\* adds nothing.
Share(r, leg) == IF In(r, leg) THEN [num |-> 1, den |-> K + Rank(r, leg)]
                               ELSE [num |-> 0, den |-> 1]
Plus(x, y)    == [num |-> x.num * y.den + y.num * x.den, den |-> x.den * y.den]
Above(x, y)   == x.num * y.den > y.num * x.den

\* Bug: the vector leg overwrites the score of the BM25 leg.
ScoreOverwritten(r, l) ==
    IF In(r, l.vec) THEN Share(r, l.vec) ELSE Share(r, l.bm25)

Score(r, l) == Plus(Share(r, l.bm25), Share(r, l.vec))

Hits(l) == Range(l.bm25) \cup Range(l.vec)

\* The set as a sequence, sorted by a relation.
Sorted(S, before) ==
    CHOOSE s \in SetToSeqs(S) :
        \A i, j \in DOMAIN s : i < j => <<s[i], s[j]>> \in before

\* Best score first, equal scores by rowid.
Before(r, s, l) ==
    \/ Above(Score(r, l), Score(s, l))
    \/ ~ Above(Score(s, l), Score(r, l)) /\ r < s

Rrf(l) == Sorted(Hits(l), {p \in Hits(l) \X Hits(l) : Before(p[1], p[2], l)})

\* Bug: one row too many.
TopAndOneMore(l, n) ==
    LET f == Rrf(l) IN SubSeq(f, 1, IF Len(f) <= n THEN Len(f) ELSE n + 1)

\* fused[:limit]
Top(l, n) == LET f == Rrf(l) IN SubSeq(f, 1, IF Len(f) < n THEN Len(f) ELSE n)

\* The query whose section shows the row: the best score, the first of equals.
Owner(r, ls, n) ==
    LET asking == {q \in DOMAIN ls : In(r, Top(ls[q], n))}
    IN  CHOOSE q \in asking :
            \A p \in asking \ {q} : /\ ~ Above(Score(r, ls[p]), Score(r, ls[q]))
                                    /\ p < q => Above(Score(r, ls[q]), Score(r, ls[p]))

\* Some of the rows of a ranking, in its order.
InOrder(rows, leg) ==
    Sorted(rows, {p \in rows \X rows : Rank(p[1], leg) < Rank(p[2], leg)})

\* Bug: every query shows its own top rows.
OwnedByAll(q, ls, n) == Top(ls[q], n)

\* The rows of a query's section, in order.
Owned(q, ls, n) ==
    InOrder({r \in Range(Top(ls[q], n)) : Owner(r, ls, n) = q}, Top(ls[q], n))

-----------------------------------------------------------------------------
(* The call *)

NoLegs == [bm25 |-> <<>>, vec |-> <<>>]

Live == {r \in Rowids : source[r] # NoChunk}

Passes(chunk, f) == chunk # NoChunk /\ (f = All \/ LabelOf[chunk] = f)

Passing(f) == {r \in Rowids : Passes(source[r], f)}

\* Rankings of some of the rows, from m to n of them.
Rankings(rows, m, n) == {s \in SetToAllKPermutations(rows) : Len(s) \in m .. n}

\* Where the terms of a query are in lower() of a chunk's content.
Found(chunk, q) ==
    LET terms == TextOf[chunk].terms[q]
    IN  [i \in DOMAIN terms |->
            IF terms[i].at = NotFound THEN NotFound ELSE terms[i].at + terms[i].grown]

\* A block of the section of query q.
BlockOf(r, q) ==
    [row |-> r, chunk |-> source[r],
     excerpt |-> Window(TextOf[source[r]].len, Hit(Found(source[r], q)))]

Init ==
    /\ source \in [Rowids -> Chunks \cup {NoChunk}]
    /\ store \in {{}, Live}
    /\ commits = 0
    /\ pc = "filter"
    /\ query = 1
    /\ filter = All
    /\ limit \in Limits
    /\ view = {}
    /\ legs = [q \in 1 .. Queries |-> NoLegs]
    /\ sections = <<>>
    /\ rewritten = {}

\* The call ends, with an answer or an error.
Leave ==
    /\ pc' = "filter"
    /\ query' = 1
    /\ filter' = All
    /\ limit' \in Limits
    /\ view' = {}
    /\ legs' = [q \in 1 .. Queries |-> NoLegs]
    /\ sections' = <<>>
    /\ rewritten' = {}
    /\ UNCHANGED <<source, store, commits>>

Filter ==
    /\ pc = "filter"
    /\ pc' = "bm25"
    /\ filter' \in {All} \cup Range(LabelOf)
    /\ view' = Passing(filter')
    /\ rewritten' = {}
    /\ UNCHANGED <<source, store, commits, query, limit, legs, sections>>

\* Bug: the WHERE clause of the BM25 leg forgets the filter.
Bm25Unfiltered ==
    /\ pc = "bm25"
    /\ pc' = "vector"
    /\ \E leg \in Rankings(Live, 0, limit) : legs' = [legs EXCEPT ![query].bm25 = leg]
    /\ UNCHANGED <<upstream, query, filter, limit, view, sections>>

\* The WHERE clause filters the rows of this moment.
Bm25 ==
    /\ pc = "bm25"
    /\ pc' = "vector"
    /\ \E leg \in Rankings(Passing(filter), 0, limit) :
           legs' = [legs EXCEPT ![query].bm25 = leg]
    /\ UNCHANGED <<upstream, query, filter, limit, view, sections>>

\* vectors.search, on the matrix of this moment and the view of the start.
Vector ==
    LET rows == store \cap view
        size == Least(Cardinality(rows), VectorK)
    IN  /\ pc = "vector"
        /\ \E leg \in Rankings(rows, size, size) :
               legs' = [legs EXCEPT ![query].vec = leg]
        /\ IF query < Queries
             THEN pc' = "bm25" /\ query' = query + 1
             ELSE pc' = "section" /\ query' = 1
        /\ UNCHANGED <<upstream, filter, limit, view, sections>>

\* get_many() of the rows this query shows; rows that went away are left out,
\* and so is a section without blocks.
Section ==
    LET rows   == Owned(query, legs, limit)
        alive  == InOrder(Range(rows) \cap Live, rows)
        blocks == [i \in DOMAIN alive |-> BlockOf(alive[i], query)]
    IN  /\ pc = "section"
        /\ sections' = IF blocks = <<>> THEN sections
                       ELSE Append(sections, [query |-> query, blocks |-> blocks])
        /\ IF query < Queries
             THEN query' = query + 1 /\ pc' = pc
             ELSE query' = query /\ pc' = "answer"
        /\ UNCHANGED <<upstream, filter, limit, view, legs>>

Answer == pc = "answer" /\ Leave

\* The embedder, the store or a statement on upstream raises.
Raise == pc \in {"bm25", "vector", "section"} /\ Leave

-----------------------------------------------------------------------------
(* The environment *)

\* Sources are indexed, indexed again or purged; rowids may be used again.
UpstreamCommit ==
    /\ commits < MaxCommits
    /\ commits' = commits + 1
    /\ source' \in [Rowids -> Chunks \cup {NoChunk}]
    /\ source' # source
    /\ rewritten' = rewritten \cup {r \in Rowids : source'[r] # source[r]}
    /\ UNCHANGED <<store, pc, query, filter, limit, view, legs, sections>>

\* Another call, or another process, brings the store up to date.
Sync ==
    /\ store # Live
    /\ store' = Live
    /\ UNCHANGED <<source, commits, rewritten, pc, query, filter, limit, view, legs, sections>>

Next ==
    \/ Filter \/ Bm25 \/ Vector \/ Section \/ Answer \/ Raise
    \/ UpstreamCommit \/ Sync

Spec == Init /\ [][Next]_vars

-----------------------------------------------------------------------------
(* Properties *)

Ranked == SetToAllKPermutations(Rowids)

Block == [row : Rowids, chunk : Chunks, excerpt : [from : Nat, end : Nat]]

TypeOK ==
    /\ source \in [Rowids -> Chunks \cup {NoChunk}]
    /\ store \subseteq Rowids
    /\ commits \in 0 .. MaxCommits
    /\ pc \in {"filter", "bm25", "vector", "section", "answer"}
    /\ query \in 1 .. Queries
    /\ filter \in {All} \cup Range(LabelOf)
    /\ limit \in Limits
    /\ view \subseteq Rowids
    /\ legs \in [1 .. Queries -> [bm25 : Ranked, vec : Ranked]]
    /\ \A q \in 1 .. Queries : Len(legs[q].bm25) <= limit /\ Len(legs[q].vec) <= VectorK
    /\ Len(sections) <= Queries
    /\ \A i \in DOMAIN sections :
          /\ sections[i].query \in 1 .. Queries
          /\ sections[i].blocks \in Seq(Block)
          /\ Len(sections[i].blocks) \in 1 .. limit
    /\ rewritten \subseteq Rowids

\* The places where a row is shown: section and position.
Places(r) ==
    {p \in (DOMAIN sections) \X (1 .. limit) :
        p[2] \in DOMAIN sections[p[1]].blocks /\ sections[p[1]].blocks[p[2]].row = r}

\* A chunk that reached the top of some query is shown exactly once, in the
\* section of the first query that scored it best; only a row upstream wrote
\* during the call may be missing (hybrid.py:158-176).
ShownOnce ==
    pc = "answer" =>
        \A q \in 1 .. Queries : \A r \in Range(Top(legs[q], limit)) :
            /\ Cardinality(Places(r)) <= 1
            /\ Places(r) = {} => r \in rewritten
            /\ \A place \in Places(r) :
                  LET shown == sections[place[1]].query
                  IN  IF shown < q THEN ~ Above(Score(r, legs[q]), Score(r, legs[shown]))
                      ELSE shown > q => Above(Score(r, legs[shown]), Score(r, legs[q]))

\* What is shown passes the filter (the tool's documentation, server.py:96-98:
\* "exact source label filter").
FilterHonoured ==
    \A i \in DOMAIN sections : \A j \in DOMAIN sections[i].blocks :
        Passes(sections[i].blocks[j].chunk, filter)

\* It does, in both legs, unless upstream wrote the row during the call
\* (hybrid.py:147-155).
FilterHonouredUnlessRewritten ==
    \A i \in DOMAIN sections : \A j \in DOMAIN sections[i].blocks :
        LET block == sections[i].blocks[j]
        IN  Passes(block.chunk, filter) \/ block.row \in rewritten

\* A block shows as much of the content as it has room for.  The first of the
\* query's terms that the content holds is shown whole if it is at most three
\* quarters of the room long, also when the window slides back at the end of
\* the content, unless lower() made the text before it longer
\* (hybrid.py:106-116).
ExcerptShowsTerm ==
    \A i \in DOMAIN sections : \A j \in DOMAIN sections[i].blocks :
        LET block == sections[i].blocks[j]
            text  == TextOf[block.chunk]
            terms == text.terms[sections[i].query]
            shown == block.excerpt
        IN  /\ shown.end <= text.len
            /\ shown.end - shown.from = Least(text.len, Width)
            /\ \A t \in DOMAIN terms :
                  (/\ terms[t].at # NotFound
                   /\ \A u \in 1 .. t - 1 : terms[u].at = NotFound
                   /\ terms[t].grown = 0
                   /\ terms[t].size <= Width - Width \div 4)
                  => /\ shown.from <= terms[t].at
                     /\ terms[t].at + terms[t].size <= shown.end

\* A row that both legs found is ranked before any row that one leg found, and
\* a row both legs place higher is ranked higher: fusion goes by positions
\* alone (hybrid.py:87-96).
FusionRespectsRanks ==
    \A q \in 1 .. Queries :
        LET l == legs[q]
            f == Rrf(l)
            Both(r) == In(r, l.bm25) /\ In(r, l.vec)
        IN  \A i, j \in DOMAIN f :
                /\ Both(f[i]) /\ ~ Both(f[j]) => i < j
                /\ /\ Both(f[i]) /\ Both(f[j]) /\ i # j
                   /\ Rank(f[i], l.bm25) < Rank(f[j], l.bm25)
                   /\ Rank(f[i], l.vec) < Rank(f[j], l.vec)
                   => i < j
===============================================================================
