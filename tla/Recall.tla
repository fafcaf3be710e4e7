-------------------------------- MODULE Recall --------------------------------
(***************************************************************************)
(* The gate arithmetic of ctx_semantic/harness.py: what evaluate() makes   *)
(* of the ranks at which the BM25 leg and the fused list found the gold    *)
(* chunk of each case.  No rank is Miss.                                   *)
(***************************************************************************)
EXTENDS Integers, FiniteSets

CONSTANTS
    Cases,          \* number of CASES
    TopK,           \* TOP_K, the hit window
    Bm25Ranks,      \* the ranks that occur in the BM25 leg
    HybridRanks,    \* the ranks that occur in the fused list
    Miss            \* no rank

ASSUME RecallAssumption ==
    /\ Cases \in Nat
    /\ TopK \in Nat
    /\ TopK \in Nat
    /\ Bm25Ranks \subseteq 1 .. TopK
    /\ HybridRanks \subseteq Nat \ {0}
    /\ Miss \notin Nat

Row == [bm25 : Bm25Ranks \cup {Miss}, hybrid : HybridRanks \cup {Miss}]

Hit(rank) == rank # Miss /\ rank <= TopK

NotWorse(row) == row.hybrid # Miss /\ row.hybrid <= row.bm25

Tally(rows, Is(_)) == Cardinality({i \in DOMAIN rows : Is(rows[i])})

Bm25Hits(rows)        == Tally(rows, LAMBDA r : Hit(r.bm25))
HybridHits(rows)      == Tally(rows, LAMBDA r : Hit(r.hybrid))
BindingNotWorse(rows) == Tally(rows, LAMBDA r : r.bm25 # Miss /\ NotWorse(r))
Rescues(rows)         == Tally(rows, LAMBDA r : r.bm25 = Miss /\ Hit(r.hybrid))

\* Bug: the share is rounded down.
NeededRoundedDown(hits) == IF hits = 0 THEN 0 ELSE (4 * hits) \div 5

\* max(1, ceil(0.8 * hits)), or nothing to win.
Needed(hits) == IF hits = 0 THEN 0 ELSE (4 * hits + 4) \div 5

\* All three gates.
Passed(rows) ==
    /\ HybridHits(rows) >= Bm25Hits(rows)
    /\ BindingNotWorse(rows) >= Needed(Bm25Hits(rows))
    /\ Rescues(rows) >= 1
===============================================================================
