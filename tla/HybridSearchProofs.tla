------------------------- MODULE HybridSearchProofs --------------------------
(***************************************************************************)
(* What a call of hybrid.search answers, for any number of rows, queries   *)
(* and commits: the properties of HybridSearch as theorems, and that the   *)
(* sorts the model chooses exist.                                          *)
(***************************************************************************)
EXTENDS HybridSearch, FiniteSetTheorems, SequenceTheorems, WellFoundedInduction, TLAPS

-----------------------------------------------------------------------------
(* The excerpt of a block *)

\* A window is a slice of the content and is as wide as the content allows,
\* wherever lower() moved the hit to (hybrid.py:114-116).
THEOREM WindowKeepsWidth ==
    ASSUME NEW len \in Nat, NEW hit \in Nat \cup {NotFound}
    PROVE  /\ Window(len, hit).from \in 0 .. len
           /\ Window(len, hit).end \in 0 .. len
           /\ Window(len, hit).end - Window(len, hit).from = Least(len, Width)
<1>1. Width \in Nat \ {0} /\ Width \div 4 \in Nat /\ Width \div 4 <= Width
  BY ExcerptAssumption
<1>2. CASE hit = NotFound
  BY <1>1, <1>2 DEF Window, Least
<1>3. CASE hit \in Nat
  <2>1. hit # NotFound
    BY <1>3 DEF NotFound
  <2> DEFINE start == Greatest(0, hit - Width \div 4)
             end   == Least(len, start + Width)
  <2>2. Window(len, hit) = [from |-> Greatest(0, end - Width), end |-> end]
    BY <2>1 DEF Window
  <2>3. start \in Nat
    BY <1>1, <1>3 DEF Greatest
  <2>4. /\ end \in Nat /\ end <= len /\ end <= start + Width
        /\ end = len \/ end = start + Width
    BY <1>1, <2>3 DEF Least
  <2> HIDE DEF start, end
  <2>5. Greatest(0, end - Width) \in Nat /\ Greatest(0, end - Width) <= len
    BY <1>1, <2>4 DEF Greatest
  <2>6. end - Greatest(0, end - Width) = Least(len, Width)
    BY <1>1, <2>3, <2>4 DEF Greatest, Least
  <2>7. QED
    BY <2>2, <2>4, <2>5, <2>6
<1>4. QED
  BY <1>2, <1>3

\* A term of at most three quarters of the width is shown whole, also where
\* the window slides back at the end of the content (hybrid.py:114-116).
THEOREM WindowShowsTerm ==
    ASSUME NEW len \in Nat, NEW hit \in Nat, NEW size \in Nat,
           hit + size <= len, size <= Width - Width \div 4
    PROVE  Window(len, hit).from <= hit /\ hit + size <= Window(len, hit).end
<1>1. Width \in Nat \ {0} /\ Width \div 4 \in Nat /\ Width \div 4 <= Width
  BY ExcerptAssumption
<1>2. hit # NotFound
  BY DEF NotFound
<1> DEFINE start == Greatest(0, hit - Width \div 4)
           end   == Least(len, start + Width)
<1>3. Window(len, hit) = [from |-> Greatest(0, end - Width), end |-> end]
  BY <1>2 DEF Window
<1>4. start \in Nat /\ start <= hit /\ hit - Width \div 4 <= start
  BY <1>1 DEF Greatest
<1>5. end \in Nat /\ (end = len \/ end = start + Width) /\ end <= start + Width
  BY <1>1, <1>4 DEF Least
<1> HIDE DEF start, end
<1>6. Greatest(0, end - Width) <= hit
  BY <1>1, <1>4, <1>5 DEF Greatest
<1>7. hit + size <= end
  BY <1>1, <1>4, <1>5
<1>8. QED
  BY <1>3, <1>6, <1>7

-----------------------------------------------------------------------------
(* Sorting a finite set *)

StrictOrder(R, S) ==
    /\ \A a \in S : <<a, a>> \notin R
    /\ \A a, b \in S : a # b => <<a, b>> \in R \/ <<b, a>> \in R
    /\ \A a, b, c \in S : <<a, b>> \in R /\ <<b, c>> \in R => <<a, c>> \in R

Ascends(s, R) == \A i, j \in DOMAIN s : i < j => <<s[i], s[j]>> \in R

\* A finite set of finite sets has a least one, if it has one at all.
LEMMA LeastSet ==
    ASSUME NEW S, NEW Family \in SUBSET FiniteSubsetsOf(S), Family # {}
    PROVE  \E T \in Family : \A U \in Family : U \subseteq T => U = T
<1>1. PICK T \in Family : \A U \in Family : ~ (<<U, T>> \in StrictSubsetOrdering(S))
  BY FS_StrictSubsetOrderingWellFounded, WFMin
<1>2. ASSUME NEW U \in Family, U \subseteq T PROVE U = T
  BY <1>1, <1>2 DEF StrictSubsetOrdering, FiniteSubsetsOf
<1>3. QED
  BY <1>2

\* A finite set has a last element.
LEMMA LastExists ==
    ASSUME NEW S, NEW R, IsFiniteSet(S), S # {}, StrictOrder(R, S)
    PROVE  \E m \in S : \A a \in S \ {m} : <<a, m>> \in R
<1> DEFINE HasLast(T) == \E m \in T : \A a \in T \ {m} : <<a, m>> \in R
           Bad == {T \in FiniteSubsetsOf(S) : T # {} /\ ~ HasLast(T)}
<1>1. SUFFICES ASSUME Bad # {} PROVE FALSE
  <2>1. S \in FiniteSubsetsOf(S)
    BY DEF FiniteSubsetsOf
  <2>2. QED
    BY <2>1
<1>2. PICK T \in Bad : \A U \in Bad : U \subseteq T => U = T
  <2>1. Bad \in SUBSET FiniteSubsetsOf(S)
    OBVIOUS
  <2> HIDE DEF Bad
  <2>2. QED
    BY <1>1, <2>1, LeastSet
<1>3. PICK x \in T : TRUE
  OBVIOUS
<1>4. T \subseteq S /\ IsFiniteSet(T)
  BY DEF FiniteSubsetsOf
<1>5. T \ {x} \in FiniteSubsetsOf(S)
  BY <1>4, FS_RemoveElement DEF FiniteSubsetsOf
<1>6. T \ {x} # {}
  <2>1. SUFFICES ASSUME T = {x} PROVE FALSE
    OBVIOUS
  <2>2. HasLast(T)
    BY <2>1
  <2>3. QED
    BY <2>2
<1>7. HasLast(T \ {x})
  <2>1. T \ {x} \notin Bad
    BY <1>2, <1>3
  <2> HIDE DEF HasLast
  <2>2. QED
    BY <1>5, <1>6, <2>1
<1>8. PICK m \in T \ {x} : \A a \in (T \ {x}) \ {m} : <<a, m>> \in R
  BY <1>7
<1>9. CASE <<x, m>> \in R
  <2>1. \A a \in T \ {m} : <<a, m>> \in R
    BY <1>8, <1>9
  <2>2. HasLast(T)
    BY <2>1
  <2>3. QED
    BY <2>2
<1>10. CASE <<m, x>> \in R
  <2>1. \A a \in T \ {x} : <<a, x>> \in R
    BY <1>4, <1>8, <1>10 DEF StrictOrder
  <2>2. HasLast(T)
    BY <2>1
  <2>3. QED
    BY <2>2
<1>11. QED
  BY <1>4, <1>8, <1>9, <1>10 DEF StrictOrder

\* Adding a last element keeps a sequence sorted.
LEMMA SortedAppend ==
    ASSUME NEW U, NEW m, m \notin U, NEW R, IsFiniteSet(U),
           \A a \in U : <<a, m>> \in R,
           NEW s \in SetToSeqs(U), Ascends(s, R)
    PROVE  \E t \in SetToSeqs(U \cup {m}) : Ascends(t, R)
<1> DEFINE n == Cardinality(U)
           t == [i \in 1 .. n + 1 |-> IF i = n + 1 THEN m ELSE s[i]]
<1>1. n \in Nat /\ Cardinality(U \cup {m}) = n + 1
  BY FS_CardinalityType, FS_AddElement
<1>2. s \in [1 .. n -> U] /\ \A i, j \in 1 .. n : i # j => s[i] # s[j]
  BY DEF SetToSeqs
<1> HIDE DEF n
<1>3. t \in [1 .. n + 1 -> U \cup {m}]
  BY <1>1, <1>2
<1>4. \A i, j \in 1 .. n + 1 : i # j => t[i] # t[j]
  BY <1>1, <1>2
<1>5. t \in SetToSeqs(U \cup {m})
  BY <1>1, <1>3, <1>4 DEF SetToSeqs
<1>6. Ascends(t, R)
  BY <1>1, <1>2 DEF Ascends
<1>7. QED
  BY <1>5, <1>6

LEMMA SortExists ==
    ASSUME NEW S, NEW R, IsFiniteSet(S), StrictOrder(R, S)
    PROVE  \E s \in SetToSeqs(S) : Ascends(s, R)
<1> DEFINE HasSort(T) == \E s \in SetToSeqs(T) : Ascends(s, R)
           Bad == {T \in FiniteSubsetsOf(S) : ~ HasSort(T)}
<1>1. SUFFICES ASSUME Bad # {} PROVE FALSE
  <2>1. S \in FiniteSubsetsOf(S)
    BY DEF FiniteSubsetsOf
  <2>2. QED
    BY <2>1
<1>2. PICK T \in Bad : \A U \in Bad : U \subseteq T => U = T
  <2>1. Bad \in SUBSET FiniteSubsetsOf(S)
    OBVIOUS
  <2> HIDE DEF Bad
  <2>2. QED
    BY <1>1, <2>1, LeastSet
<1>3. T \subseteq S /\ IsFiniteSet(T) /\ StrictOrder(R, T)
  BY DEF FiniteSubsetsOf, StrictOrder
<1>4. T # {}
  <2>1. SUFFICES ASSUME T = {} PROVE FALSE
    OBVIOUS
  <2>2. [i \in 1 .. 0 |-> 0] \in SetToSeqs({}) /\ Ascends([i \in 1 .. 0 |-> 0], R)
    BY FS_EmptySet DEF SetToSeqs, Ascends
  <2>3. HasSort(T)
    BY <2>1, <2>2
  <2>4. QED
    BY <2>3
<1>5. PICK m \in T : \A a \in T \ {m} : <<a, m>> \in R
  BY <1>3, <1>4, LastExists
<1>6. T \ {m} \in FiniteSubsetsOf(S) /\ IsFiniteSet(T \ {m})
  BY <1>3, FS_RemoveElement DEF FiniteSubsetsOf
<1>7. HasSort(T \ {m})
  BY <1>2, <1>5, <1>6
<1>8. (T \ {m}) \cup {m} = T
  BY <1>5
<1>9. HasSort((T \ {m}) \cup {m})
  BY <1>5, <1>6, <1>7, SortedAppend
<1>10. QED
  BY <1>8, <1>9

\* What Sorted returns: each element once, in order.
LEMMA SortedProperties ==
    ASSUME NEW S, NEW R, IsFiniteSet(S), StrictOrder(R, S)
    PROVE  /\ Sorted(S, R) \in SetToSeqs(S)
           /\ Sorted(S, R) \in Seq(S)
           /\ Len(Sorted(S, R)) = Cardinality(S)
           /\ Range(Sorted(S, R)) = S
           /\ \A i, j \in DOMAIN Sorted(S, R) : i # j => Sorted(S, R)[i] # Sorted(S, R)[j]
           /\ Ascends(Sorted(S, R), R)
<1> DEFINE s == Sorted(S, R)
<1>1. s \in SetToSeqs(S) /\ Ascends(s, R)
  BY SortExists DEF Sorted, Ascends
<1> DEFINE n == Cardinality(S)
<1>2. n \in Nat
  BY FS_CardinalityType
<1> HIDE DEF s
<1>3. s \in [1 .. n -> S] /\ \A i, j \in 1 .. n : i # j => s[i] # s[j]
  BY <1>1 DEF SetToSeqs
<1>4. s \in Injection(1 .. n, S)
  BY <1>3 DEF Injection, IsInjective
<1>5. Cardinality(1 .. n) = n
  BY <1>2, FS_Interval
<1> HIDE DEF n
<1>6. s \in Surjection(1 .. n, S)
  BY <1>4, <1>5, FS_Injection DEF n
<1>7. Range(s) = S
  BY <1>3, <1>6 DEF Surjection, Range
<1>8. s \in Seq(S) /\ Len(s) = n
  BY <1>2, <1>3
<1>9. QED
  BY <1>1, <1>3, <1>7, <1>8 DEF s, n

-----------------------------------------------------------------------------
(* Scores *)

Fractions == [num : Nat, den : Nat \ {0}]

\* A positive factor keeps an inequality.
LEMMA Scale ==
    ASSUME NEW m \in Nat, NEW n \in Nat, NEW k \in Nat \ {0}
    PROVE  /\ m > n => m * k > n * k
           /\ m >= n => m * k >= n * k
<1>1. m >= n => m * k >= n * k
  OBVIOUS
<1>2. ASSUME m > n PROVE m * k > n * k
  <2>1. m * k >= (n + 1) * k
    BY <1>2
  <2>2. (n + 1) * k = n * k + k
    OBVIOUS
  <2>3. QED
    BY <2>1, <2>2
<1>3. QED
  BY <1>1, <1>2

\* From a/b > c/d >= e/f to a/b > e/f, and from a/b >= c/d > e/f.
LEMMA CrossMultiply ==
    ASSUME NEW a \in Nat, NEW b \in Nat \ {0}, NEW c \in Nat, NEW d \in Nat \ {0},
           NEW e \in Nat, NEW f \in Nat \ {0}
    PROVE  /\ a * d > c * b /\ c * f >= e * d => a * f > e * b
           /\ a * d >= c * b /\ c * f > e * d => a * f > e * b
<1>1. /\ a * d \in Nat /\ c * b \in Nat /\ c * f \in Nat /\ e * d \in Nat
      /\ a * f \in Nat /\ e * b \in Nat
  OBVIOUS
<1>2. /\ (a * d) * f = (a * f) * d
      /\ (c * b) * f = (c * f) * b
      /\ (e * d) * b = (e * b) * d
  OBVIOUS
<1>3. (a * f) * d > (e * b) * d => a * f > e * b
  <2>1. e * b >= a * f => (e * b) * d >= (a * f) * d
    BY <1>1
  <2>2. (e * b) * d \in Nat /\ (a * f) * d \in Nat
    BY <1>1
  <2> DEFINE x == e * b
             y == a * f
             v == (e * b) * d
             w == (a * f) * d
  <2> HIDE DEF v, w
  <2>3. QED
    BY <1>1, <2>1, <2>2
<1>4. ASSUME a * d > c * b, c * f >= e * d PROVE a * f > e * b
  <2>1. (a * d) * f > (c * b) * f
    BY <1>1, <1>4
  <2>2. (c * f) * b >= (e * d) * b
    BY <1>1, <1>4
  <2>3. QED
    BY <1>2, <1>3, <2>1, <2>2
<1>5. ASSUME a * d >= c * b, c * f > e * d PROVE a * f > e * b
  <2>1. (a * d) * f >= (c * b) * f
    BY <1>1, <1>5
  <2>2. (c * f) * b > (e * d) * b
    BY <1>1, <1>5
  <2>3. QED
    BY <1>2, <1>3, <2>1, <2>2
<1>6. QED
  BY <1>4, <1>5

\* Above orders fractions as numbers.
LEMMA AboveOrder ==
    ASSUME NEW x \in Fractions, NEW y \in Fractions, NEW z \in Fractions
    PROVE  /\ ~ Above(x, x)
           /\ Above(x, y) => ~ Above(y, x)
           /\ Above(x, y) /\ ~ Above(z, y) => Above(x, z)
           /\ ~ Above(y, x) /\ Above(y, z) => Above(x, z)
<1>1. /\ x.num \in Nat /\ y.num \in Nat /\ z.num \in Nat
      /\ x.den \in Nat \ {0} /\ y.den \in Nat \ {0} /\ z.den \in Nat \ {0}
  BY DEF Fractions
<1>2. ~ Above(x, x) /\ (Above(x, y) => ~ Above(y, x))
  BY <1>1 DEF Above
<1>3. ASSUME Above(x, y), ~ Above(z, y) PROVE Above(x, z)
  <2>1. x.num * y.den > y.num * x.den
    BY <1>3 DEF Above
  <2>2. y.num * z.den >= z.num * y.den
    BY <1>1, <1>3 DEF Above
  <2>3. x.num * z.den > z.num * x.den
    BY <1>1, <2>1, <2>2, CrossMultiply
  <2>4. QED
    BY <2>3 DEF Above
<1>4. ~ Above(y, x) /\ Above(y, z) => Above(x, z)
  BY <1>1 DEF Above
<1>5. QED
  BY <1>2, <1>3, <1>4

-----------------------------------------------------------------------------
(* Legs and their fusion *)

LegPairs == [bm25 : Ranked, vec : Ranked]

\* A ranking lists rows, each once.
LEMMA RankedProperties ==
    ASSUME NEW leg \in Ranked
    PROVE  /\ leg \in Seq(Rowids)
           /\ Range(leg) \in SUBSET Rowids
           /\ IsFiniteSet(Range(leg))
           /\ \A i, j \in DOMAIN leg : i # j => leg[i] # leg[j]
<1>1. PICK S \in SUBSET Rowids : leg \in SetToSeqs(S)
  BY DEF Ranked, SetToAllKPermutations
<1>2. IsFiniteSet(S) /\ Cardinality(S) \in Nat
  BY <1>1, HybridSearchAssumption, FS_Subset, FS_CardinalityType
<1>3. leg \in [1 .. Cardinality(S) -> S]
  BY <1>1 DEF SetToSeqs
<1>4. Range(leg) \in SUBSET Rowids
  BY <1>3 DEF Range
<1>5. leg \in Seq(Rowids)
  BY <1>2, <1>3
<1>6. IsFiniteSet(Range(leg))
  BY <1>4, HybridSearchAssumption, FS_Subset
<1>7. \A i, j \in DOMAIN leg : i # j => leg[i] # leg[j]
  BY <1>1, <1>3 DEF SetToSeqs
<1>8. QED
  BY <1>4, <1>5, <1>6, <1>7

\* The rank of a row is its place.
LEMMA RankPlace ==
    ASSUME NEW leg, NEW r
    PROVE  /\ In(r, leg) <=> r \in Range(leg)
           /\ In(r, leg) => Rank(r, leg) \in DOMAIN leg /\ leg[Rank(r, leg)] = r
BY DEF In, Rank, Range

LEMMA ShareType ==
    ASSUME NEW leg \in Ranked, NEW r
    PROVE  /\ Share(r, leg) \in Fractions
           /\ In(r, leg) => /\ Rank(r, leg) \in 1 .. Len(leg)
                            /\ Share(r, leg) = [num |-> 1, den |-> 60 + Rank(r, leg)]
           /\ ~ In(r, leg) => Share(r, leg) = [num |-> 0, den |-> 1]
<1>1. In(r, leg) => Rank(r, leg) \in 1 .. Len(leg) /\ Len(leg) \in Nat
  BY RankPlace
<1>2. QED
  BY <1>1 DEF Share, K, Fractions

LEMMA ScoreType ==
    ASSUME NEW l \in LegPairs, NEW r
    PROVE  Score(r, l) \in Fractions
<1>1. Share(r, l.bm25) \in Fractions /\ Share(r, l.vec) \in Fractions
  BY ShareType DEF LegPairs
<1>2. ASSUME NEW x \in Fractions, NEW y \in Fractions PROVE Plus(x, y) \in Fractions
  <2>1. /\ x.num \in Nat /\ y.num \in Nat
        /\ x.den \in Nat \ {0} /\ y.den \in Nat \ {0}
    BY DEF Fractions
  <2>2. x.num * y.den + y.num * x.den \in Nat /\ x.den * y.den \in Nat \ {0}
    BY <2>1
  <2>3. QED
    BY <2>2 DEF Plus, Fractions
<1>3. QED
  BY <1>1, <1>2 DEF Score

\* Fractions first, then numbers.
LEMMA TiesByNumber ==
    ASSUME NEW x \in Fractions, NEW y \in Fractions, NEW z \in Fractions,
           NEW r \in Nat, NEW s \in Nat, NEW t \in Nat,
           Above(x, y) \/ (~ Above(y, x) /\ r < s),
           Above(y, z) \/ (~ Above(z, y) /\ s < t)
    PROVE  Above(x, z) \/ (~ Above(z, x) /\ r < t)
<1>1. CASE Above(x, y)
  <2>1. ~ Above(z, y)
    BY AboveOrder
  <2>2. QED
    BY <1>1, <2>1, AboveOrder
<1>2. CASE ~ Above(y, x) /\ Above(y, z)
  BY <1>2, AboveOrder
<1>3. CASE ~ Above(y, x) /\ r < s /\ ~ Above(z, y) /\ s < t
  <2>1. ~ Above(z, x)
    BY <1>3, AboveOrder
  <2>2. r < t
    BY <1>3
  <2>3. QED
    BY <2>1, <2>2
<1>4. QED
  BY <1>1, <1>2, <1>3

FusedOrder(l) == {p \in Hits(l) \X Hits(l) : Before(p[1], p[2], l)}

\* The order of the fused list is one: rowids are distinct, and decide ties.
LEMMA FusedOrderIsStrict ==
    ASSUME NEW l \in LegPairs
    PROVE  /\ IsFiniteSet(Hits(l))
           /\ Hits(l) \in SUBSET Rowids
           /\ StrictOrder(FusedOrder(l), Hits(l))
<1>1. /\ l.bm25 \in Ranked
      /\ l.vec \in Ranked
  BY DEF LegPairs
<1>2. IsFiniteSet(Hits(l)) /\ Hits(l) \in SUBSET Rowids
  BY <1>1, RankedProperties, FS_Union DEF Hits
<1>3. \A r, s \in Hits(l) : <<r, s>> \in FusedOrder(l) <=> Before(r, s, l)
  BY DEF FusedOrder
<1>4. \A r \in Hits(l) : r \in Nat /\ Score(r, l) \in Fractions
  BY <1>2, HybridSearchAssumption, ScoreType
<1>5. ASSUME NEW r \in Hits(l) PROVE ~ Before(r, r, l)
  BY <1>4, AboveOrder DEF Before
<1>6. ASSUME NEW r \in Hits(l), NEW s \in Hits(l), r # s
      PROVE  Before(r, s, l) \/ Before(s, r, l)
  BY <1>4, <1>6 DEF Before
<1>7. ASSUME NEW r \in Hits(l), NEW s \in Hits(l), NEW t \in Hits(l),
             Before(r, s, l), Before(s, t, l)
      PROVE  Before(r, t, l)
  <2>1. /\ Score(r, l) \in Fractions /\ Score(s, l) \in Fractions /\ Score(t, l) \in Fractions
        /\ r \in Nat /\ s \in Nat /\ t \in Nat
    BY <1>4
  <2>2. Above(Score(r, l), Score(s, l)) \/ (~ Above(Score(s, l), Score(r, l)) /\ r < s)
    BY <1>7 DEF Before
  <2>3. Above(Score(s, l), Score(t, l)) \/ (~ Above(Score(t, l), Score(s, l)) /\ s < t)
    BY <1>7 DEF Before
  <2>4. Above(Score(r, l), Score(t, l)) \/ (~ Above(Score(t, l), Score(r, l)) /\ r < t)
    BY <2>1, <2>2, <2>3, TiesByNumber
  <2>5. QED
    BY <2>4 DEF Before
<1>8. StrictOrder(FusedOrder(l), Hits(l))
  BY <1>3, <1>5, <1>6, <1>7 DEF StrictOrder
<1>9. QED
  BY <1>2, <1>8

\* The fused list: every hit once, in order.
LEMMA RrfProperties ==
    ASSUME NEW l \in LegPairs
    PROVE  /\ Rrf(l) \in Seq(Rowids)
           /\ Range(Rrf(l)) = Hits(l)
           /\ \A i, j \in DOMAIN Rrf(l) : i # j => Rrf(l)[i] # Rrf(l)[j]
           /\ \A i, j \in DOMAIN Rrf(l) : i < j => Before(Rrf(l)[i], Rrf(l)[j], l)
<1>1. Rrf(l) = Sorted(Hits(l), FusedOrder(l))
  BY DEF Rrf, FusedOrder
<1>2. /\ Rrf(l) \in Seq(Hits(l))
      /\ Range(Rrf(l)) = Hits(l)
      /\ \A i, j \in DOMAIN Rrf(l) : i # j => Rrf(l)[i] # Rrf(l)[j]
      /\ Ascends(Rrf(l), FusedOrder(l))
  BY <1>1, FusedOrderIsStrict, SortedProperties
<1>3. Rrf(l) \in Seq(Rowids)
  BY <1>2, FusedOrderIsStrict
<1>4. \A i, j \in DOMAIN Rrf(l) : i < j => Before(Rrf(l)[i], Rrf(l)[j], l)
  BY <1>2 DEF Ascends, FusedOrder
<1>5. QED
  BY <1>2, <1>3, <1>4

\* The first n of the fused list.
LEMMA TopProperties ==
    ASSUME NEW l \in LegPairs, NEW n \in Nat
    PROVE  /\ Top(l, n) \in Seq(Rowids)
           /\ Len(Top(l, n)) <= n
           /\ Range(Top(l, n)) \in SUBSET Hits(l)
           /\ \A i, j \in DOMAIN Top(l, n) : i # j => Top(l, n)[i] # Top(l, n)[j]
<1> DEFINE f == Rrf(l)
           m == IF Len(f) < n THEN Len(f) ELSE n
           t == SubSeq(f, 1, m)
<1>1. /\ f \in Seq(Rowids)
      /\ Range(f) = Hits(l)
      /\ \A i, j \in DOMAIN f : i # j => f[i] # f[j]
  BY RrfProperties
<1>2. t = Top(l, n)
  BY DEF Top
<1> HIDE DEF f
<1>3. m \in Nat /\ m <= n /\ m <= Len(f)
  BY <1>1
<1> HIDE DEF m
<1>4. \A i \in 1 .. m : f[i] \in Rowids
  BY <1>1, <1>3
<1>5. /\ t \in Seq(Rowids)
      /\ Len(t) = m
      /\ \A i \in 1 .. m : t[i] = f[i]
  <2>1. Len(t) = IF 1 <= m THEN m - 1 + 1 ELSE 0
    BY <1>3, <1>4
  <2>2. t \in Seq(Rowids) /\ \A i \in 1 .. m - 1 + 1 : t[i] = f[1 + i - 1]
    BY <1>3, <1>4
  <2> HIDE DEF t
  <2>3. Len(t) = m
    BY <1>3, <2>1
  <2>4. m - 1 + 1 = m /\ \A i \in 1 .. m : 1 + i - 1 = i
    BY <1>3
  <2>5. \A i \in 1 .. m : t[i] = f[i]
    BY <2>2, <2>4
  <2>6. QED
    BY <2>2, <2>3, <2>5
<1> HIDE DEF t
<1>6. DOMAIN t = 1 .. m /\ DOMAIN t \subseteq DOMAIN f
  BY <1>1, <1>3, <1>5
<1>7. Range(t) \in SUBSET Hits(l)
  BY <1>1, <1>5, <1>6 DEF Range
<1>8. \A i, j \in DOMAIN t : i # j => t[i] # t[j]
  BY <1>1, <1>5, <1>6
<1>9. QED
  BY <1>2, <1>3, <1>5, <1>7, <1>8

\* A selection of a ranking keeps its rows, each once.
LEMMA InOrderProperties ==
    ASSUME NEW S, NEW leg \in Seq(S), NEW rows \in SUBSET Range(leg), IsFiniteSet(rows)
    PROVE  /\ InOrder(rows, leg) \in Seq(rows)
           /\ Range(InOrder(rows, leg)) = rows
           /\ Len(InOrder(rows, leg)) = Cardinality(rows)
           /\ \A i, j \in DOMAIN InOrder(rows, leg) :
                 i # j => InOrder(rows, leg)[i] # InOrder(rows, leg)[j]
<1> DEFINE R == {p \in rows \X rows : Rank(p[1], leg) < Rank(p[2], leg)}
<1>1. \A r \in rows : Rank(r, leg) \in Nat /\ leg[Rank(r, leg)] = r
  <2>1. DOMAIN leg \subseteq Nat
    OBVIOUS
  <2>2. QED
    BY <2>1, RankPlace
<1>2. \A r, s \in rows : <<r, s>> \in R <=> Rank(r, leg) < Rank(s, leg)
  OBVIOUS
<1> HIDE DEF R
<1>3. StrictOrder(R, rows)
  <2>1. \A r \in rows : <<r, r>> \notin R
    BY <1>1, <1>2
  <2>2. \A r, s \in rows : r # s => <<r, s>> \in R \/ <<s, r>> \in R
    BY <1>1, <1>2
  <2>3. \A r, s, t \in rows : <<r, s>> \in R /\ <<s, t>> \in R => <<r, t>> \in R
    BY <1>1, <1>2
  <2>4. QED
    BY <2>1, <2>2, <2>3 DEF StrictOrder
<1>4. InOrder(rows, leg) = Sorted(rows, R)
  BY DEF InOrder, R
<1>5. QED
  BY <1>3, <1>4, SortedProperties

\* The number of rows of a sequence is at most its length.
LEMMA RangeSize ==
    ASSUME NEW S, NEW s \in Seq(S), NEW rows \in SUBSET Range(s)
    PROVE  IsFiniteSet(rows) /\ Cardinality(rows) \in Nat /\ Cardinality(rows) <= Len(s)
<1>1. Len(s) \in Nat /\ DOMAIN s = 1 .. Len(s)
  OBVIOUS
<1>2. s \in Surjection(1 .. Len(s), Range(s))
  BY <1>1 DEF Surjection, Range
<1>3. IsFiniteSet(1 .. Len(s)) /\ Cardinality(1 .. Len(s)) = Len(s)
  BY <1>1, FS_Interval
<1>4. IsFiniteSet(Range(s)) /\ Cardinality(Range(s)) <= Len(s)
  BY <1>2, <1>3, FS_Surjection
<1>5. QED
  BY <1>1, <1>4, FS_Subset, FS_CardinalityType

AllLegs == [1 .. Queries -> LegPairs]

\* A row at the top of some query has an owner, and no query scores it better.
LEMMA OwnerProperties ==
    ASSUME NEW ls \in AllLegs, NEW n \in Nat, NEW r,
           NEW q \in 1 .. Queries, r \in Range(Top(ls[q], n))
    PROVE  /\ Owner(r, ls, n) \in 1 .. Queries
           /\ r \in Range(Top(ls[Owner(r, ls, n)], n))
           /\ q # Owner(r, ls, n) =>
                 /\ ~ Above(Score(r, ls[q]), Score(r, ls[Owner(r, ls, n)]))
                 /\ q < Owner(r, ls, n) => Above(Score(r, ls[Owner(r, ls, n)]), Score(r, ls[q]))
<1> DEFINE asking == {p \in DOMAIN ls : In(r, Top(ls[p], n))}
           Best(o) == \A p \in asking \ {o} :
                          /\ ~ Above(Score(r, ls[p]), Score(r, ls[o]))
                          /\ p < o => Above(Score(r, ls[o]), Score(r, ls[p]))
           S(p) == Score(r, ls[p])
           R == {p \in asking \X asking :
                    \/ Above(S(p[2]), S(p[1]))
                    \/ ~ Above(S(p[1]), S(p[2])) /\ p[2] < p[1]}
<1>1. DOMAIN ls = 1 .. Queries /\ Queries \in Nat
  BY HybridSearchAssumption DEF AllLegs
<1>2. asking = {p \in 1 .. Queries : r \in Range(Top(ls[p], n))}
  BY <1>1, RankPlace
<1>3. q \in asking /\ \A p \in asking : p \in 1 .. Queries /\ p \in Nat
  BY <1>2
<1>4. IsFiniteSet(asking)
  <2>1. IsFiniteSet(1 .. Queries)
    BY <1>1, FS_Interval
  <2>2. asking \in SUBSET (1 .. Queries)
    BY <1>3
  <2> HIDE DEF asking
  <2>3. QED
    BY <2>1, <2>2, FS_Subset
<1>5. \A p \in asking : S(p) \in Fractions
  BY <1>3, ScoreType DEF AllLegs
<1>6. \A p, o \in asking : <<p, o>> \in R <=>
          \/ Above(S(o), S(p))
          \/ ~ Above(S(p), S(o)) /\ o < p
  OBVIOUS
<1> HIDE DEF R, S
<1>7. StrictOrder(R, asking)
  <2>1. \A p \in asking : <<p, p>> \notin R
    BY <1>3, <1>5, <1>6, AboveOrder
  <2>2. \A p, o \in asking : p # o => <<p, o>> \in R \/ <<o, p>> \in R
    BY <1>3, <1>5, <1>6
  <2>3. ASSUME NEW a \in asking, NEW b \in asking, NEW c \in asking,
               <<a, b>> \in R, <<b, c>> \in R
        PROVE  <<a, c>> \in R
    <3>1. S(a) \in Fractions /\ S(b) \in Fractions /\ S(c) \in Fractions
      BY <1>5
    <3>2. a \in Nat /\ b \in Nat /\ c \in Nat
      BY <1>3
    <3>3. Above(S(c), S(b)) \/ (~ Above(S(b), S(c)) /\ c < b)
      BY <1>6, <2>3
    <3>4. Above(S(b), S(a)) \/ (~ Above(S(a), S(b)) /\ b < a)
      BY <1>6, <2>3
    <3>5. Above(S(c), S(a)) \/ (~ Above(S(a), S(c)) /\ c < a)
      BY <3>1, <3>2, <3>3, <3>4, TiesByNumber
    <3>6. QED
      BY <1>6, <3>5
  <2>4. QED
    BY <2>1, <2>2, <2>3 DEF StrictOrder
<1>8. PICK o \in asking : \A p \in asking \ {o} : <<p, o>> \in R
  BY <1>3, <1>4, <1>7, LastExists
<1>9. Best(o)
  <2>1. SUFFICES ASSUME NEW p \in asking \ {o}
                 PROVE  /\ ~ Above(S(p), S(o))
                        /\ p < o => Above(S(o), S(p))
    BY DEF S
  <2>2. Above(S(o), S(p)) \/ (~ Above(S(p), S(o)) /\ o < p)
    BY <1>6, <1>8
  <2>3. Above(S(o), S(p)) => ~ Above(S(p), S(o))
    BY <1>5, AboveOrder
  <2>4. o < p => ~ (p < o)
    BY <1>3
  <2>5. QED
    BY <2>2, <2>3, <2>4
<1>10. Owner(r, ls, n) = CHOOSE p \in asking : Best(p)
  BY DEF Owner
<1>11. Owner(r, ls, n) \in asking /\ Best(Owner(r, ls, n))
  <2> HIDE DEF Best, asking
  <2>1. QED
    BY <1>8, <1>9, <1>10
<1>12. QED
  BY <1>2, <1>3, <1>11

\* The rows of a section: the top rows the query owns, each once.
LEMMA OwnedProperties ==
    ASSUME NEW ls \in AllLegs, NEW n \in Nat, NEW q \in 1 .. Queries
    PROVE  /\ Owned(q, ls, n) \in Seq(Rowids)
           /\ Range(Owned(q, ls, n)) = {r \in Range(Top(ls[q], n)) : Owner(r, ls, n) = q}
           /\ Len(Owned(q, ls, n)) <= n
<1> DEFINE top == Top(ls[q], n)
           rows == {r \in Range(top) : Owner(r, ls, n) = q}
<1>1. Owned(q, ls, n) = InOrder(rows, top)
  BY DEF Owned
<1>2. top \in Seq(Rowids) /\ Len(top) <= n /\ Range(top) \in SUBSET Hits(ls[q])
  BY TopProperties DEF AllLegs
<1>3. Hits(ls[q]) \in SUBSET Rowids
  BY FusedOrderIsStrict DEF AllLegs
<1>4. rows \in SUBSET Range(top) /\ rows \in SUBSET Rowids
  BY <1>2, <1>3
<1> HIDE DEF rows, top
<1>5. IsFiniteSet(rows) /\ Cardinality(rows) \in Nat /\ Cardinality(rows) <= Len(top)
  BY <1>2, <1>4, RangeSize
<1>6. /\ Owned(q, ls, n) \in Seq(rows)
      /\ Range(Owned(q, ls, n)) = rows
      /\ Len(Owned(q, ls, n)) = Cardinality(rows)
  BY <1>1, <1>2, <1>4, <1>5, InOrderProperties
<1>7. Owned(q, ls, n) \in Seq(Rowids)
  BY <1>4, <1>6
<1>8. Len(Owned(q, ls, n)) <= n
  BY <1>2, <1>5, <1>6
<1>9. QED
  BY <1>6, <1>7, <1>8 DEF rows, top

-----------------------------------------------------------------------------
(* Fusion *)

\* 1/a + 1/b > 1/c: both ranks against the best single one.
LEMMA TwoSharesBeatOne ==
    ASSUME NEW a \in 61 .. 70, NEW b \in 61 .. 100, NEW c \in Nat, c >= 61
    PROVE  (a + b) * c > a * b
<1>1. a * b <= 70 * b
  OBVIOUS
<1>2. (a + b) * c >= (a + b) * 61
  OBVIOUS
<1>3. 70 * b < (a + b) * 61
  OBVIOUS
<1>4. a * b \in Nat /\ (a + b) * c \in Nat
  OBVIOUS
<1>5. QED
  BY <1>1, <1>2, <1>3, <1>4

\* 1/a + 1/b > 1/c + 1/d.
LEMMA BetterShares ==
    ASSUME NEW a \in Nat \ {0}, NEW b \in Nat \ {0}, NEW c \in Nat \ {0}, NEW d \in Nat \ {0},
           a < c, b < d
    PROVE  (a + b) * (c * d) > (c + d) * (a * b)
<1>1. (a * c) * d > (a * c) * b
  OBVIOUS
<1>2. (b * d) * c > (b * d) * a
  OBVIOUS
<1>3. (a + b) * (c * d) = (a * c) * d + (b * d) * c
  OBVIOUS
<1>4. (c + d) * (a * b) = (a * c) * b + (b * d) * a
  OBVIOUS
<1>5. /\ (a * c) * d \in Nat /\ (a * c) * b \in Nat
      /\ (b * d) * c \in Nat /\ (b * d) * a \in Nat
  OBVIOUS
<1>6. QED
  BY <1>1, <1>2, <1>3, <1>4, <1>5

\* The score of a row that both legs found.
LEMMA ScoreOfBoth ==
    ASSUME NEW l \in LegPairs, NEW r, In(r, l.bm25), In(r, l.vec)
    PROVE  LET a == 60 + Rank(r, l.bm25)
               b == 60 + Rank(r, l.vec)
           IN  /\ a \in 61 .. 60 + Len(l.bm25)
               /\ b \in 61 .. 60 + Len(l.vec)
               /\ Score(r, l).num = a + b
               /\ Score(r, l).den = a * b
<1> DEFINE a == 60 + Rank(r, l.bm25)
           b == 60 + Rank(r, l.vec)
<1>1. l.bm25 \in Ranked /\ l.vec \in Ranked
  BY DEF LegPairs
<1>2. Len(l.bm25) \in Nat /\ Len(l.vec) \in Nat
  BY <1>1
<1>3. a \in 61 .. 60 + Len(l.bm25) /\ b \in 61 .. 60 + Len(l.vec)
  BY <1>1, <1>2, ShareType
<1>4. Share(r, l.bm25) = [num |-> 1, den |-> a] /\ Share(r, l.vec) = [num |-> 1, den |-> b]
  BY <1>1, ShareType
<1> HIDE DEF a, b
<1>5. Score(r, l) = [num |-> 1 * b + 1 * a, den |-> a * b]
  BY <1>4 DEF Score, Plus
<1>6. 1 * b + 1 * a = a + b
  BY <1>2, <1>3
<1>7. Score(r, l).num = a + b /\ Score(r, l).den = a * b
  BY <1>5, <1>6
<1>8. QED
  BY <1>3, <1>7 DEF a, b

\* The score of a row that one leg found.
LEMMA ScoreOfOne ==
    ASSUME NEW l \in LegPairs, NEW r \in Hits(l), ~ (In(r, l.bm25) /\ In(r, l.vec))
    PROVE  Score(r, l).num = 1 /\ Score(r, l).den \in Nat /\ Score(r, l).den >= 61
<1>1. l.bm25 \in Ranked /\ l.vec \in Ranked
  BY DEF LegPairs
<1>2. Len(l.bm25) \in Nat /\ Len(l.vec) \in Nat
  BY <1>1
<1>3. CASE In(r, l.bm25) /\ ~ In(r, l.vec)
  <2> DEFINE c == 60 + Rank(r, l.bm25)
  <2>1. c \in Nat /\ c >= 61
    BY <1>1, <1>2, <1>3, ShareType
  <2>2. Share(r, l.bm25) = [num |-> 1, den |-> c] /\ Share(r, l.vec) = [num |-> 0, den |-> 1]
    BY <1>1, <1>3, ShareType
  <2> HIDE DEF c
  <2>3. Score(r, l) = [num |-> 1 * 1 + 0 * c, den |-> c * 1]
    BY <2>2 DEF Score, Plus
  <2>4. 1 * 1 + 0 * c = 1 /\ c * 1 = c
    BY <2>1
  <2>5. QED
    BY <2>1, <2>3, <2>4
<1>4. CASE ~ In(r, l.bm25) /\ In(r, l.vec)
  <2> DEFINE c == 60 + Rank(r, l.vec)
  <2>1. c \in Nat /\ c >= 61
    BY <1>1, <1>2, <1>4, ShareType
  <2>2. Share(r, l.bm25) = [num |-> 0, den |-> 1] /\ Share(r, l.vec) = [num |-> 1, den |-> c]
    BY <1>1, <1>4, ShareType
  <2> HIDE DEF c
  <2>3. Score(r, l) = [num |-> 0 * c + 1 * 1, den |-> 1 * c]
    BY <2>2 DEF Score, Plus
  <2>4. 0 * c + 1 * 1 = 1 /\ 1 * c = c
    BY <2>1
  <2>5. QED
    BY <2>1, <2>3, <2>4
<1>5. In(r, l.bm25) \/ In(r, l.vec)
  BY RankPlace DEF Hits
<1>6. QED
  BY <1>3, <1>4, <1>5

\* A row above another comes first in the fused list.
LEMMA AboveIsFirst ==
    ASSUME NEW l \in LegPairs, NEW i \in DOMAIN Rrf(l), NEW j \in DOMAIN Rrf(l),
           Above(Score(Rrf(l)[i], l), Score(Rrf(l)[j], l))
    PROVE  i < j
<1> DEFINE x == Score(Rrf(l)[i], l)
           y == Score(Rrf(l)[j], l)
<1>1. x \in Fractions /\ y \in Fractions
  BY ScoreType
<1>2. ~ Above(y, x)
  BY <1>1, AboveOrder
<1>3. i # j
  BY <1>1, AboveOrder
<1>4. i \in Nat /\ j \in Nat
  BY RrfProperties
<1>5. ~ (j < i)
  <2>1. SUFFICES ASSUME j < i PROVE FALSE
    OBVIOUS
  <2>2. Before(Rrf(l)[j], Rrf(l)[i], l)
    BY <2>1, RrfProperties
  <2>3. QED
    BY <1>2, <2>2 DEF Before
<1>6. QED
  BY <1>3, <1>4, <1>5

\* Fusion goes by positions alone: with at most ten rows in the one leg and
\* forty in the other, two places outweigh any single one, and being higher in
\* both is being higher (hybrid.py:87-96).
THEOREM FusionByPositions ==
    ASSUME NEW l \in LegPairs, Len(l.bm25) <= 10, Len(l.vec) <= 40,
           NEW i \in DOMAIN Rrf(l), NEW j \in DOMAIN Rrf(l),
           In(Rrf(l)[i], l.bm25), In(Rrf(l)[i], l.vec)
    PROVE  /\ ~ (In(Rrf(l)[j], l.bm25) /\ In(Rrf(l)[j], l.vec)) => i < j
           /\ /\ In(Rrf(l)[j], l.bm25) /\ In(Rrf(l)[j], l.vec)
              /\ Rank(Rrf(l)[i], l.bm25) < Rank(Rrf(l)[j], l.bm25)
              /\ Rank(Rrf(l)[i], l.vec) < Rank(Rrf(l)[j], l.vec)
              => i < j
<1> DEFINE r == Rrf(l)[i]
           s == Rrf(l)[j]
           a == 60 + Rank(r, l.bm25)
           b == 60 + Rank(r, l.vec)
<1>1. s \in Hits(l)
  BY RrfProperties DEF Range
<1>2. Len(l.bm25) \in Nat /\ Len(l.vec) \in Nat
  OBVIOUS
<1>3. /\ a \in 61 .. 60 + Len(l.bm25) /\ b \in 61 .. 60 + Len(l.vec)
      /\ Score(r, l).num = a + b /\ Score(r, l).den = a * b
  BY ScoreOfBoth
<1>4. ASSUME ~ (In(s, l.bm25) /\ In(s, l.vec)) PROVE i < j
  <2> DEFINE c == Score(s, l).den
  <2>1. Score(s, l).num = 1 /\ c \in Nat /\ c >= 61
    BY <1>1, <1>4, ScoreOfOne
  <2> HIDE DEF a, b, c, r, s
  <2>2. a \in 61 .. 70 /\ b \in 61 .. 100
    <3>1. a \in 61 .. 60 + Len(l.bm25) /\ b \in 61 .. 60 + Len(l.vec)
      BY <1>3
    <3>2. Len(l.bm25) <= 10 /\ Len(l.vec) <= 40
      OBVIOUS
    <3>3. QED
      BY <1>2, <3>1, <3>2
  <2>3. (a + b) * c > a * b
    BY <2>1, <2>2, TwoSharesBeatOne
  <2>4. 1 * (a * b) = a * b
    BY <2>2
  <2>5. Above(Score(r, l), Score(s, l))
    BY <1>3, <2>1, <2>3, <2>4 DEF Above, c
  <2>6. QED
    BY <2>5, AboveIsFirst DEF r, s
<1>5. ASSUME In(s, l.bm25), In(s, l.vec),
             Rank(r, l.bm25) < Rank(s, l.bm25), Rank(r, l.vec) < Rank(s, l.vec)
      PROVE  i < j
  <2> DEFINE c == 60 + Rank(s, l.bm25)
             d == 60 + Rank(s, l.vec)
  <2>1. /\ c \in 61 .. 60 + Len(l.bm25) /\ d \in 61 .. 60 + Len(l.vec)
        /\ Score(s, l).num = c + d /\ Score(s, l).den = c * d
    BY <1>5, ScoreOfBoth
  <2>2. a < c /\ b < d
    <3>1. /\ Rank(r, l.bm25) \in 1 .. Len(l.bm25) /\ Rank(r, l.vec) \in 1 .. Len(l.vec)
          /\ Rank(s, l.bm25) \in 1 .. Len(l.bm25) /\ Rank(s, l.vec) \in 1 .. Len(l.vec)
      BY <1>5, ShareType DEF LegPairs
    <3>2. QED
      BY <1>2, <1>5, <3>1
  <2> HIDE DEF a, b, c, d, r, s
  <2>3. a \in Nat \ {0} /\ b \in Nat \ {0} /\ c \in Nat \ {0} /\ d \in Nat \ {0}
    BY <1>2, <1>3, <2>1
  <2>4. (a + b) * (c * d) > (c + d) * (a * b)
    BY <2>2, <2>3
  <2>5. Above(Score(r, l), Score(s, l))
    BY <1>3, <2>1, <2>4 DEF Above
  <2>6. QED
    BY <2>5, AboveIsFirst DEF r, s
<1>6. QED
  BY <1>4, <1>5

-----------------------------------------------------------------------------
(* The inductive invariant *)

\* The row passes the filter, or upstream wrote it during the call.
Honoured(r) == Passes(source[r], filter) \/ r \in rewritten

\* Nothing is left of a call that ended.
StartInv ==
    /\ pc = "filter" => legs = [q \in 1 .. Queries |-> NoLegs] /\ view = {} /\ query = 1
    /\ pc \in {"filter", "bm25", "vector"} => sections = <<>>

\* Every row the legs hold, or may still bring, honours the filter.
LegInv ==
    /\ \A r \in view : Honoured(r)
    /\ \A q \in 1 .. Queries : \A r \in Hits(legs[q]) : Honoured(r)

\* A block of query q: its row is the query's, its excerpt is of its chunk.
GoodBlock(b, q, ls, n, f, rw) ==
    /\ b \in Block
    /\ b.row \in Range(Owned(q, ls, n))
    /\ Passes(b.chunk, f) \/ b.row \in rw
    /\ b.excerpt = Window(TextOf[b.chunk].len, Hit(Found(b.chunk, q)))

GoodSection(s, ls, n, f, rw) ==
    /\ s.query \in 1 .. Queries
    /\ s.blocks \in Seq(Block)
    /\ Len(s.blocks) \in 1 .. n
    /\ \A i \in DOMAIN s.blocks : GoodBlock(s.blocks[i], s.query, ls, n, f, rw)
    /\ \A i, j \in DOMAIN s.blocks : i # j => s.blocks[i].row # s.blocks[j].row

SectionType == [query : 1 .. Queries, blocks : Seq(Block)]

\* At most one section per query, in the order of the queries.
GoodSections(ss, ls, n, f, rw) ==
    /\ ss \in Seq(SectionType)
    /\ \A i \in DOMAIN ss : GoodSection(ss[i], ls, n, f, rw) /\ i <= ss[i].query
    /\ \A i, j \in DOMAIN ss : i < j => ss[i].query < ss[j].query

\* At this step of the call, and this query, the section of q is decided.
Done(q, step, at) == step = "answer" \/ (step = "section" /\ q < at)

Shows(ss, q, r) ==
    \E i \in DOMAIN ss : /\ ss[i].query = q
                         /\ \E j \in DOMAIN ss[i].blocks : ss[i].blocks[j].row = r

\* A query that is done shows every row it owns, but for those upstream wrote.
SectionInv ==
    /\ GoodSections(sections, legs, limit, filter, rewritten)
    /\ \A i \in DOMAIN sections : Done(sections[i].query, pc, query)
    /\ \A q \in 1 .. Queries : Done(q, pc, query) =>
          \A r \in Range(Owned(q, legs, limit)) : r \in rewritten \/ Shows(sections, q, r)

Inv == TypeOK /\ StartInv /\ LegInv /\ SectionInv

-----------------------------------------------------------------------------
(* Excerpts *)

\* What is assumed of a term of a query in the content of a chunk.
LEMMA TermType ==
    ASSUME NEW c \in Chunks, NEW q \in 1 .. Queries, NEW t \in DOMAIN TextOf[c].terms[q]
    PROVE  /\ TextOf[c].len \in Nat
           /\ TextOf[c].terms[q] \in Seq([at : Int, size : Nat \ {0}, grown : Nat])
           /\ TextOf[c].terms[q][t].size \in Nat \ {0}
           /\ TextOf[c].terms[q][t].grown \in Nat
           /\ TextOf[c].terms[q][t].at # NotFound =>
                 /\ TextOf[c].terms[q][t].at \in Nat
                 /\ TextOf[c].terms[q][t].at + TextOf[c].terms[q][t].size <= TextOf[c].len
<1> DEFINE term == TextOf[c].terms[q][t]
<1>1. /\ TextOf[c].len \in Nat
      /\ TextOf[c].terms[q] \in Seq([at : Int, size : Nat \ {0}, grown : Nat])
      /\ term.at \in {NotFound} \cup 0 .. TextOf[c].len - term.size
  BY HybridSearchAssumption
<1>2. term \in [at : Int, size : Nat \ {0}, grown : Nat]
  <2> DEFINE terms == TextOf[c].terms[q]
  <2>1. terms \in Seq([at : Int, size : Nat \ {0}, grown : Nat]) /\ t \in DOMAIN terms
    BY <1>1
  <2> HIDE DEF terms
  <2>2. t \in 1 .. Len(terms)
    BY <2>1
  <2>3. terms[t] \in [at : Int, size : Nat \ {0}, grown : Nat]
    BY <2>1, <2>2, ElementOfSeq
  <2>4. QED
    BY <2>3 DEF terms
<1>3. term.size \in Nat \ {0} /\ term.grown \in Nat /\ term.at \in Int
  BY <1>2
<1> HIDE DEF term
<1>4. ASSUME term.at # NotFound
      PROVE  term.at \in Nat /\ term.at + term.size <= TextOf[c].len
  <2>1. term.at \in 0 .. TextOf[c].len - term.size
    BY <1>1, <1>4
  <2>2. TextOf[c].len \in Nat
    BY HybridSearchAssumption
  <2>3. QED
    BY <1>3, <2>1, <2>2
<1>5. QED
  BY <1>1, <1>3, <1>4 DEF term

\* The hit is where the first of the terms that are found is.
LEMMA HitProperties ==
    ASSUME NEW S, NEW p \in Seq(S)
    PROVE  /\ Hit(p) = NotFound \/ \E i \in DOMAIN p : Hit(p) = p[i]
           /\ \A i \in DOMAIN p :
                 p[i] # NotFound /\ (\A j \in 1 .. i - 1 : p[j] = NotFound) => Hit(p) = p[i]
<1> DEFINE found == {i \in DOMAIN p : p[i] # NotFound}
           R == {m \in found \X found : m[2] < m[1]}
<1>1. found \subseteq Nat /\ IsFiniteSet(found)
  <2>1. Len(p) \in Nat /\ DOMAIN p = 1 .. Len(p)
    OBVIOUS
  <2>2. found \in SUBSET (1 .. Len(p)) /\ found \subseteq Nat
    BY <2>1
  <2>3. IsFiniteSet(1 .. Len(p))
    BY <2>1, FS_Interval
  <2> HIDE DEF found
  <2>4. QED
    BY <2>2, <2>3, FS_Subset
<1>2. ASSUME found # {} PROVE \E i \in found : \A j \in found : i <= j
  <2>1. \A i, j \in found : <<i, j>> \in R <=> j < i
    OBVIOUS
  <2> HIDE DEF found, R
  <2>2. StrictOrder(R, found)
    BY <1>1, <2>1 DEF StrictOrder
  <2>3. PICK i \in found : \A j \in found \ {i} : <<j, i>> \in R
    BY <1>1, <1>2, <2>2, LastExists
  <2>4. \A j \in found \ {i} : i < j
    BY <2>1, <2>3
  <2>5. \A j \in found : i <= j
    BY <1>1, <2>4
  <2>6. QED
    BY <2>5
<1> DEFINE first == CHOOSE i \in found : \A j \in found : i <= j
<1>3. found # {} => first \in found /\ \A j \in found : first <= j
  <2> HIDE DEF found
  <2>1. QED
    BY <1>2
<1>4. Hit(p) = IF found = {} THEN NotFound ELSE p[first]
  BY DEF Hit
<1> HIDE DEF first
<1>5. Hit(p) = NotFound \/ \E i \in DOMAIN p : Hit(p) = p[i]
  BY <1>3, <1>4
<1>6. ASSUME NEW i \in DOMAIN p, p[i] # NotFound, \A j \in 1 .. i - 1 : p[j] = NotFound
      PROVE  Hit(p) = p[i]
  <2>1. i \in found
    BY <1>6
  <2>2. \A j \in found : i <= j
    <3>1. SUFFICES ASSUME NEW j \in found, ~ (i <= j) PROVE FALSE
      OBVIOUS
    <3>2. i \in Nat /\ j \in Nat /\ 1 <= j
      BY <1>1, <2>1
    <3>3. j \in 1 .. i - 1
      BY <3>1, <3>2
    <3>4. QED
      BY <1>6, <3>3
  <2>3. first = i
    BY <1>1, <1>3, <2>1, <2>2
  <2>4. QED
    BY <1>4, <2>1, <2>3
<1>7. QED
  BY <1>5, <1>6

\* The hit of a query in a chunk is a position, or there is none.
LEMMA FoundType ==
    ASSUME NEW c \in Chunks, NEW q \in 1 .. Queries
    PROVE  /\ Found(c, q) \in Seq(Nat \cup {NotFound})
           /\ Hit(Found(c, q)) \in Nat \cup {NotFound}
<1> DEFINE terms == TextOf[c].terms[q]
<1>1. terms \in Seq([at : Int, size : Nat \ {0}, grown : Nat])
  BY HybridSearchAssumption
<1>2. Len(terms) \in Nat /\ DOMAIN terms = 1 .. Len(terms)
  BY <1>1
<1>3. ASSUME NEW t \in DOMAIN terms
      PROVE  (IF terms[t].at = NotFound THEN NotFound ELSE terms[t].at + terms[t].grown)
                \in Nat \cup {NotFound}
  <2>1. /\ terms[t].grown \in Nat
        /\ terms[t].at # NotFound => terms[t].at \in Nat
    BY TermType
  <2> HIDE DEF terms
  <2>2. QED
    BY <2>1
<1>4. Found(c, q) = [t \in DOMAIN terms |->
          IF terms[t].at = NotFound THEN NotFound ELSE terms[t].at + terms[t].grown]
  BY DEF Found
<1> HIDE DEF terms
<1>5. Found(c, q) \in [1 .. Len(terms) -> Nat \cup {NotFound}]
  BY <1>2, <1>3, <1>4
<1>6. Found(c, q) \in Seq(Nat \cup {NotFound})
  BY <1>2, <1>5
<1>7. QED
  BY <1>6, HitProperties

\* The excerpt of a block is a slice of the content.
LEMMA WindowType ==
    ASSUME NEW c \in Chunks, NEW q \in 1 .. Queries
    PROVE  Window(TextOf[c].len, Hit(Found(c, q))) \in [from : Nat, end : Nat]
<1>1. TextOf[c].len \in Nat /\ Hit(Found(c, q)) \in Nat \cup {NotFound}
  BY HybridSearchAssumption, FoundType
<1> DEFINE w == Window(TextOf[c].len, Hit(Found(c, q)))
<1>2. w.from \in Nat /\ w.end \in Nat
  <2>1. w.from \in 0 .. TextOf[c].len /\ w.end \in 0 .. TextOf[c].len
    BY <1>1, WindowKeepsWidth
  <2> HIDE DEF w
  <2>2. QED
    BY <2>1
<1>3. \E m, n : w = [from |-> m, end |-> n]
  BY DEF Window
<1> HIDE DEF w
<1>4. w \in [from : Nat, end : Nat]
  BY <1>2, <1>3
<1>5. QED
  BY <1>4 DEF w

\* What a block shows of its chunk.
LEMMA BlockShowsTerm ==
    ASSUME NEW c \in Chunks, NEW q \in 1 .. Queries, NEW t \in DOMAIN TextOf[c].terms[q],
           TextOf[c].terms[q][t].at # NotFound,
           \A u \in 1 .. t - 1 : TextOf[c].terms[q][u].at = NotFound,
           TextOf[c].terms[q][t].grown = 0,
           TextOf[c].terms[q][t].size <= Width - Width \div 4
    PROVE  LET shown == Window(TextOf[c].len, Hit(Found(c, q)))
               term  == TextOf[c].terms[q][t]
           IN  shown.from <= term.at /\ term.at + term.size <= shown.end
<1> DEFINE terms == TextOf[c].terms[q]
           term == terms[t]
<1>1. /\ TextOf[c].len \in Nat /\ term.size \in Nat /\ term.at \in Nat
      /\ term.at + term.size <= TextOf[c].len
  BY TermType
<1>2. /\ terms \in Seq([at : Int, size : Nat \ {0}, grown : Nat])
      /\ Found(c, q) \in Seq(Nat \cup {NotFound})
  BY TermType, FoundType
<1>3. DOMAIN Found(c, q) = DOMAIN terms
  BY DEF Found
<1>4. Found(c, q)[t] = term.at
  BY <1>1 DEF Found
<1>5. \A u \in 1 .. t - 1 : u \in DOMAIN terms
  BY <1>2
<1>6. \A u \in 1 .. t - 1 : Found(c, q)[u] = NotFound
  BY <1>5 DEF Found
<1>7. Hit(Found(c, q)) = term.at
  BY <1>2, <1>3, <1>4, <1>6, HitProperties
<1>8. term.size <= Width - Width \div 4
  OBVIOUS
<1> HIDE DEF term
<1>9. /\ Window(TextOf[c].len, term.at).from <= term.at
      /\ term.at + term.size <= Window(TextOf[c].len, term.at).end
  BY <1>1, <1>8, WindowShowsTerm
<1>10. QED
  BY <1>7, <1>9 DEF term

-----------------------------------------------------------------------------
(* Facts the steps share *)

\* The legs, the limit and the width of the vector leg, by the type invariant.
LEMMA Types ==
    ASSUME TypeOK
    PROVE  /\ legs \in AllLegs
           /\ limit \in 1 .. 10
           /\ VectorK \in 20 .. 40
           /\ Queries \in Nat
<1>1. limit \in 1 .. 10 /\ Queries \in Nat
  BY HybridSearchAssumption DEF TypeOK
<1>2. VectorK \in 20 .. 40
  BY <1>1 DEF VectorK
<1>3. QED
  BY <1>1, <1>2 DEF TypeOK, AllLegs, LegPairs

LEMMA RankingProperties ==
    ASSUME NEW rows \in SUBSET Rowids, NEW m, NEW n, NEW leg \in Rankings(rows, m, n)
    PROVE  leg \in Ranked /\ Len(leg) \in m .. n /\ Range(leg) \subseteq rows
<1>1. PICK T \in SUBSET rows : leg \in SetToSeqs(T)
  BY DEF Rankings, SetToAllKPermutations
<1>2. leg \in Ranked
  BY <1>1 DEF Ranked, SetToAllKPermutations
<1>3. leg \in [1 .. Cardinality(T) -> T]
  BY <1>1 DEF SetToSeqs
<1>4. Range(leg) \subseteq rows
  BY <1>3 DEF Range
<1>5. QED
  BY <1>2, <1>4 DEF Rankings

LEMMA NoLegsType ==
    /\ NoLegs \in LegPairs
    /\ Hits(NoLegs) = {}
    /\ Len(NoLegs.bm25) = 0 /\ Len(NoLegs.vec) = 0
<1>1. << >> \in [1 .. 0 -> {}] /\ {} \in SUBSET Rowids
  OBVIOUS
<1>2. << >> \in SetToSeqs({})
  BY <1>1, FS_EmptySet DEF SetToSeqs
<1>3. << >> \in Ranked
  BY <1>1, <1>2 DEF Ranked, SetToAllKPermutations
<1>4. Range(<< >>) = {}
  BY DEF Range
<1>5. QED
  BY <1>3, <1>4 DEF NoLegs, LegPairs, Hits

LEMMA NoSections == \A ls, n, f, rw : GoodSections(<< >>, ls, n, f, rw)
BY DEF GoodSections

\* Before the first section nothing is decided.
LEMMA NothingDone ==
    ASSUME sections' = << >>, TypeOK,
           pc' \in {"filter", "bm25", "vector"} \/ (pc' = "section" /\ query' = 1)
    PROVE  SectionInv'
<1>1. \A q \in 1 .. Queries : ~ Done(q, pc', query')
  BY DEF Done
<1>2. GoodSections(<< >>, legs', limit', filter', rewritten')
  BY NoSections
<1>3. QED
  BY <1>1, <1>2 DEF SectionInv

\* The sections of an answer are few and well formed.
LEMMA SectionsType ==
    ASSUME NEW ss, NEW ls, NEW n, NEW f, NEW rw, GoodSections(ss, ls, n, f, rw)
    PROVE  /\ Len(ss) <= Queries
           /\ \A i \in DOMAIN ss : /\ ss[i].query \in 1 .. Queries
                                   /\ ss[i].blocks \in Seq(Block)
                                   /\ Len(ss[i].blocks) \in 1 .. n
<1>1. ss \in Seq(SectionType) /\ Len(ss) \in Nat /\ DOMAIN ss = 1 .. Len(ss)
  BY DEF GoodSections
<1>2. \A i \in DOMAIN ss : /\ ss[i].query \in 1 .. Queries
                           /\ ss[i].blocks \in Seq(Block)
                           /\ Len(ss[i].blocks) \in 1 .. n
                           /\ i <= ss[i].query
  BY DEF GoodSections, GoodSection
<1>3. Queries \in Nat
  BY HybridSearchAssumption
<1>4. Len(ss) # 0 => Len(ss) <= ss[Len(ss)].query /\ ss[Len(ss)].query \in 1 .. Queries
  <2>1. Len(ss) # 0 => Len(ss) \in DOMAIN ss
    BY <1>1
  <2>2. QED
    BY <1>2, <2>1
<1>5. Len(ss) <= Queries
  BY <1>1, <1>3, <1>4
<1>6. QED
  BY <1>2, <1>5

\* What upstream writes meanwhile only excuses more.
LEMMA MoreRewritten ==
    ASSUME NEW ss, NEW ls, NEW n, NEW f, NEW rw, NEW more,
           GoodSections(ss, ls, n, f, rw), rw \subseteq more
    PROVE  GoodSections(ss, ls, n, f, more)
<1>1. ASSUME NEW i \in DOMAIN ss PROVE GoodSection(ss[i], ls, n, f, more)
  <2>1. GoodSection(ss[i], ls, n, f, rw)
    BY DEF GoodSections
  <2>2. \A j \in DOMAIN ss[i].blocks : GoodBlock(ss[i].blocks[j], ss[i].query, ls, n, f, more)
    BY <2>1 DEF GoodSection, GoodBlock
  <2>3. QED
    BY <2>1, <2>2 DEF GoodSection
<1>2. QED
  BY <1>1 DEF GoodSections

-----------------------------------------------------------------------------
(* The steps *)

LEMMA InitInv == Init => Inv
<1> SUFFICES ASSUME Init PROVE Inv
  OBVIOUS
<1>1. legs \in [1 .. Queries -> LegPairs] /\ \A q \in 1 .. Queries : legs[q] = NoLegs
  BY NoLegsType DEF Init
<1>2. limit \in 1 .. 10 /\ VectorK \in 20 .. 40
  BY HybridSearchAssumption DEF Init, VectorK
<1>3. 1 \in 1 .. Queries /\ 0 \in 0 .. MaxCommits /\ Queries \in Nat
  BY HybridSearchAssumption
<1>4. sections = << >>
  BY DEF Init
<1>5. TypeOK
  <2>1. \A q \in 1 .. Queries : Len(legs[q].bm25) <= limit /\ Len(legs[q].vec) <= VectorK
    BY <1>1, <1>2, NoLegsType
  <2>2. store \subseteq Rowids
    BY DEF Init, Live
  <2>3. Len(sections) <= Queries /\ DOMAIN sections = {}
    BY <1>3, <1>4
  <2>4. QED
    BY <1>1, <1>3, <2>1, <2>2, <2>3 DEF Init, TypeOK, LegPairs
<1>6. StartInv
  BY DEF Init, StartInv
<1>7. LegInv
  BY <1>1, NoLegsType DEF Init, LegInv
<1>8. SectionInv
  <2>1. \A q \in 1 .. Queries : ~ Done(q, pc, query)
    BY DEF Done, Init
  <2>2. QED
    BY <1>4, <2>1, NoSections DEF SectionInv
<1>9. QED
  BY <1>5, <1>6, <1>7, <1>8 DEF Inv

LEMMA LeaveStep ==
    ASSUME Inv, Leave
    PROVE  Inv'
<1>1. legs' \in [1 .. Queries -> LegPairs] /\ \A q \in 1 .. Queries : legs'[q] = NoLegs
  BY NoLegsType DEF Leave
<1>2. limit' \in 1 .. 10 /\ VectorK' \in 20 .. 40
  <2>1. limit' \in 1 .. 10
    BY HybridSearchAssumption DEF Leave
  <2>2. \A n \in 1 .. 10 : (IF 4 * n > 20 THEN 4 * n ELSE 20) \in 20 .. 40
    OBVIOUS
  <2>3. VectorK' \in 20 .. 40
    BY <2>1, <2>2 DEF VectorK
  <2>4. QED
    BY <2>1, <2>3
<1>3. 1 \in 1 .. Queries /\ Queries \in Nat
  BY HybridSearchAssumption
<1>4. sections' = << >>
  BY DEF Leave
<1>5. TypeOK'
  <2>1. \A q \in 1 .. Queries : Len(legs'[q].bm25) <= limit' /\ Len(legs'[q].vec) <= VectorK'
    BY <1>1, <1>2, NoLegsType
  <2>2. Len(sections') <= Queries /\ DOMAIN sections' = {}
    BY <1>3, <1>4
  <2>3. QED
    BY <1>1, <1>3, <2>1, <2>2 DEF Inv, TypeOK, Leave, LegPairs
<1>6. StartInv'
  BY DEF Leave, StartInv
<1>7. LegInv'
  BY <1>1, NoLegsType DEF Leave, LegInv
<1>8. SectionInv'
  BY NothingDone DEF Inv, Leave
<1>9. QED
  BY <1>5, <1>6, <1>7, <1>8 DEF Inv

LEMMA FilterStep ==
    ASSUME Inv, Filter
    PROVE  Inv'
<1>1. legs' = [q \in 1 .. Queries |-> NoLegs] /\ \A q \in 1 .. Queries : legs'[q] = NoLegs
  BY DEF Inv, StartInv, Filter
<1>2. sections' = << >>
  BY DEF Inv, StartInv, Filter
<1>3. TypeOK'
  BY DEF Inv, TypeOK, Filter, Passing, VectorK
<1>4. StartInv'
  BY <1>2 DEF Filter, StartInv
<1>5. LegInv'
  <2>1. \A r \in view' : Honoured(r)'
    BY DEF Filter, Passing, Honoured
  <2>2. QED
    BY <1>1, <2>1, NoLegsType DEF LegInv
<1>6. SectionInv'
  BY <1>2, NothingDone DEF Inv, Filter
<1>7. QED
  BY <1>3, <1>4, <1>5, <1>6 DEF Inv

LEMMA SyncStep ==
    ASSUME Inv, Sync
    PROVE  Inv'
<1>1. TypeOK'
  BY DEF Inv, TypeOK, Sync, Live, VectorK
<1>2. StartInv'
  BY DEF Inv, StartInv, Sync
<1>3. LegInv'
  BY DEF Inv, LegInv, Sync, Honoured
<1>4. SectionInv'
  BY DEF Inv, SectionInv, Sync
<1>5. QED
  BY <1>1, <1>2, <1>3, <1>4 DEF Inv

LEMMA UpstreamCommitStep ==
    ASSUME Inv, UpstreamCommit
    PROVE  Inv'
<1>1. rewritten \subseteq rewritten' /\ rewritten' \subseteq Rowids
  BY DEF Inv, TypeOK, UpstreamCommit
<1>2. ASSUME NEW r \in Rowids, Honoured(r) PROVE Honoured(r)'
  BY <1>2 DEF Honoured, UpstreamCommit
<1>3. TypeOK'
  <2>1. commits' \in 0 .. MaxCommits
    BY HybridSearchAssumption DEF Inv, TypeOK, UpstreamCommit
  <2>2. QED
    BY <1>1, <2>1 DEF Inv, TypeOK, UpstreamCommit, VectorK
<1>4. StartInv'
  BY DEF Inv, StartInv, UpstreamCommit
<1>5. LegInv'
  <2>1. \A q \in 1 .. Queries : Hits(legs[q]) \subseteq Rowids
    BY Types, FusedOrderIsStrict DEF Inv, AllLegs
  <2>2. view \subseteq Rowids /\ view' = view /\ legs' = legs
    BY DEF Inv, TypeOK, UpstreamCommit
  <2>3. \A r \in view : Honoured(r)'
    BY <1>2, <2>2 DEF Inv, LegInv
  <2>4. \A q \in 1 .. Queries : \A r \in Hits(legs[q]) : Honoured(r)'
    BY <1>2, <2>1 DEF Inv, LegInv
  <2>5. QED
    BY <2>2, <2>3, <2>4 DEF LegInv
<1>6. SectionInv'
  <2>1. /\ sections' = sections /\ legs' = legs /\ limit' = limit /\ filter' = filter
        /\ pc' = pc /\ query' = query
    BY DEF UpstreamCommit
  <2>2. GoodSections(sections, legs, limit, filter, rewritten')
    BY <1>1, MoreRewritten DEF Inv, SectionInv
  <2>3. \A q : Done(q, pc', query') <=> Done(q, pc, query)
    BY <2>1
  <2>4. QED
    BY <1>1, <2>1, <2>2, <2>3 DEF Inv, SectionInv
<1>7. QED
  BY <1>3, <1>4, <1>5, <1>6 DEF Inv

LEMMA Bm25Step ==
    ASSUME Inv, Bm25
    PROVE  Inv'
<1>1. PICK leg \in Rankings(Passing(filter), 0, limit) :
          legs' = [legs EXCEPT ![query].bm25 = leg]
  BY DEF Bm25
<1>2. leg \in Ranked /\ Len(leg) \in 0 .. limit /\ Range(leg) \subseteq Passing(filter)
  <2>1. Passing(filter) \in SUBSET Rowids
    BY DEF Passing
  <2>2. QED
    BY <2>1, RankingProperties
<1>3. query \in 1 .. Queries /\ legs \in AllLegs /\ limit \in 1 .. 10
  BY Types DEF Inv, TypeOK
<1>4. /\ legs' \in AllLegs
      /\ legs'[query].bm25 = leg /\ legs'[query].vec = legs[query].vec
      /\ \A q \in (1 .. Queries) \ {query} : legs'[q] = legs[q]
  BY <1>1, <1>2, <1>3 DEF AllLegs, LegPairs
<1>5. sections' = << >> /\ sections = << >>
  BY DEF Inv, StartInv, Bm25
<1>6. TypeOK'
  <2>1. \A q \in 1 .. Queries : Len(legs'[q].bm25) <= limit /\ Len(legs'[q].vec) <= VectorK
    <3>1. SUFFICES ASSUME NEW q \in 1 .. Queries
                   PROVE  Len(legs'[q].bm25) <= limit /\ Len(legs'[q].vec) <= VectorK
      OBVIOUS
    <3>2. Len(legs[q].bm25) <= limit /\ Len(legs[q].vec) <= VectorK
      BY DEF Inv, TypeOK
    <3>3. Len(leg) <= limit
      BY <1>2, <1>3
    <3>4. QED
      BY <1>4, <3>2, <3>3
  <2>2. VectorK' = VectorK
    BY DEF Bm25, VectorK
  <2>3. QED
    BY <1>4, <2>1, <2>2 DEF Inv, TypeOK, Bm25, upstream, AllLegs, LegPairs
<1>7. StartInv'
  BY <1>5 DEF StartInv, Bm25
<1>8. LegInv'
  <2>1. \A r : Honoured(r)' <=> Honoured(r)
    BY DEF Honoured, Bm25, upstream
  <2>2. \A r \in Range(leg) : Honoured(r)
    BY <1>2 DEF Passing, Honoured
  <2>3. \A q \in 1 .. Queries : \A r \in Hits(legs[q]) : Honoured(r)
    BY DEF Inv, LegInv
  <2>4. \A r \in Hits(legs'[query]) : Honoured(r)
    BY <1>3, <1>4, <2>2, <2>3 DEF Hits
  <2>5. \A q \in 1 .. Queries : \A r \in Hits(legs'[q]) : Honoured(r)
    BY <1>4, <2>3, <2>4
  <2>6. QED
    BY <2>1, <2>5 DEF Inv, LegInv, Bm25
<1>9. SectionInv'
  BY <1>5, NothingDone DEF Inv, Bm25
<1>10. QED
  BY <1>6, <1>7, <1>8, <1>9 DEF Inv

LEMMA VectorStep ==
    ASSUME Inv, Vector
    PROVE  Inv'
<1> DEFINE rows == store \cap view
           size == Least(Cardinality(rows), VectorK)
<1>1. PICK leg \in Rankings(rows, size, size) : legs' = [legs EXCEPT ![query].vec = leg]
  BY DEF Vector
<1>2. /\ query \in 1 .. Queries /\ legs \in AllLegs /\ VectorK \in 20 .. 40 /\ Queries \in Nat
      /\ rows \in SUBSET Rowids
  BY Types DEF Inv, TypeOK
<1>3. Cardinality(rows) \in Nat
  BY <1>2, HybridSearchAssumption, FS_Subset, FS_CardinalityType
<1>4. leg \in Ranked /\ Len(leg) <= VectorK /\ Range(leg) \subseteq rows
  <2>1. leg \in Ranked /\ Len(leg) \in size .. size /\ Range(leg) \subseteq rows
    BY <1>2, RankingProperties
  <2>2. size <= VectorK /\ size \in Nat
    BY <1>2, <1>3 DEF Least
  <2> HIDE DEF size
  <2>3. QED
    BY <2>1, <2>2
<1> HIDE DEF size
<1>5. /\ legs' \in AllLegs
      /\ legs'[query].vec = leg /\ legs'[query].bm25 = legs[query].bm25
      /\ \A q \in (1 .. Queries) \ {query} : legs'[q] = legs[q]
  BY <1>1, <1>2, <1>4 DEF AllLegs, LegPairs
<1>6. sections' = << >> /\ sections = << >>
  BY DEF Inv, StartInv, Vector
<1>7. query' \in 1 .. Queries
  BY <1>2 DEF Vector
<1>8. TypeOK'
  <2>1. \A q \in 1 .. Queries : Len(legs'[q].bm25) <= limit /\ Len(legs'[q].vec) <= VectorK
    <3>1. SUFFICES ASSUME NEW q \in 1 .. Queries
                   PROVE  Len(legs'[q].bm25) <= limit /\ Len(legs'[q].vec) <= VectorK
      OBVIOUS
    <3>2. Len(legs[q].bm25) <= limit /\ Len(legs[q].vec) <= VectorK
      BY DEF Inv, TypeOK
    <3>3. QED
      BY <1>4, <1>5, <3>2
  <2>2. VectorK' = VectorK /\ limit' = limit
    BY DEF Vector, VectorK
  <2>3. pc' \in {"bm25", "section"}
    BY DEF Vector
  <2>4. QED
    BY <1>5, <1>6, <1>7, <2>1, <2>2, <2>3
       DEF Inv, TypeOK, Vector, upstream, AllLegs, LegPairs
<1>9. StartInv'
  BY <1>6 DEF StartInv, Vector
<1>10. LegInv'
  <2>1. \A r : Honoured(r)' <=> Honoured(r)
    BY DEF Honoured, Vector, upstream
  <2>2. \A r \in Range(leg) : Honoured(r)
    BY <1>4 DEF Inv, LegInv
  <2>3. \A q \in 1 .. Queries : \A r \in Hits(legs[q]) : Honoured(r)
    BY DEF Inv, LegInv
  <2>4. \A r \in Hits(legs'[query]) : Honoured(r)
    BY <1>2, <1>5, <2>2, <2>3 DEF Hits
  <2>5. \A q \in 1 .. Queries : \A r \in Hits(legs'[q]) : Honoured(r)
    BY <1>5, <2>3, <2>4
  <2>6. QED
    BY <2>1, <2>5 DEF Inv, LegInv, Vector
<1>11. SectionInv'
  BY <1>6, NothingDone DEF Inv, Vector
<1>12. QED
  BY <1>8, <1>9, <1>10, <1>11 DEF Inv

\* The blocks of one section: good ones, one per row, and a row of the query
\* that gets none was rewritten.
LEMMA SectionBlocks ==
    ASSUME Inv
    PROVE  LET rows   == Owned(query, legs, limit)
               alive  == InOrder(Range(rows) \cap Live, rows)
               blocks == [i \in DOMAIN alive |-> BlockOf(alive[i], query)]
           IN  /\ blocks \in Seq(Block)
               /\ Len(blocks) <= limit
               /\ \A i \in DOMAIN blocks :
                     GoodBlock(blocks[i], query, legs, limit, filter, rewritten)
               /\ \A i, j \in DOMAIN blocks : i # j => blocks[i].row # blocks[j].row
               /\ \A r \in Range(rows) :
                     r \in rewritten \/ \E i \in DOMAIN blocks : blocks[i].row = r
<1> DEFINE rows   == Owned(query, legs, limit)
           some   == Range(rows) \cap Live
           alive  == InOrder(some, rows)
           blocks == [i \in DOMAIN alive |-> BlockOf(alive[i], query)]
<1>1. query \in 1 .. Queries /\ legs \in AllLegs /\ limit \in 1 .. 10 /\ limit \in Nat
  BY Types DEF Inv, TypeOK
<1>2. /\ rows \in Seq(Rowids) /\ Len(rows) <= limit
      /\ Range(rows) \subseteq Range(Top(legs[query], limit))
  BY <1>1, OwnedProperties
<1>3. Range(Top(legs[query], limit)) \subseteq Hits(legs[query])
  BY <1>1, TopProperties DEF AllLegs
<1>4. \A r \in Range(rows) : Honoured(r)
  BY <1>1, <1>2, <1>3 DEF Inv, LegInv
<1>5. some \in SUBSET Range(rows)
  OBVIOUS
<1>6. IsFiniteSet(some) /\ Cardinality(some) \in Nat /\ Cardinality(some) <= Len(rows)
  BY <1>2, <1>5, RangeSize
<1>7. \A r \in some : r \in Rowids /\ source[r] \in Chunks
  BY DEF Live, Inv, TypeOK
<1>8. \A r \in Range(rows) : r \notin some => r \in rewritten
  <2>1. Range(rows) \subseteq Rowids
    BY <1>2 DEF Range
  <2>2. QED
    BY <1>4, <2>1 DEF Live, Honoured, Passes
<1> HIDE DEF rows, some
<1>9. /\ alive \in Seq(some)
      /\ Range(alive) = some
      /\ Len(alive) = Cardinality(some)
      /\ \A i, j \in DOMAIN alive : i # j => alive[i] # alive[j]
  BY <1>2, <1>5, <1>6, InOrderProperties
<1> HIDE DEF alive
<1>10. Len(alive) \in Nat /\ DOMAIN alive = 1 .. Len(alive)
  BY <1>9
<1>11. \A i \in DOMAIN alive : alive[i] \in some /\ alive[i] \in Range(rows)
  BY <1>5, <1>9, <1>10
<1>12. ASSUME NEW r \in some
       PROVE  /\ BlockOf(r, query) \in Block
              /\ BlockOf(r, query).row = r
              /\ r \in Range(rows) =>
                    GoodBlock(BlockOf(r, query), query, legs, limit, filter, rewritten)
  <2> DEFINE c == source[r]
             w == Window(TextOf[c].len, Hit(Found(c, query)))
  <2>1. r \in Rowids /\ c \in Chunks
    BY <1>7
  <2>2. w \in [from : Nat, end : Nat]
    BY <1>1, <2>1, WindowType
  <2>3. BlockOf(r, query) = [row |-> r, chunk |-> c, excerpt |-> w]
    BY DEF BlockOf
  <2> HIDE DEF w, c
  <2>4. BlockOf(r, query) \in Block
    BY <2>1, <2>2, <2>3 DEF Block
  <2>5. ASSUME r \in Range(rows)
        PROVE  GoodBlock(BlockOf(r, query), query, legs, limit, filter, rewritten)
    <3>1. Passes(c, filter) \/ r \in rewritten
      BY <1>4, <2>5 DEF Honoured, c
    <3>2. w = Window(TextOf[c].len, Hit(Found(c, query)))
      BY DEF w
    <3>3. QED
      BY <2>3, <2>4, <2>5, <3>1, <3>2 DEF GoodBlock, rows
  <2>6. QED
    BY <2>3, <2>4, <2>5
<1>13. blocks \in Seq(Block) /\ Len(blocks) = Len(alive) /\ DOMAIN blocks = DOMAIN alive
  BY <1>10, <1>11, <1>12
<1>14. \A i \in DOMAIN blocks : blocks[i] = BlockOf(alive[i], query) /\ blocks[i].row = alive[i]
  BY <1>11, <1>12
<1>15. Len(blocks) <= limit
  BY <1>1, <1>2, <1>6, <1>9, <1>13
<1> HIDE DEF blocks
<1>16. \A i \in DOMAIN blocks :
          GoodBlock(blocks[i], query, legs, limit, filter, rewritten)
  BY <1>11, <1>12, <1>13, <1>14
<1>17. \A i, j \in DOMAIN blocks : i # j => blocks[i].row # blocks[j].row
  BY <1>9, <1>13, <1>14
<1>18. ASSUME NEW r \in Range(rows), r \notin rewritten
       PROVE  \E i \in DOMAIN blocks : blocks[i].row = r
  <2>1. r \in Range(alive)
    BY <1>8, <1>9, <1>18
  <2>2. PICK i \in DOMAIN alive : alive[i] = r
    BY <2>1 DEF Range
  <2>3. QED
    BY <1>13, <1>14, <2>2
<1>19. QED
  BY <1>13, <1>15, <1>16, <1>17, <1>18 DEF rows, some, alive, blocks

LEMMA SectionStep ==
    ASSUME Inv, Section
    PROVE  Inv'
<1> DEFINE rows    == Owned(query, legs, limit)
           alive   == InOrder(Range(rows) \cap Live, rows)
           blocks  == [i \in DOMAIN alive |-> BlockOf(alive[i], query)]
           section == [query |-> query, blocks |-> blocks]
<1>1. /\ blocks \in Seq(Block)
      /\ Len(blocks) <= limit
      /\ \A i \in DOMAIN blocks : GoodBlock(blocks[i], query, legs, limit, filter, rewritten)
      /\ \A i, j \in DOMAIN blocks : i # j => blocks[i].row # blocks[j].row
      /\ \A r \in Range(rows) : r \in rewritten \/ \E i \in DOMAIN blocks : blocks[i].row = r
  BY SectionBlocks
<1>2. /\ pc = "section"
      /\ sections' = IF blocks = << >> THEN sections ELSE Append(sections, section)
      /\ IF query < Queries THEN query' = query + 1 /\ pc' = pc
                            ELSE query' = query /\ pc' = "answer"
      /\ UNCHANGED <<upstream, filter, limit, view, legs>>
  BY DEF Section
<1> HIDE DEF blocks, rows
<1>3. query \in 1 .. Queries /\ Queries \in Nat /\ limit \in 1 .. 10
  BY Types DEF Inv, TypeOK
<1>4. /\ query' \in 1 .. Queries
      /\ pc' \in {"section", "answer"}
      /\ \A q \in 1 .. Queries : Done(q, pc', query') <=> Done(q, pc, query) \/ q = query
  <2>1. CASE query < Queries
    BY <1>2, <1>3, <2>1 DEF Done
  <2>2. CASE ~ (query < Queries)
    BY <1>2, <1>3, <2>2 DEF Done
  <2>3. QED
    BY <2>1, <2>2
<1>5. /\ GoodSections(sections, legs, limit, filter, rewritten)
      /\ \A i \in DOMAIN sections : Done(sections[i].query, pc, query)
  BY DEF Inv, SectionInv
<1>6. /\ sections \in Seq(SectionType) /\ Len(sections) \in Nat
      /\ DOMAIN sections = 1 .. Len(sections)
      /\ \A i \in DOMAIN sections :
            /\ GoodSection(sections[i], legs, limit, filter, rewritten)
            /\ i <= sections[i].query
            /\ sections[i].query \in 1 .. Queries
            /\ sections[i].query < query
      /\ \A i, j \in DOMAIN sections : i < j => sections[i].query < sections[j].query
  BY <1>2, <1>5 DEF GoodSections, GoodSection, Done
<1>7. ASSUME blocks = << >> PROVE SectionInv'
  <2>1. sections' = sections
    BY <1>2, <1>7
  <2>2. \A r \in Range(rows) : r \in rewritten
    BY <1>1, <1>7
  <2>3. \A q \in 1 .. Queries : Done(q, pc', query') =>
            \A r \in Range(Owned(q, legs, limit)) : r \in rewritten \/ Shows(sections, q, r)
    BY <1>4, <2>2 DEF Inv, SectionInv, rows
  <2>4. \A i \in DOMAIN sections : Done(sections[i].query, pc', query')
    BY <1>4, <1>5, <1>6
  <2>5. QED
    BY <1>2, <1>5, <2>1, <2>3, <2>4 DEF SectionInv, upstream
<1>8. ASSUME blocks # << >> PROVE SectionInv'
  <2> DEFINE n == Len(sections) + 1
  <2>1. Len(blocks) \in 1 .. limit
    BY <1>1, <1>3, <1>8
  <2>2. GoodSection(section, legs, limit, filter, rewritten)
    BY <1>1, <1>3, <2>1 DEF GoodSection
  <2>3. section \in SectionType
    BY <1>1, <1>3 DEF SectionType
  <2> HIDE DEF section
  <2>4. section.query = query /\ section.blocks = blocks
    BY DEF section
  <2>5. /\ sections' \in Seq(SectionType)
        /\ DOMAIN sections' = 1 .. n
        /\ \A i \in DOMAIN sections : sections'[i] = sections[i]
        /\ sections'[n] = section
        /\ n \in Nat
    BY <1>2, <1>6, <1>8, <2>3
  <2>6. n <= query
    <3>1. CASE Len(sections) = 0
      BY <1>3, <3>1
    <3>2. CASE Len(sections) # 0
      <4>1. Len(sections) \in DOMAIN sections
        BY <1>6, <3>2
      <4>2. Len(sections) <= sections[Len(sections)].query
        BY <1>6, <4>1
      <4>3. sections[Len(sections)].query < query /\ sections[Len(sections)].query \in Nat
        BY <1>3, <1>6, <4>1
      <4>4. QED
        BY <1>3, <1>6, <4>2, <4>3
    <3>3. QED
      BY <3>1, <3>2
  <2> HIDE DEF n
  <2>7. \A i \in 1 .. n : i = n \/ i \in DOMAIN sections
    BY <1>6 DEF n
  <2>8. \A i \in DOMAIN sections' :
            GoodSection(sections'[i], legs, limit, filter, rewritten) /\ i <= sections'[i].query
    BY <1>6, <2>2, <2>4, <2>5, <2>6, <2>7
  <2>9. \A i, j \in DOMAIN sections' : i < j => sections'[i].query < sections'[j].query
    <3>1. SUFFICES ASSUME NEW i \in 1 .. n, NEW j \in 1 .. n, i < j
                   PROVE  sections'[i].query < sections'[j].query
      BY <2>5
    <3>2. i \in DOMAIN sections
      BY <1>6, <2>5, <3>1 DEF n
    <3>3. CASE j = n
      BY <1>6, <2>4, <2>5, <3>2, <3>3
    <3>4. CASE j \in DOMAIN sections
      BY <1>6, <2>5, <3>1, <3>2, <3>4
    <3>5. QED
      BY <2>7, <3>3, <3>4
  <2>10. GoodSections(sections', legs, limit, filter, rewritten)
    BY <2>5, <2>8, <2>9 DEF GoodSections
  <2>11. \A i \in DOMAIN sections' : Done(sections'[i].query, pc', query')
    BY <1>3, <1>4, <1>5, <1>6, <2>4, <2>5, <2>7
  <2>12. ASSUME NEW q \in 1 .. Queries, Done(q, pc', query'),
                NEW r \in Range(Owned(q, legs, limit)),
                r \notin rewritten
         PROVE  Shows(sections', q, r)
    <3>1. CASE q = query
      <4>1. PICK j \in DOMAIN blocks : blocks[j].row = r
        BY <1>1, <2>12, <3>1 DEF rows
      <4>2. n \in DOMAIN sections'
        BY <1>6, <2>5 DEF n
      <4>3. QED
        BY <2>4, <2>5, <3>1, <4>1, <4>2 DEF Shows
    <3>2. CASE q # query
      <4>1. Shows(sections, q, r)
        BY <1>4, <2>12, <3>2 DEF Inv, SectionInv
      <4>2. \A i \in DOMAIN sections : i \in DOMAIN sections'
        BY <1>6, <2>5 DEF n
      <4>3. QED
        BY <2>5, <4>1, <4>2 DEF Shows
    <3>3. QED
      BY <3>1, <3>2
  <2>13. QED
    BY <1>2, <2>10, <2>11, <2>12 DEF SectionInv, upstream
<1>9. SectionInv'
  BY <1>7, <1>8
<1>10. TypeOK'
  <2>1. /\ Len(sections') <= Queries
        /\ \A i \in DOMAIN sections' : /\ sections'[i].query \in 1 .. Queries
                                       /\ sections'[i].blocks \in Seq(Block)
                                       /\ Len(sections'[i].blocks) \in 1 .. limit'
    BY <1>9, SectionsType DEF SectionInv
  <2>2. VectorK' = VectorK
    BY <1>2 DEF VectorK
  <2>3. QED
    BY <1>2, <1>4, <2>1, <2>2 DEF Inv, TypeOK, upstream
<1>11. StartInv'
  BY <1>4 DEF StartInv
<1>12. LegInv'
  BY <1>2 DEF Inv, LegInv, Honoured, upstream
<1>13. QED
  BY <1>9, <1>10, <1>11, <1>12 DEF Inv

LEMMA NextStep ==
    ASSUME Inv, [Next]_vars
    PROVE  Inv'
<1>1. CASE Next
  BY <1>1, FilterStep, Bm25Step, VectorStep, SectionStep, LeaveStep, UpstreamCommitStep,
     SyncStep
     DEF Next, Answer, Raise
<1>2. CASE UNCHANGED vars
  <2>1. TypeOK' /\ StartInv' /\ LegInv'
    BY <1>2 DEF vars, Inv, TypeOK, StartInv, LegInv, Honoured, VectorK
  <2>2. SectionInv'
    BY <1>2 DEF vars, Inv, SectionInv
  <2>3. QED
    BY <2>1, <2>2 DEF Inv
<1>3. QED
  BY <1>1, <1>2

\* At every step of a call, whatever upstream and other calls do meanwhile, the
\* legs, the sections so far and what was rewritten fit together
\* (hybrid.py:147-177).
THEOREM Invariance == Spec => []Inv
<1>1. Init => Inv
  BY InitInv
<1>2. Inv /\ [Next]_vars => Inv'
  BY NextStep
<1>3. QED
  BY <1>1, <1>2, PTL DEF Spec

-----------------------------------------------------------------------------
(* What the program promises *)

\* Every step keeps every variable in its type: no list is longer than its
\* bound, and there is a section per query at most (hybrid.py:147-177).
THEOREM TypeCorrectness == Spec => []TypeOK
BY Invariance, PTL DEF Inv

\* What is shown passes the filter, in both legs, unless upstream wrote the row
\* during the call (hybrid.py:147-155).
THEOREM FilterIsHonoured == Spec => []FilterHonouredUnlessRewritten
<1>1. Inv => FilterHonouredUnlessRewritten
  BY DEF Inv, SectionInv, GoodSections, GoodSection, GoodBlock,
         FilterHonouredUnlessRewritten
<1>2. QED
  BY <1>1, Invariance, PTL

\* A block shows as much of the content as it has room for, and the first term
\* that the content holds, if it fits (hybrid.py:106-116).
THEOREM ExcerptsShowTerms == Spec => []ExcerptShowsTerm
<1>1. ASSUME Inv PROVE ExcerptShowsTerm
  <2>1. SUFFICES ASSUME NEW i \in DOMAIN sections, NEW j \in DOMAIN sections[i].blocks
                 PROVE  LET block == sections[i].blocks[j]
                            text  == TextOf[block.chunk]
                            terms == text.terms[sections[i].query]
                            shown == block.excerpt
                        IN  /\ shown.end <= text.len
                            /\ shown.end - shown.from = Least(text.len, Width)
                            /\ \A t \in DOMAIN terms :
                                  (/\ terms[t].at # NotFound
                                   /\ \A u \in 1 .. t - 1 : terms[u].at = NotFound
                                   /\ terms[t].grown = 0
                                   /\ terms[t].size <= Width - Width \div 4)
                                  => /\ shown.from <= terms[t].at
                                     /\ terms[t].at + terms[t].size <= shown.end
    BY DEF ExcerptShowsTerm
  <2> DEFINE b == sections[i].blocks[j]
             q == sections[i].query
  <2>2. /\ q \in 1 .. Queries /\ b \in Block
        /\ b.excerpt = Window(TextOf[b.chunk].len, Hit(Found(b.chunk, q)))
    BY <1>1 DEF Inv, SectionInv, GoodSections, GoodSection, GoodBlock
  <2>3. b.chunk \in Chunks
    BY <2>2 DEF Block
  <2>4. TextOf[b.chunk].len \in Nat /\ Hit(Found(b.chunk, q)) \in Nat \cup {NotFound}
    BY <2>2, <2>3, HybridSearchAssumption, FoundType
  <2> HIDE DEF b, q
  <2>5. /\ b.excerpt.end \in 0 .. TextOf[b.chunk].len
        /\ b.excerpt.end - b.excerpt.from = Least(TextOf[b.chunk].len, Width)
    BY <2>2, <2>4, WindowKeepsWidth
  <2>6. \A t \in DOMAIN TextOf[b.chunk].terms[q] :
            (/\ TextOf[b.chunk].terms[q][t].at # NotFound
             /\ \A u \in 1 .. t - 1 : TextOf[b.chunk].terms[q][u].at = NotFound
             /\ TextOf[b.chunk].terms[q][t].grown = 0
             /\ TextOf[b.chunk].terms[q][t].size <= Width - Width \div 4)
            => LET term == TextOf[b.chunk].terms[q][t]
               IN  b.excerpt.from <= term.at /\ term.at + term.size <= b.excerpt.end
    BY <2>2, <2>3, BlockShowsTerm
  <2>7. b.excerpt.end <= TextOf[b.chunk].len
    BY <2>4, <2>5
  <2>8. QED
    BY <2>5, <2>6, <2>7 DEF b, q
<1>2. QED
  BY <1>1, Invariance, PTL

\* A row that both legs found is ranked before any row that one leg found, and
\* a row both legs place higher is ranked higher (hybrid.py:87-96).
THEOREM FusionIsByRanks == Spec => []FusionRespectsRanks
<1>1. ASSUME Inv PROVE FusionRespectsRanks
  <2>1. SUFFICES ASSUME NEW q \in 1 .. Queries,
                        NEW i \in DOMAIN Rrf(legs[q]), NEW j \in DOMAIN Rrf(legs[q])
                 PROVE  LET l == legs[q]
                            f == Rrf(l)
                            Both(r) == In(r, l.bm25) /\ In(r, l.vec)
                        IN  /\ Both(f[i]) /\ ~ Both(f[j]) => i < j
                            /\ /\ Both(f[i]) /\ Both(f[j]) /\ i # j
                               /\ Rank(f[i], l.bm25) < Rank(f[j], l.bm25)
                               /\ Rank(f[i], l.vec) < Rank(f[j], l.vec)
                               => i < j
    BY DEF FusionRespectsRanks
  <2>2. legs[q] \in LegPairs /\ limit \in 1 .. 10 /\ VectorK \in 20 .. 40
    BY <1>1, Types DEF Inv, AllLegs
  <2>3. Len(legs[q].bm25) <= limit /\ Len(legs[q].vec) <= VectorK
    BY <1>1 DEF Inv, TypeOK
  <2>4. Len(legs[q].bm25) \in Nat /\ Len(legs[q].vec) \in Nat
    BY <2>2
  <2>5. Len(legs[q].bm25) <= 10 /\ Len(legs[q].vec) <= 40
    BY <2>2, <2>3, <2>4
  <2>6. QED
    BY <2>2, <2>5, FusionByPositions
<1>2. QED
  BY <1>1, Invariance, PTL

\* A chunk that reached the top of some query is shown exactly once, in the
\* section of the first query that scored it best; only a row upstream wrote
\* during the call may be missing (hybrid.py:158-176).
THEOREM EachRowIsShownOnce == Spec => []ShownOnce
<1>1. ASSUME Inv, pc = "answer", NEW q \in 1 .. Queries, NEW r \in Range(Top(legs[q], limit))
      PROVE  /\ Cardinality(Places(r)) <= 1
             /\ Places(r) = {} => r \in rewritten
             /\ \A place \in Places(r) :
                   LET shown == sections[place[1]].query
                   IN  IF shown < q THEN ~ Above(Score(r, legs[q]), Score(r, legs[shown]))
                       ELSE shown > q => Above(Score(r, legs[shown]), Score(r, legs[q]))
  <2> DEFINE o == Owner(r, legs, limit)
  <2>1. legs \in AllLegs /\ limit \in Nat /\ limit \in 1 .. 10
    BY <1>1, Types DEF Inv
  <2>2. /\ o \in 1 .. Queries
        /\ r \in Range(Top(legs[o], limit))
        /\ q # o => /\ ~ Above(Score(r, legs[q]), Score(r, legs[o]))
                    /\ q < o => Above(Score(r, legs[o]), Score(r, legs[q]))
    BY <1>1, <2>1, OwnerProperties
  <2>3. \A p \in 1 .. Queries : r \in Range(Owned(p, legs, limit)) => p = o
    BY <2>1, OwnedProperties
  <2>4. r \in Range(Owned(o, legs, limit))
    <3>1. o = Owner(r, legs, limit)
      OBVIOUS
    <3> HIDE DEF o
    <3>2. Range(Owned(o, legs, limit)) =
              {x \in Range(Top(legs[o], limit)) : Owner(x, legs, limit) = o}
      BY <2>1, <2>2, OwnedProperties
    <3>3. QED
      BY <2>2, <3>1, <3>2
  <2> HIDE DEF o
  <2>5. \A place \in Places(r) :
            /\ place = <<place[1], place[2]>>
            /\ place[1] \in DOMAIN sections /\ place[2] \in DOMAIN sections[place[1]].blocks
            /\ sections[place[1]].blocks[place[2]].row = r
    BY DEF Places
  <2>6. \A place \in Places(r) : sections[place[1]].query = o
    <3>1. SUFFICES ASSUME NEW place \in Places(r) PROVE sections[place[1]].query = o
      OBVIOUS
    <3>2. GoodSection(sections[place[1]], legs, limit, filter, rewritten)
      BY <1>1, <2>5 DEF Inv, SectionInv, GoodSections
    <3>3. QED
      BY <2>3, <2>5, <3>2 DEF GoodSection, GoodBlock
  <2>7. \A place, other \in Places(r) : place = other
    <3>1. SUFFICES ASSUME NEW place \in Places(r), NEW other \in Places(r)
                   PROVE  place[1] = other[1] /\ place[2] = other[2]
      BY <2>5
    <3>2. \A i, j \in DOMAIN sections : i < j => sections[i].query < sections[j].query
      BY <1>1 DEF Inv, SectionInv, GoodSections
    <3>3. place[1] \in Nat /\ other[1] \in Nat
      BY <1>1, <2>5 DEF Inv, SectionInv, GoodSections
    <3>4. place[1] = other[1]
      BY <2>2, <2>5, <2>6, <3>2, <3>3
    <3>5. GoodSection(sections[place[1]], legs, limit, filter, rewritten)
      BY <1>1, <2>5 DEF Inv, SectionInv, GoodSections
    <3>6. place[2] = other[2]
      BY <2>5, <3>4, <3>5 DEF GoodSection
    <3>7. QED
      BY <3>4, <3>6
  <2>8. Cardinality(Places(r)) <= 1
    <3>1. CASE Places(r) = {}
      BY <3>1, FS_EmptySet
    <3>2. CASE Places(r) # {}
      <4>1. PICK place \in Places(r) : TRUE
        BY <3>2
      <4>2. Places(r) = {place}
        BY <2>7
      <4>3. Cardinality({place}) = 1
        BY FS_Singleton
      <4>4. QED
        BY <4>2, <4>3
    <3>3. QED
      BY <3>1, <3>2
  <2>9. ASSUME Places(r) = {} PROVE r \in rewritten
    <3>1. SUFFICES ASSUME r \notin rewritten PROVE FALSE
      OBVIOUS
    <3>2. Shows(sections, o, r)
      BY <1>1, <2>2, <2>4, <3>1 DEF Inv, SectionInv, Done
    <3>3. PICK i \in DOMAIN sections :
              \E k \in DOMAIN sections[i].blocks : sections[i].blocks[k].row = r
      BY <3>2 DEF Shows
    <3>4. PICK j \in DOMAIN sections[i].blocks : sections[i].blocks[j].row = r
      BY <3>3
    <3>5. j \in 1 .. limit
      <4>1. GoodSection(sections[i], legs, limit, filter, rewritten)
        BY <1>1 DEF Inv, SectionInv, GoodSections
      <4>2. QED
        BY <2>1, <4>1 DEF GoodSection
    <3>6. <<i, j>> \in Places(r)
      BY <3>5, <3>4 DEF Places
    <3>7. QED
      BY <2>9, <3>6
  <2>10. \A place \in Places(r) :
            LET shown == sections[place[1]].query
            IN  IF shown < q THEN ~ Above(Score(r, legs[q]), Score(r, legs[shown]))
                ELSE shown > q => Above(Score(r, legs[shown]), Score(r, legs[q]))
    <3>1. IF o < q THEN ~ Above(Score(r, legs[q]), Score(r, legs[o]))
          ELSE o > q => Above(Score(r, legs[o]), Score(r, legs[q]))
      BY <1>1, <2>2
    <3>2. QED
      BY <2>6, <3>1
  <2>11. QED
    BY <2>8, <2>9, <2>10
<1>2. Inv => ShownOnce
  BY <1>1 DEF ShownOnce
<1>3. QED
  BY <1>2, Invariance, PTL
===============================================================================
