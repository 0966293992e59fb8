-------------------------- MODULE AssetSearchProofs --------------------------
(***************************************************************************)
(* Proofs about AssetSearch, for any assets and organisations, any filters,*)
(* any limits and any set of faults.                                       *)
(***************************************************************************)
EXTENDS AssetSearch, FunctionTheorems, FiniteSetTheorems, SequenceTheorems, TLAPS

\* A list of assets has nothing twice.
Distinct(l) == \A i, j \in DOMAIN l : l[i] = l[j] => i = j
List == {l \in Seq(Assets) : Distinct(l)}

-----------------------------------------------------------------------------
(* Every finite set can be sorted: each element goes where the number of those *)
(* before it says.                                                              *)

LEMMA SortedExists ==
    ASSUME NEW S, IsFiniteSet(S), NEW R,
           \A a, b \in S : a # b => <<a, b>> \in R \/ <<b, a>> \in R,
           \A a \in S : <<a, a>> \notin R,
           \A a, b, c \in S : <<a, b>> \in R /\ <<b, c>> \in R => <<a, c>> \in R
    PROVE  \E l \in Arranged(S) : \A i, j \in DOMAIN l : i < j => <<l[i], l[j]>> \in R
<1> DEFINE N == Cardinality(S)
           Before(a) == {b \in S : <<b, a>> \in R}
           rank == [a \in S |-> Cardinality(Before(a)) + 1]
           l == [i \in 1 .. N |-> CHOOSE a \in S : rank[a] = i]
<1>1. N \in Nat
  BY FS_CardinalityType
<1>2. ASSUME NEW a \in S
      PROVE  /\ IsFiniteSet(Before(a)) /\ Cardinality(Before(a)) \in Nat
             /\ Cardinality(Before(a)) < N
  <2>1. Before(a) \in SUBSET (S \ {a}) /\ Before(a) \in SUBSET S
    OBVIOUS
  <2>2. IsFiniteSet(S \ {a}) /\ Cardinality(S \ {a}) = N - 1
    BY <1>2, FS_RemoveElement
  <2>3. IsFiniteSet(Before(a)) /\ Cardinality(Before(a)) <= Cardinality(S \ {a})
    BY <2>1, <2>2, FS_Subset
  <2>4. Cardinality(Before(a)) \in Nat
    BY <2>3, FS_CardinalityType
  <2>5. QED
    BY <1>1, <2>2, <2>3, <2>4
<1>3. ASSUME NEW a \in S, NEW b \in S, <<a, b>> \in R
      PROVE  rank[a] < rank[b]
  <2>1. Before(a) \in SUBSET Before(b) /\ a \in Before(b) /\ a \notin Before(a)
    BY <1>3
  <2>2. Cardinality(Before(a)) <= Cardinality(Before(b)) /\ Cardinality(Before(a)) # Cardinality(Before(b))
    BY <1>2, <2>1, FS_Subset
  <2>3. Cardinality(Before(a)) \in Nat /\ Cardinality(Before(b)) \in Nat
    BY <1>2
  <2>4. QED
    BY <2>2, <2>3
<1>4. rank \in [S -> 1 .. N]
  <2>1. \A a \in S : Cardinality(Before(a)) \in Nat /\ Cardinality(Before(a)) < N
    BY <1>2
  <2> HIDE DEF Before, N
  <2>2. \A a \in S : Cardinality(Before(a)) + 1 \in 1 .. N
    BY <1>1, <2>1
  <2>3. QED
    BY <2>2
<1>5. \A a, b \in S : rank[a] = rank[b] => a = b
  <2>1. SUFFICES ASSUME NEW a \in S, NEW b \in S, rank[a] = rank[b], a # b PROVE FALSE
    OBVIOUS
  <2>2. rank[a] \in 1 .. N /\ rank[b] \in 1 .. N
    BY <1>4
  <2>3. rank[a] < rank[b] \/ rank[b] < rank[a]
    BY <1>3, <2>1
  <2>4. QED
    BY <1>1, <2>1, <2>2, <2>3
<1> HIDE DEF rank
<1>6. \A i \in 1 .. N : \E a \in S : rank[a] = i
  <2>1. rank \in Injection(S, 1 .. N)
    BY <1>4, <1>5, Fun_IsInj
  <2>2. IsFiniteSet(1 .. N) /\ Cardinality(1 .. N) = N
    BY <1>1, FS_Interval
  <2>3. rank \in Surjection(S, 1 .. N)
    BY <2>1, <2>2, FS_Injection
  <2>4. QED
    BY <2>3, Fun_SurjectionProperties
<1>7. \A i \in 1 .. N : l[i] \in S /\ rank[l[i]] = i
  BY <1>6
<1>8. l \in [1 .. N -> S]
  BY <1>7
<1> HIDE DEF l
<1>9. l \in Arranged(S)
  BY <1>7, <1>8 DEF Arranged
<1>10. ASSUME NEW i \in 1 .. N, NEW j \in 1 .. N, i < j
       PROVE  <<l[i], l[j]>> \in R
  <2>1. l[i] \in S /\ l[j] \in S /\ rank[l[i]] = i /\ rank[l[j]] = j
    BY <1>7
  <2>2. l[i] # l[j]
    BY <1>10, <2>1
  <2>3. ~(j < i)
    BY <1>1, <1>10
  <2>4. <<l[j], l[i]>> \notin R
    BY <1>3, <2>1, <2>3
  <2>5. QED
    BY <2>1, <2>2, <2>4
<1>11. DOMAIN l = 1 .. N
  BY <1>8
<1>12. QED
  BY <1>9, <1>10, <1>11

-----------------------------------------------------------------------------
(* Lists. *)

LEMMA AssetsFinite ==
    ASSUME NEW S \in SUBSET Assets
    PROVE  IsFiniteSet(S) /\ Cardinality(S) \in Nat /\ Cardinality(S) <= Cardinality(Assets)
BY SearchAssumption, FS_Subset, FS_CardinalityType

\* A list is as long as the set of its elements is large.
LEMMA ListFacts ==
    ASSUME NEW l \in List
    PROVE  /\ Len(l) \in Nat /\ DOMAIN l = 1 .. Len(l) /\ l \in [1 .. Len(l) -> Assets]
           /\ Elems(l) \subseteq Assets
           /\ Cardinality(Elems(l)) = Len(l)
           /\ Len(l) <= Cardinality(Assets)
<1>1. l \in Seq(Assets) /\ Distinct(l)
  BY DEF List
<1>2. Len(l) \in Nat /\ DOMAIN l = 1 .. Len(l) /\ l \in [1 .. Len(l) -> Assets]
  BY <1>1, LenProperties
<1>3. Elems(l) \in SUBSET Assets
  BY <1>2 DEF Elems
<1>4. l \in [1 .. Len(l) -> Elems(l)]
  BY <1>2 DEF Elems
<1>5. l \in Injection(1 .. Len(l), Elems(l)) /\ l \in Surjection(1 .. Len(l), Elems(l))
  <2>1. \A i, j \in 1 .. Len(l) : l[i] = l[j] => i = j
    BY <1>1, <1>2 DEF Distinct
  <2>2. \A a \in Elems(l) : \E i \in 1 .. Len(l) : l[i] = a
    BY <1>2 DEF Elems
  <2>3. QED
    BY <1>4, <2>1, <2>2, Fun_IsInj, Fun_IsSurj
<1>6. Cardinality(Elems(l)) = Cardinality(1 .. Len(l))
  BY <1>3, <1>5, AssetsFinite, FS_Injection
<1>7. Cardinality(1 .. Len(l)) = Len(l)
  BY <1>2, FS_Interval
<1>8. QED
  BY <1>2, <1>3, <1>6, <1>7, AssetsFinite

LEMMA ArrangedFacts ==
    ASSUME NEW S \in SUBSET Assets, NEW l \in Arranged(S)
    PROVE  l \in List /\ Elems(l) = S /\ Len(l) = Cardinality(S)
<1>1. Cardinality(S) \in Nat /\ IsFiniteSet(S)
  BY AssetsFinite
<1>2. l \in [1 .. Cardinality(S) -> S] /\ Distinct(l)
  BY DEF Arranged, Distinct
<1>3. l \in Seq(Assets) /\ Len(l) = Cardinality(S)
  BY <1>1, <1>2, SeqDef
<1>4. l \in List
  BY <1>2, <1>3 DEF List
<1>5. Elems(l) \in SUBSET S
  BY <1>2 DEF Elems
<1>6. Elems(l) = S
  BY <1>1, <1>3, <1>4, <1>5, ListFacts, FS_Subset
<1>7. QED
  BY <1>3, <1>4, <1>6

LEMMA RankFacts ==
    ASSUME NEW l, NEW a \in Elems(l)
    PROVE  RankIn(l, a) \in DOMAIN l /\ l[RankIn(l, a)] = a
<1>1. \E i \in DOMAIN l : l[i] = a
  BY DEF Elems
<1>2. QED
  BY <1>1 DEF RankIn

\* The first n of a list are a list, and all of it unless it is longer.
LEMMA UptoFacts ==
    ASSUME NEW l \in List, NEW n \in Nat
    PROVE  /\ Upto(l, n) \in List /\ Len(Upto(l, n)) <= n
           /\ Len(Upto(l, n)) = IF Len(l) < n THEN Len(l) ELSE n
           /\ \A i \in 1 .. Len(Upto(l, n)) : Upto(l, n)[i] = l[i]
           /\ Elems(Upto(l, n)) \subseteq Elems(l)
           /\ Len(Upto(l, n)) = n \/ Elems(Upto(l, n)) = Elems(l)
<1> DEFINE m == IF Len(l) < n THEN Len(l) ELSE n
           u == Upto(l, n)
<1>1. l \in Seq(Assets) /\ Distinct(l) /\ Len(l) \in Nat /\ DOMAIN l = 1 .. Len(l) /\ l \in [1 .. Len(l) -> Assets]
  BY ListFacts DEF List
<1>2. m \in Nat /\ Len(l) \in Nat /\ m <= Len(l) /\ m <= n /\ (m = n \/ m = Len(l))
  BY <1>1
<1>3. u = SubSeq(l, 1, m)
  BY DEF Upto
<1>4. u \in Seq(Assets) /\ Len(u) = m /\ \A i \in 1 .. m : u[i] = l[i]
  <2>1. \A i \in 1 .. m : l[i] \in Assets
    BY <1>1, <1>2
  <2>2. /\ SubSeq(l, 1, m) \in Seq(Assets)
        /\ Len(SubSeq(l, 1, m)) = IF 1 <= m THEN m - 1 + 1 ELSE 0
        /\ \A i \in 1 .. m - 1 + 1 : SubSeq(l, 1, m)[i] = l[1 + i - 1]
    BY <1>2, <2>1, SubSeqProperties
  <2>3. m - 1 + 1 = m /\ \A i \in 1 .. m : 1 + i - 1 = i
    BY <1>2
  <2>4. Len(SubSeq(l, 1, m)) = m
    BY <1>2, <2>2
  <2>5. QED
    BY <1>3, <2>2, <2>3, <2>4
<1> HIDE DEF m, u
<1>5. DOMAIN u = 1 .. m
  BY <1>4, LenProperties
<1>6. \A i \in DOMAIN u : i \in DOMAIN l /\ u[i] = l[i]
  <2>1. \A i \in 1 .. m : i \in 1 .. Len(l)
    BY <1>2
  <2>2. QED
    BY <1>1, <1>4, <1>5, <2>1
<1>7. Distinct(u) /\ Elems(u) \subseteq Elems(l)
  BY <1>1, <1>6 DEF Distinct, Elems
<1>8. m = Len(l) => Elems(u) = Elems(l)
  BY <1>1, <1>5, <1>6 DEF Elems
<1>9. QED
  BY <1>2, <1>4, <1>7, <1>8 DEF List, m, u
-----------------------------------------------------------------------------
(* The orders that lists are given in. *)

LEMMA NewestFirstFacts ==
    ASSUME NEW S \in SUBSET Assets
    PROVE  /\ NewestFirst(S) \in List /\ Elems(NewestFirst(S)) = S
           /\ Len(NewestFirst(S)) = Cardinality(S)
<1> DEFINE R == {x \in Assets \X Assets : x[1] > x[2]}
<1>1. IsFiniteSet(S) /\ \A a \in S : a \in Nat
  BY AssetsFinite, SearchAssumption
<1>2. \A a, b \in Assets : <<a, b>> \in R <=> a > b
  OBVIOUS
<1> HIDE DEF R
<1>3. /\ \A a, b \in S : a # b => <<a, b>> \in R \/ <<b, a>> \in R
      /\ \A a \in S : <<a, a>> \notin R
      /\ \A a, b, c \in S : <<a, b>> \in R /\ <<b, c>> \in R => <<a, c>> \in R
  BY <1>1, <1>2
<1>4. PICK l \in Arranged(S) : \A i, j \in DOMAIN l : i < j => <<l[i], l[j]>> \in R
  BY <1>1, <1>3, SortedExists
<1>5. \A i \in DOMAIN l : l[i] \in Assets
  BY <1>4 DEF Arranged
<1>6. \A i, j \in DOMAIN l : i < j => l[i] > l[j]
  BY <1>2, <1>4, <1>5
<1>7. NewestFirst(S) \in Arranged(S)
  BY <1>6 DEF NewestFirst
<1>8. QED
  BY <1>7, ArrangedFacts

LEMMA OnlyFacts ==
    ASSUME NEW l \in List, NEW A
    PROVE  Only(l, A) \in List /\ Elems(Only(l, A)) = Elems(l) \cap A
<1> DEFINE S == Elems(l) \cap A
           R == {x \in Assets \X Assets : RankIn(l, x[1]) < RankIn(l, x[2])}
<1>1. S \in SUBSET Assets /\ IsFiniteSet(S)
  BY ListFacts, AssetsFinite
<1>2. \A a, b \in Assets : <<a, b>> \in R <=> RankIn(l, a) < RankIn(l, b)
  OBVIOUS
<1>3. \A a \in S : RankIn(l, a) \in Nat /\ l[RankIn(l, a)] = a
  BY RankFacts, ListFacts
<1> HIDE DEF R
<1>4. \A a, b \in S : a # b => RankIn(l, a) # RankIn(l, b)
  BY <1>3
<1>5. /\ \A a, b \in S : a # b => <<a, b>> \in R \/ <<b, a>> \in R
      /\ \A a \in S : <<a, a>> \notin R
      /\ \A a, b, c \in S : <<a, b>> \in R /\ <<b, c>> \in R => <<a, c>> \in R
  <2> HIDE DEF S
  <2>1. \A a \in S : a \in Assets
    BY <1>1
  <2>2. \A a, b \in S : <<a, b>> \in R <=> RankIn(l, a) < RankIn(l, b)
    BY <1>2, <2>1
  <2>3. \A a \in S : RankIn(l, a) \in Nat
    BY <1>3
  <2>4. QED
    BY <1>4, <2>2, <2>3
<1>6. PICK k \in Arranged(S) : \A i, j \in DOMAIN k : i < j => <<k[i], k[j]>> \in R
  BY <1>1, <1>5, SortedExists
<1>7. \A i, j \in DOMAIN k : i < j => RankIn(l, k[i]) < RankIn(l, k[j])
  <2>1. \A i \in DOMAIN k : k[i] \in Assets
    BY <1>1, <1>6 DEF Arranged
  <2>2. QED
    BY <1>2, <1>6, <2>1
<1>8. Only(l, A) \in Arranged(S)
  BY <1>6, <1>7 DEF Only
<1>9. QED
  BY <1>1, <1>8, ArrangedFacts

LEMMA TimesPositive ==
    ASSUME NEW x \in Nat, NEW y \in Nat, NEW z \in Nat \ {0}
    PROVE  /\ x > y <=> x * z > y * z
           /\ x >= y <=> x * z >= y * z
<1>1. x * z - y * z = (x - y) * z
  OBVIOUS
<1>2. x > y => (x - y) * z > 0
  OBVIOUS
<1>3. x < y => (y - x) * z > 0
  OBVIOUS
<1>4. (y - x) * z = y * z - x * z /\ x * z \in Nat /\ y * z \in Nat
  OBVIOUS
<1>5. x = y => x * z = y * z
  OBVIOUS
<1>6. QED
  BY <1>1, <1>2, <1>3, <1>4, <1>5

\* Fractions p / q compare as numbers do.
LEMMA FractionOrder ==
    ASSUME NEW p1 \in Nat \ {0}, NEW q1 \in Nat \ {0}, NEW p2 \in Nat \ {0}, NEW q2 \in Nat \ {0},
           NEW p3 \in Nat \ {0}, NEW q3 \in Nat \ {0}, p1 * q2 >= p2 * q1, p2 * q3 >= p3 * q2
    PROVE  /\ p1 * q3 >= p3 * q1
           /\ p1 * q2 > p2 * q1 \/ p2 * q3 > p3 * q2 => p1 * q3 > p3 * q1
<1>1. /\ p1 * q2 \in Nat /\ p2 * q1 \in Nat /\ p2 * q3 \in Nat /\ p3 * q2 \in Nat
      /\ p1 * q3 \in Nat /\ p3 * q1 \in Nat
  OBVIOUS
<1>2. /\ (p1 * q2) * q3 >= (p2 * q1) * q3
      /\ p1 * q2 > p2 * q1 => (p1 * q2) * q3 > (p2 * q1) * q3
  BY <1>1, TimesPositive
<1>3. /\ (p2 * q3) * q1 >= (p3 * q2) * q1
      /\ p2 * q3 > p3 * q2 => (p2 * q3) * q1 > (p3 * q2) * q1
  BY <1>1, TimesPositive
<1>4. /\ (p2 * q1) * q3 = (p2 * q3) * q1 /\ (p1 * q2) * q3 = (p1 * q3) * q2
      /\ (p3 * q2) * q1 = (p3 * q1) * q2
  OBVIOUS
<1>5. /\ (p1 * q2) * q3 \in Nat /\ (p2 * q1) * q3 \in Nat /\ (p3 * q2) * q1 \in Nat
  OBVIOUS
<1>6. /\ (p1 * q3) * q2 >= (p3 * q1) * q2
      /\ p1 * q2 > p2 * q1 \/ p2 * q3 > p3 * q2 => (p1 * q3) * q2 > (p3 * q1) * q2
  BY <1>2, <1>3, <1>4, <1>5
<1>7. QED
  BY <1>1, <1>6, TimesPositive

-----------------------------------------------------------------------------
(* The fusion: the order of the scores is total. *)

LEMMA TermFacts ==
    ASSUME NEW l \in List, NEW a \in Elems(l)
    PROVE  Term(l, a) \in Nat \ {0} /\ Term(l, a) = 60 + RankIn(l, a) /\ RankIn(l, a) \in Nat
<1>1. RankIn(l, a) \in 1 .. Len(l) /\ Len(l) \in Nat
  BY RankFacts, ListFacts
<1>2. QED
  BY <1>1 DEF Term

LEMMA TimesNat ==
    ASSUME NEW x \in Nat \ {0}, NEW y \in Nat \ {0}
    PROVE  x * y \in Nat \ {0} /\ x + y \in Nat \ {0}
<1>1. x * y \in Nat /\ x + y \in Nat /\ x + y # 0
  OBVIOUS
<1>2. x * y # 0
  OBVIOUS
<1>3. QED
  BY <1>1, <1>2

LEMMA ScoreFacts ==
    ASSUME NEW w \in List, NEW s \in List, NEW a \in Elems(w) \cup Elems(s)
    PROVE  Score(a, w, s).num \in Nat \ {0} /\ Score(a, w, s).den \in Nat \ {0}
<1>1. CASE a \in Elems(w) /\ a \in Elems(s)
  BY <1>1, TermFacts, TimesNat DEF Score
<1>2. CASE a \in Elems(w) /\ a \notin Elems(s)
  BY <1>2, TermFacts DEF Score
<1>3. CASE a \notin Elems(w) /\ a \in Elems(s)
  BY <1>3, TermFacts DEF Score
<1>4. QED
  BY <1>1, <1>2, <1>3

LEMMA EnteredOrder ==
    ASSUME NEW w \in List, NEW s \in List
    PROVE  /\ \A a \in Elems(w) \cup Elems(s) : ~EnteredBefore(a, a, w, s)
           /\ \A a, b \in Elems(w) \cup Elems(s) :
                 a # b => EnteredBefore(a, b, w, s) \/ EnteredBefore(b, a, w, s)
           /\ \A a, b, c \in Elems(w) \cup Elems(s) :
                 EnteredBefore(a, b, w, s) /\ EnteredBefore(b, c, w, s) => EnteredBefore(a, c, w, s)
<1>1. \A a \in Elems(w) : RankIn(w, a) \in Nat /\ w[RankIn(w, a)] = a
  BY TermFacts, RankFacts
<1>2. \A a \in Elems(s) : RankIn(s, a) \in Nat /\ s[RankIn(s, a)] = a
  BY TermFacts, RankFacts
<1>3. \A a, b \in Elems(w) : a # b => RankIn(w, a) # RankIn(w, b)
  BY <1>1
<1>4. \A a, b \in Elems(s) : a # b => RankIn(s, a) # RankIn(s, b)
  BY <1>2
<1>5. \A a \in Elems(w) \cup Elems(s) : ~EnteredBefore(a, a, w, s)
  BY <1>1, <1>2 DEF EnteredBefore
<1>6. \A a, b \in Elems(w) \cup Elems(s) :
         a # b => EnteredBefore(a, b, w, s) \/ EnteredBefore(b, a, w, s)
  BY <1>1, <1>2, <1>3, <1>4 DEF EnteredBefore
<1>7. \A a, b, c \in Elems(w) \cup Elems(s) :
         EnteredBefore(a, b, w, s) /\ EnteredBefore(b, c, w, s) => EnteredBefore(a, c, w, s)
  BY <1>1, <1>2 DEF EnteredBefore
<1>8. QED
  BY <1>5, <1>6, <1>7

LEMMA AheadOrder ==
    ASSUME NEW w \in List, NEW s \in List
    PROVE  /\ \A a \in Elems(w) \cup Elems(s) : ~Ahead(a, a, w, s)
           /\ \A a, b \in Elems(w) \cup Elems(s) : a # b => Ahead(a, b, w, s) \/ Ahead(b, a, w, s)
           /\ \A a, b, c \in Elems(w) \cup Elems(s) :
                 Ahead(a, b, w, s) /\ Ahead(b, c, w, s) => Ahead(a, c, w, s)
<1> DEFINE E == Elems(w) \cup Elems(s)
           num(a) == Score(a, w, s).num
           den(a) == Score(a, w, s).den
<1>1. \A a \in E : num(a) \in Nat \ {0} /\ den(a) \in Nat \ {0}
  BY ScoreFacts
<1>2. \A a, b : Ahead(a, b, w, s) <=> \/ num(a) * den(b) > num(b) * den(a)
                                      \/ num(a) * den(b) = num(b) * den(a) /\ EnteredBefore(a, b, w, s)
  BY DEF Ahead
<1> HIDE DEF E, num, den
<1>3. \A a, b \in E : num(a) * den(b) \in Nat
  BY <1>1, TimesNat
<1>4. \A a \in E : ~EnteredBefore(a, a, w, s)
  BY EnteredOrder DEF E
<1>5. \A a, b \in E : a # b => EnteredBefore(a, b, w, s) \/ EnteredBefore(b, a, w, s)
  BY EnteredOrder DEF E
<1>6. \A a, b, c \in E : EnteredBefore(a, b, w, s) /\ EnteredBefore(b, c, w, s) => EnteredBefore(a, c, w, s)
  BY EnteredOrder DEF E
<1>7. \A a \in E : ~Ahead(a, a, w, s)
  <2>1. SUFFICES ASSUME NEW a \in E PROVE ~Ahead(a, a, w, s)
    OBVIOUS
  <2>2. ~(num(a) * den(a) > num(a) * den(a))
    BY <1>3
  <2>3. QED
    BY <1>2, <1>4, <2>2
<1>8. \A a, b \in E : a # b => Ahead(a, b, w, s) \/ Ahead(b, a, w, s)
  <2>1. SUFFICES ASSUME NEW a \in E, NEW b \in E, a # b PROVE Ahead(a, b, w, s) \/ Ahead(b, a, w, s)
    OBVIOUS
  <2>2. \/ num(a) * den(b) > num(b) * den(a) \/ num(b) * den(a) > num(a) * den(b)
        \/ num(a) * den(b) = num(b) * den(a)
    BY <1>3
  <2>3. QED
    BY <1>2, <1>5, <2>1, <2>2
<1>9. \A a, b, c \in E : Ahead(a, b, w, s) /\ Ahead(b, c, w, s) => Ahead(a, c, w, s)
  <2>1. SUFFICES ASSUME NEW a \in E, NEW b \in E, NEW c \in E, Ahead(a, b, w, s), Ahead(b, c, w, s)
                 PROVE  Ahead(a, c, w, s)
    OBVIOUS
  <2>2. /\ num(a) * den(b) \in Nat /\ num(b) * den(a) \in Nat /\ num(b) * den(c) \in Nat
        /\ num(c) * den(b) \in Nat /\ num(a) * den(c) \in Nat /\ num(c) * den(a) \in Nat
    BY <1>3
  <2>3. num(a) * den(b) >= num(b) * den(a) /\ num(b) * den(c) >= num(c) * den(b)
    BY <1>2, <2>1, <2>2
  <2>4. /\ num(a) * den(c) >= num(c) * den(a)
        /\ num(a) * den(b) > num(b) * den(a) \/ num(b) * den(c) > num(c) * den(b)
              => num(a) * den(c) > num(c) * den(a)
    BY <1>1, <2>3, FractionOrder
  <2>5. CASE num(a) * den(b) > num(b) * den(a) \/ num(b) * den(c) > num(c) * den(b)
    BY <1>2, <2>4, <2>5
  <2>6. CASE ~(num(a) * den(b) > num(b) * den(a)) /\ ~(num(b) * den(c) > num(c) * den(b))
    <3>1. EnteredBefore(a, c, w, s)
      BY <1>2, <1>6, <2>1, <2>6
    <3>2. num(a) * den(c) > num(c) * den(a) \/ num(a) * den(c) = num(c) * den(a)
      BY <2>2, <2>4
    <3>3. QED
      BY <1>2, <3>1, <3>2
  <2>7. QED
    BY <2>5, <2>6
<1>10. QED
  BY <1>7, <1>8, <1>9 DEF E

LEMMA RankedFacts ==
    ASSUME NEW w \in List, NEW s \in List
    PROVE  /\ Ranked(w, s) \in List
           /\ Elems(Ranked(w, s)) = Elems(w) \cup Elems(s)
           /\ \A i, j \in DOMAIN Ranked(w, s) : i < j => Ahead(Ranked(w, s)[i], Ranked(w, s)[j], w, s)
<1> DEFINE S == Elems(w) \cup Elems(s)
           R == {x \in Assets \X Assets : Ahead(x[1], x[2], w, s)}
<1>1. S \in SUBSET Assets /\ IsFiniteSet(S)
  BY ListFacts, AssetsFinite
<1>2. \A a, b \in Assets : <<a, b>> \in R <=> Ahead(a, b, w, s)
  OBVIOUS
<1>3. /\ \A a \in S : ~Ahead(a, a, w, s)
      /\ \A a, b \in S : a # b => Ahead(a, b, w, s) \/ Ahead(b, a, w, s)
      /\ \A a, b, c \in S : Ahead(a, b, w, s) /\ Ahead(b, c, w, s) => Ahead(a, c, w, s)
  BY AheadOrder
<1> HIDE DEF S, R
<1>4. /\ \A a, b \in S : a # b => <<a, b>> \in R \/ <<b, a>> \in R
      /\ \A a \in S : <<a, a>> \notin R
      /\ \A a, b, c \in S : <<a, b>> \in R /\ <<b, c>> \in R => <<a, c>> \in R
  BY <1>1, <1>2, <1>3
<1>5. PICK k \in Arranged(S) : \A i, j \in DOMAIN k : i < j => <<k[i], k[j]>> \in R
  BY <1>1, <1>4, SortedExists
<1>6. \A i, j \in DOMAIN k : i < j => Ahead(k[i], k[j], w, s)
  <2>1. \A i \in DOMAIN k : k[i] \in Assets
    BY <1>1, <1>5 DEF Arranged
  <2>2. QED
    BY <1>2, <1>5, <2>1
<1>7. /\ Ranked(w, s) \in Arranged(S)
      /\ \A i, j \in DOMAIN Ranked(w, s) : i < j => Ahead(Ranked(w, s)[i], Ranked(w, s)[j], w, s)
  BY <1>5, <1>6 DEF Ranked, S
<1>8. QED
  BY <1>1, <1>7, ArrangedFacts DEF S

\* What both lists have ahead of another asset is ahead of it in the fusion.
LEMMA BothAhead ==
    ASSUME NEW w \in List, NEW s \in List, NEW a \in Elems(w) \cap Elems(s),
           NEW b \in Elems(w) \cup Elems(s),
           b \in Elems(w) => RankIn(w, a) < RankIn(w, b),
           b \in Elems(s) => RankIn(s, a) < RankIn(s, b)
    PROVE  Ahead(a, b, w, s)
<1> DEFINE A == Term(w, a)
           B == Term(s, a)
           C == Term(w, b)
           D == Term(s, b)
<1>1. A \in Nat \ {0} /\ B \in Nat \ {0}
  BY TermFacts
<1>2. b \in Elems(w) => C \in Nat \ {0} /\ A < C
  BY TermFacts
<1>3. b \in Elems(s) => D \in Nat \ {0} /\ B < D
  BY TermFacts
<1>4. Score(a, w, s) = [num |-> A + B, den |-> A * B]
  BY DEF Score
<1>5. CASE b \in Elems(w) /\ b \in Elems(s)
  <2>1. Score(b, w, s) = [num |-> C + D, den |-> C * D]
    BY <1>5 DEF Score
  <2> HIDE DEF A, B, C, D
  <2>2. C \in Nat \ {0} /\ D \in Nat \ {0} /\ C > A /\ D > B
    BY <1>1, <1>2, <1>3, <1>5
  <2>3. (A + B) * (C * D) > (C + D) * (A * B)
    <3>1. (A + B) * (C * D) = D * (A * C) + C * (B * D)
      BY <1>1, <2>2
    <3>2. (C + D) * (A * B) = B * (A * C) + A * (B * D)
      BY <1>1, <2>2
    <3>3. A * C \in Nat \ {0} /\ B * D \in Nat \ {0}
      BY <1>1, <2>2, TimesNat
    <3>4. D * (A * C) > B * (A * C) /\ C * (B * D) > A * (B * D)
      BY <1>1, <2>2, <3>3, TimesPositive
    <3>5. /\ D * (A * C) \in Nat /\ B * (A * C) \in Nat /\ C * (B * D) \in Nat /\ A * (B * D) \in Nat
      BY <1>1, <2>2, <3>3, TimesNat
    <3>6. QED
      BY <3>1, <3>2, <3>4, <3>5
  <2>4. QED
    BY <1>4, <2>1, <2>3 DEF Ahead
<1>6. CASE b \in Elems(w) /\ b \notin Elems(s)
  <2>1. Score(b, w, s) = [num |-> 1, den |-> C]
    BY <1>6 DEF Score
  <2> HIDE DEF A, B, C, D
  <2>2. C \in Nat \ {0} /\ C > A
    BY <1>1, <1>2, <1>6
  <2>3. (A + B) * C > 1 * (A * B)
    <3>1. (A + B) * C = A * C + C * B /\ A * C \in Nat /\ C * B \in Nat /\ A * B \in Nat /\ A * C > 0
      BY <1>1, <2>2, TimesNat
    <3>2. C * B > A * B
      BY <1>1, <2>2, TimesPositive
    <3>3. QED
      BY <3>1, <3>2
  <2>4. QED
    BY <1>4, <2>1, <2>3 DEF Ahead
<1>7. CASE b \notin Elems(w) /\ b \in Elems(s)
  <2>1. Score(b, w, s) = [num |-> 1, den |-> D]
    BY <1>7 DEF Score
  <2> HIDE DEF A, B, C, D
  <2>2. D \in Nat \ {0} /\ D > B
    BY <1>1, <1>3, <1>7
  <2>3. (A + B) * D > 1 * (A * B)
    <3>1. (A + B) * D = D * A + B * D /\ D * A \in Nat /\ B * D \in Nat /\ B * A \in Nat /\ B * D > 0
      BY <1>1, <2>2, TimesNat
    <3>2. D * A > B * A /\ B * A = A * B
      BY <1>1, <2>2, TimesPositive
    <3>3. QED
      BY <3>1, <3>2
  <2>4. QED
    BY <1>4, <2>1, <2>3 DEF Ahead
<1>8. QED
  BY <1>5, <1>6, <1>7

LEMMA FusedFacts ==
    ASSUME NEW w \in List, NEW s \in List, limit \in Nat
    PROVE  /\ Fused(w, s) \in List /\ Len(Fused(w, s)) <= limit
           /\ Elems(Fused(w, s)) \subseteq Elems(w) \cup Elems(s)
           /\ Len(Fused(w, s)) = limit \/ Elems(Fused(w, s)) = Elems(w) \cup Elems(s)
BY RankedFacts, UptoFacts DEF Fused

LEMMA FusedKeepsOrder ==
    ASSUME NEW w \in List, NEW s \in List, limit \in Nat,
           NEW a \in Elems(w) \cap Elems(s), NEW b \in Elems(Fused(w, s)),
           b \in Elems(w) => RankIn(w, a) < RankIn(w, b),
           b \in Elems(s) => RankIn(s, a) < RankIn(s, b)
    PROVE  a \in Elems(Fused(w, s)) /\ RankIn(Fused(w, s), a) < RankIn(Fused(w, s), b)
<1> DEFINE r == Ranked(w, s)
           u == Fused(w, s)
           i == RankIn(r, a)
           j == RankIn(u, b)
<1>1. r \in List /\ u \in List /\ Elems(r) = Elems(w) \cup Elems(s) /\ Elems(u) \subseteq Elems(r)
  BY RankedFacts, FusedFacts
<1>2. /\ Len(u) \in Nat /\ Len(r) \in Nat /\ Len(u) <= Len(r)
      /\ DOMAIN u = 1 .. Len(u) /\ DOMAIN r = 1 .. Len(r)
      /\ \A n \in 1 .. Len(u) : u[n] = r[n]
  <2>1. /\ Len(u) = IF Len(r) < limit THEN Len(r) ELSE limit
        /\ \A n \in 1 .. Len(u) : u[n] = r[n]
    BY <1>1, UptoFacts DEF Fused
  <2>2. Len(u) \in Nat /\ Len(r) \in Nat /\ DOMAIN u = 1 .. Len(u) /\ DOMAIN r = 1 .. Len(r)
    BY <1>1, ListFacts
  <2>3. QED
    BY <2>1, <2>2
<1>3. Ahead(a, b, w, s)
  BY <1>1, BothAhead
<1>4. ~Ahead(b, a, w, s) /\ a # b
  BY <1>1, <1>3, AheadOrder
<1>5. i \in 1 .. Len(r) /\ r[i] = a
  BY <1>1, <1>2, RankFacts
<1>6. j \in 1 .. Len(u) /\ u[j] = b
  BY <1>2, RankFacts
<1> HIDE DEF i, j
<1>7. r[j] = b /\ j \in 1 .. Len(r)
  BY <1>2, <1>6
<1>8. i < j
  <2>1. i # j
    BY <1>4, <1>5, <1>7
  <2>2. ~(j < i)
    BY <1>2, <1>4, <1>5, <1>7, RankedFacts
  <2>3. QED
    BY <1>2, <1>5, <1>7, <2>1, <2>2
<1>9. i \in 1 .. Len(u) /\ u[i] = a
  BY <1>2, <1>5, <1>6, <1>8
<1>10. a \in Elems(u)
  BY <1>2, <1>9 DEF Elems
<1>11. RankIn(u, a) = i
  <2>1. RankIn(u, a) \in DOMAIN u /\ u[RankIn(u, a)] = a
    BY <1>10, RankFacts
  <2>2. QED
    BY <1>1, <1>2, <1>9, <2>1 DEF List, Distinct
<1>12. QED
  BY <1>8, <1>10, <1>11 DEF j

LEMMA TailFacts ==
    ASSUME NEW l \in List, l # << >>
    PROVE  /\ Tail(l) \in List /\ Len(l) = Len(Tail(l)) + 1
           /\ Head(l) \in Assets /\ Elems(l) = Elems(Tail(l)) \cup {Head(l)}
           /\ Head(l) \notin Elems(Tail(l))
<1>1. l \in Seq(Assets) /\ Distinct(l) /\ Len(l) \in Nat \ {0} /\ DOMAIN l = 1 .. Len(l)
  BY ListFacts, EmptySeq DEF List
<1>2. /\ Tail(l) \in Seq(Assets) /\ Len(Tail(l)) = Len(l) - 1 /\ Head(l) = l[1] /\ Head(l) \in Assets
      /\ \A i \in 1 .. Len(Tail(l)) : Tail(l)[i] = l[i + 1]
  BY <1>1, HeadTailProperties
<1>3. Len(Tail(l)) \in Nat /\ DOMAIN Tail(l) = 1 .. Len(l) - 1 /\ Len(l) = Len(Tail(l)) + 1
  BY <1>1, <1>2, LenProperties
<1>4. \A i \in DOMAIN Tail(l) : i + 1 \in DOMAIN l /\ i + 1 # 1 /\ Tail(l)[i] = l[i + 1]
  BY <1>1, <1>2, <1>3
<1>5. 1 \in DOMAIN l
  BY <1>1
<1>6. Distinct(Tail(l))
  <2>1. SUFFICES ASSUME NEW i \in DOMAIN Tail(l), NEW j \in DOMAIN Tail(l), Tail(l)[i] = Tail(l)[j]
                 PROVE  i = j
    BY DEF Distinct
  <2>2. i + 1 = j + 1
    BY <1>1, <1>4, <2>1 DEF Distinct
  <2>3. i \in Nat /\ j \in Nat
    BY <1>1, <1>3
  <2>4. QED
    BY <2>2, <2>3
<1>7. Head(l) \notin Elems(Tail(l))
  BY <1>1, <1>2, <1>4, <1>5 DEF Elems, Distinct
<1>8. Elems(l) = Elems(Tail(l)) \cup {Head(l)}
  <2>1. Elems(Tail(l)) \subseteq Elems(l) /\ Head(l) \in Elems(l)
    BY <1>2, <1>4, <1>5 DEF Elems
  <2>2. ASSUME NEW k \in DOMAIN l PROVE l[k] \in Elems(Tail(l)) \cup {Head(l)}
    <3>1. CASE k = 1
      BY <1>2, <3>1
    <3>2. CASE k # 1
      <4>1. k - 1 \in DOMAIN Tail(l) /\ (k - 1) + 1 = k
        BY <1>1, <1>3, <2>2, <3>2
      <4>2. Tail(l)[k - 1] = l[k]
        BY <1>4, <4>1
      <4>3. QED
        BY <4>1, <4>2 DEF Elems
    <3>3. QED
      BY <3>1, <3>2
  <2>3. QED
    BY <2>1, <2>2 DEF Elems
<1>9. QED
  BY <1>2, <1>3, <1>6, <1>7, <1>8 DEF List

LEMMA AppendFacts ==
    ASSUME NEW l \in List, NEW a \in Assets \ Elems(l)
    PROVE  /\ Append(l, a) \in List /\ Len(Append(l, a)) = Len(l) + 1
           /\ Elems(Append(l, a)) = Elems(l) \cup {a}
<1> DEFINE k == Append(l, a)
<1>1. l \in Seq(Assets) /\ Distinct(l) /\ Len(l) \in Nat /\ DOMAIN l = 1 .. Len(l)
  BY ListFacts DEF List
<1>2. /\ k \in Seq(Assets) /\ Len(k) = Len(l) + 1 /\ k[Len(l) + 1] = a
      /\ \A i \in 1 .. Len(l) : k[i] = l[i]
  BY <1>1, AppendProperties
<1>3. DOMAIN k = 1 .. Len(l) + 1
  BY <1>2, LenProperties
<1> HIDE DEF k
<1>4. \A i \in DOMAIN k : (i = Len(l) + 1 /\ k[i] = a) \/ (i \in DOMAIN l /\ k[i] = l[i])
  <2>1. ASSUME NEW i \in DOMAIN k, i # Len(l) + 1 PROVE i \in DOMAIN l /\ k[i] = l[i]
    BY <1>1, <1>2, <1>3, <2>1
  <2>2. QED
    BY <1>2, <2>1
<1>5. \A i \in DOMAIN l : l[i] # a
  BY DEF Elems
<1>6. Distinct(k)
  BY <1>1, <1>4, <1>5 DEF Distinct
<1>7. Elems(k) \subseteq Elems(l) \cup {a}
  BY <1>4 DEF Elems
<1>8. \A i \in DOMAIN l : i \in DOMAIN k /\ k[i] = l[i]
  BY <1>1, <1>2, <1>3
<1>9. Len(l) + 1 \in DOMAIN k
  BY <1>1, <1>3
<1>10. Elems(l) \cup {a} \subseteq Elems(k)
  BY <1>2, <1>8, <1>9 DEF Elems
<1>11. QED
  BY <1>2, <1>6, <1>7, <1>10 DEF List, k

LEMMA EmptyFacts == << >> \in List /\ Len(<< >>) = 0 /\ Elems(<< >>) = {}
<1>1. << >> \in Seq(Assets) /\ Len(<< >>) = 0
  BY EmptySeq
<1>2. DOMAIN << >> = 1 .. 0
  BY <1>1, LenProperties
<1>3. \A i : i \notin DOMAIN << >>
  BY <1>2
<1>4. QED
  BY <1>1, <1>3 DEF List, Distinct, Elems

-----------------------------------------------------------------------------
(* The search. *)

TypeInv ==
    /\ row \in [Assets -> {"absent", "live", "gone"}]
    /\ matching \subseteq Assets /\ index \subseteq Assets
    /\ mode \in Modes /\ types \in Filters /\ limit \in Limits
    /\ ft \in {"todo", "done", "off"} /\ sem \in {"todo", "fetch", "done", "off"}
    /\ words \in List /\ hits \in List /\ similar \in List /\ results \in List
    /\ dropped \subseteq Assets /\ missed \in BOOLEAN
    /\ answer \in {"none", "wait", "error", "given"}
    /\ seen \subseteq Assets
    /\ steady \in [words : SUBSET Assets, points : SUBSET Assets]

\* No list is longer than what was asked for; a hit is read once.
LengthInv ==
    /\ Len(words) <= limit /\ Len(hits) + Len(similar) <= limit /\ Len(results) <= limit
    /\ Elems(hits) \cap Elems(similar) = {}

\* What each stage of the search has yet.
StageInv ==
    /\ answer = "none" => ft = "off" /\ sem = "off"
    /\ answer # "none" /\ mode # "semantic" => ft # "off"
    /\ answer # "none" /\ mode # "fulltext" => sem # "off"
    /\ ft # "done" => words = << >>
    /\ sem \in {"off", "todo"} => hits = << >> /\ similar = << >> /\ dropped = {}
    /\ sem = "done" => hits = << >>
    /\ answer # "given" => results = << >>

SeenInv ==
    /\ answer = "wait" => Live \subseteq seen
    /\ Elems(words) \cup Elems(similar) \cup Elems(results) \subseteq seen \cap Own

\* What has been there all along is there now.
SteadyInv ==
    /\ steady.words \subseteq Live \cap Own \cap Wanted(types) \cap matching
    /\ steady.points \subseteq Live \cap Own \cap Wanted(types) \cap index \cap Alike

\* A task that is done has it, and the other has it or is about to read its row.
WordsFound == ft = "done" => steady.words \subseteq Elems(words) \/ Len(words) = limit

PointsFound ==
    sem \in {"fetch", "done"} /\ ~missed /\ dropped = {} /\ Cardinality(types) <= 1 =>
        steady.points \subseteq Elems(hits) \cup Elems(similar) \/ Len(hits) + Len(similar) = limit

AnswerInv ==
    answer = "given" =>
        /\ ft # "todo" /\ sem \in {"done", "off"}
        /\ mode = "hybrid" => results = Fused(words, similar)
        /\ mode = "fulltext" => results = words
        /\ mode = "semantic" => results = similar

SearchInv ==
    /\ TypeInv /\ LengthInv /\ StageInv /\ SeenInv
    /\ SteadyInv /\ WordsFound /\ PointsFound /\ AnswerInv

LEMMA Parameters ==
    ASSUME TypeInv
    PROVE  /\ limit \in Nat \ {0} /\ mode \in {"fulltext", "semantic", "hybrid"}
           /\ Wanted(types) \subseteq Assets /\ Own \subseteq Assets /\ Live \subseteq Assets
BY SearchAssumption DEF TypeInv, Wanted, Own, Live

LEMMA InitHolds == Init => SearchInv
<1> SUFFICES ASSUME Init PROVE SearchInv
  OBVIOUS
<1> USE DEF Init
<1>1. TypeInv
  BY EmptyFacts DEF TypeInv
<1>2. LengthInv
  BY <1>1, EmptyFacts, Parameters DEF LengthInv
<1>3. StageInv
  BY DEF StageInv
<1>4. SeenInv
  BY EmptyFacts DEF SeenInv
<1>5. SteadyInv
  BY DEF SteadyInv
<1>6. WordsFound /\ PointsFound /\ AnswerInv
  BY DEF WordsFound, PointsFound, AnswerInv
<1>7. QED
  BY <1>1, <1>2, <1>3, <1>4, <1>5, <1>6 DEF SearchInv

\* What others do leaves the search itself as it is.
LEMMA SearchUnchanged ==
    ASSUME LengthInv, StageInv, AnswerInv, UNCHANGED search
    PROVE  LengthInv' /\ StageInv' /\ AnswerInv'
<1>1. LengthInv'
  BY DEF LengthInv, search
<1>2. StageInv'
  BY DEF StageInv, search
<1>3. AnswerInv'
  BY DEF AnswerInv, search, Fused
<1>4. QED
  BY <1>1, <1>2, <1>3

\* What was found stays found while what has been there all along only shrinks.
LEMMA FoundKept ==
    ASSUME WordsFound, PointsFound, UNCHANGED search,
           steady'.words \subseteq steady.words, steady'.points \subseteq steady.points
    PROVE  WordsFound' /\ PointsFound'
<1>1. WordsFound'
  BY DEF WordsFound, search
<1>2. PointsFound'
  BY DEF PointsFound, search
<1>3. QED
  BY <1>1, <1>2

LEMMA AddHolds ==
    ASSUME SearchInv, NEW a \in Assets, Add(a)
    PROVE  SearchInv'
<1> USE DEF SearchInv, Add, search
<1>1. TypeInv'
  BY DEF TypeInv
<1>2. LengthInv' /\ StageInv' /\ AnswerInv'
  BY SearchUnchanged
<1>3. Live' = Live \cup {a}
  BY DEF TypeInv, Live
<1>4. SeenInv'
  BY <1>3 DEF SeenInv, Own
<1>5. SteadyInv'
  BY <1>3 DEF SteadyInv, Own, Wanted
<1>6. WordsFound' /\ PointsFound'
  BY FoundKept
<1>7. QED
  BY <1>1, <1>2, <1>4, <1>5, <1>6

LEMMA EditHolds ==
    ASSUME SearchInv, NEW a \in Assets, Edit(a)
    PROVE  SearchInv'
<1> USE DEF SearchInv, Edit, search
<1>1. /\ steady'.words = steady.words \ {a} /\ steady'.points = steady.points
      /\ steady' \in [words : SUBSET Assets, points : SUBSET Assets]
  BY DEF TypeInv
<1>2. TypeInv'
  BY <1>1 DEF TypeInv
<1>3. LengthInv' /\ StageInv' /\ AnswerInv'
  BY SearchUnchanged
<1>4. SeenInv'
  BY DEF SeenInv, Own, Live
<1>5. SteadyInv'
  BY <1>1 DEF SteadyInv, Own, Wanted, Live
<1>6. WordsFound' /\ PointsFound'
  BY <1>1, FoundKept
<1>7. QED
  BY <1>2, <1>3, <1>4, <1>5, <1>6

LEMMA DeleteHolds ==
    ASSUME SearchInv, NEW a \in Assets, Delete(a)
    PROVE  SearchInv'
<1> USE DEF SearchInv, Delete, search
<1>1. /\ steady'.words = steady.words \ {a} /\ steady'.points = steady.points \ {a}
      /\ steady' \in [words : SUBSET Assets, points : SUBSET Assets]
  BY DEF TypeInv
<1>2. TypeInv'
  BY <1>1 DEF TypeInv
<1>3. LengthInv' /\ StageInv' /\ AnswerInv'
  BY SearchUnchanged
<1>4. Live' = Live \ {a}
  BY DEF TypeInv, Live
<1>5. SeenInv'
  BY <1>4 DEF SeenInv, Own
<1>6. SteadyInv'
  BY <1>1, <1>4 DEF SteadyInv, Own, Wanted
<1>7. WordsFound' /\ PointsFound'
  BY <1>1, FoundKept
<1>8. QED
  BY <1>2, <1>3, <1>5, <1>6, <1>7

LEMMA UpsertHolds ==
    ASSUME SearchInv, NEW a \in Assets, Upsert(a)
    PROVE  SearchInv'
<1> USE DEF SearchInv, Upsert, search
<1>1. TypeInv'
  BY DEF TypeInv
<1>2. LengthInv' /\ StageInv' /\ AnswerInv'
  BY SearchUnchanged
<1>3. SeenInv'
  BY DEF SeenInv, Own, Live
<1>4. SteadyInv'
  BY DEF SteadyInv, Own, Wanted, Live
<1>5. WordsFound' /\ PointsFound'
  BY FoundKept
<1>6. QED
  BY <1>1, <1>2, <1>3, <1>4, <1>5

\* Only what is gone loses its point.
LEMMA DropPointHolds ==
    ASSUME SearchInv, NEW a \in Assets, DropPoint(a)
    PROVE  SearchInv'
<1> USE DEF SearchInv, DropPoint, search
<1>1. TypeInv'
  BY DEF TypeInv
<1>2. LengthInv' /\ StageInv' /\ AnswerInv'
  BY SearchUnchanged
<1>3. SeenInv'
  BY DEF SeenInv, Own, Live
<1>4. a \notin Live
  BY DEF Live
<1>5. SteadyInv'
  BY <1>4 DEF SteadyInv, Own, Wanted, Live
<1>6. WordsFound' /\ PointsFound'
  BY FoundKept
<1>7. QED
  BY <1>1, <1>2, <1>3, <1>5, <1>6

LEMMA AskHolds ==
    ASSUME SearchInv, Ask
    PROVE  SearchInv'
<1> USE DEF SearchInv, Ask
<1> DEFINE A == Live \cap Own \cap Wanted(types)
<1>1. /\ limit \in Nat \ {0} /\ mode \in {"fulltext", "semantic", "hybrid"}
      /\ Live \in SUBSET Assets
  BY Parameters
<1>2. steady'.words = A \cap matching /\ steady'.points = A \cap index \cap Alike
  OBVIOUS
<1>3. steady' \in [words : SUBSET Assets, points : SUBSET Assets]
  BY <1>1
<1>4. TypeInv'
  BY <1>1, <1>3 DEF TypeInv
<1>5. LengthInv'
  BY DEF LengthInv
<1>6. words = << >> /\ hits = << >> /\ similar = << >> /\ results = << >> /\ dropped = {}
  BY DEF StageInv
<1>7. StageInv'
  BY <1>1, <1>6 DEF StageInv
<1>8. SeenInv'
  BY <1>6, EmptyFacts DEF SeenInv, Live
<1>9. SteadyInv'
  BY <1>2 DEF SteadyInv, Live, Own, Wanted
<1>10. WordsFound' /\ PointsFound' /\ AnswerInv'
  BY DEF WordsFound, PointsFound, AnswerInv
<1>11. QED
  BY <1>4, <1>5, <1>7, <1>8, <1>9, <1>10

LEMMA FullTextHolds ==
    ASSUME SearchInv, FullText
    PROVE  SearchInv'
<1> USE DEF SearchInv, FullText
<1> DEFINE S == Live \cap Own \cap Wanted(types) \cap matching
           l == NewestFirst(S)
<1>1. limit \in Nat /\ S \in SUBSET Assets
  BY Parameters DEF Live
<1> HIDE DEF S
<1>2. l \in List /\ Elems(l) = S
  BY <1>1, NewestFirstFacts
<1>3. words' = Upto(l, limit)
  BY DEF S
<1> HIDE DEF l
<1>4. /\ words' \in List /\ Len(words') <= limit /\ Elems(words') \subseteq S
      /\ Len(words') = limit \/ Elems(words') = S
  BY <1>1, <1>2, <1>3, UptoFacts
<1>5. TypeInv'
  BY <1>4 DEF TypeInv
<1>6. LengthInv'
  BY <1>4 DEF LengthInv
<1>7. StageInv'
  BY DEF StageInv
<1>8. SeenInv'
  BY <1>4 DEF SeenInv, Live, Own, S
<1>9. SteadyInv'
  BY DEF SteadyInv, Live, Own, Wanted
<1>10. WordsFound'
  BY <1>4 DEF WordsFound, SteadyInv, S
<1>11. PointsFound' /\ AnswerInv'
  BY DEF PointsFound, AnswerInv
<1>12. QED
  BY <1>5, <1>6, <1>7, <1>8, <1>9, <1>10, <1>11

\* What is the searcher's own, alike and wanted is in the searcher's collection.
LEMMA FoundHasOwn ==
    ASSUME TypeInv
    PROVE  /\ Found \in SUBSET Assets
           /\ Own \cap Wanted(types) \cap index \cap Alike \subseteq Found
BY DEF TypeInv, Found, Collection, Own, Wanted

LEMMA QueryIndexHolds ==
    ASSUME SearchInv, QueryIndex
    PROVE  SearchInv'
<1> USE DEF SearchInv
<1>1. /\ answer = "wait" /\ sem = "todo" /\ sem' = "fetch"
      /\ UNCHANGED <<row, matching, index, mode, types, limit, ft, words, similar,
                     answer, results, seen, steady>>
  BY DEF QueryIndex
<1>2. hits = << >> /\ similar = << >> /\ dropped = {}
  BY <1>1 DEF StageInv
<1>3. limit \in Nat
  BY Parameters
\* Whatever the index says, the hits are few enough and nothing steady is missed.
<1>4. SUFFICES /\ hits' \in List /\ Len(hits') <= limit
               /\ dropped' \subseteq Assets /\ missed' \in BOOLEAN
               /\ ~missed' /\ dropped' = {} /\ Cardinality(types) <= 1 =>
                     steady.points \subseteq Elems(hits') \/ Len(hits') = limit
  <2>1. Len(hits') \in Nat /\ Len(similar) = 0 /\ Elems(similar) = {}
    BY <1>2, <1>4, ListFacts, EmptyFacts
  <2>2. TypeInv'
    BY <1>1, <1>4 DEF TypeInv
  <2>3. Len(hits') + Len(similar') = Len(hits')
    BY <1>1, <2>1
  <2>4. LengthInv'
    BY <1>1, <1>4, <2>1, <2>3 DEF LengthInv
  <2>5. StageInv'
    BY <1>1 DEF StageInv
  <2>6. SeenInv'
    BY <1>1 DEF SeenInv, Live, Own
  <2>7. SteadyInv'
    BY <1>1 DEF SteadyInv, Live, Own, Wanted
  <2>8. WordsFound' /\ AnswerInv'
    BY <1>1 DEF WordsFound, AnswerInv
  <2>9. PointsFound'
    BY <1>1, <1>4, <2>1, <2>3 DEF PointsFound
  <2>10. QED
    BY <2>2, <2>4, <2>5, <2>6, <2>7, <2>8, <2>9
<1>5. CASE /\ Cardinality(types) <= 1
           /\ \E l \in Arranged(Found) :
                 /\ hits' = Only(Upto(l, limit), Own)
                 /\ dropped' = Elems(Upto(l, limit)) \ Own
           /\ UNCHANGED missed
  <2>1. PICK l \in Arranged(Found) : /\ hits' = Only(Upto(l, limit), Own)
                                     /\ dropped' = Elems(Upto(l, limit)) \ Own
    BY <1>5
  <2> DEFINE u == Upto(l, limit)
  <2>2. l \in List /\ Elems(l) = Found
    BY FoundHasOwn, ArrangedFacts
  <2>3. u \in List /\ Len(u) <= limit /\ (Len(u) = limit \/ Elems(u) = Found)
    BY <1>3, <2>2, UptoFacts
  <2>4. hits' \in List /\ Elems(hits') = Elems(u) \cap Own
    BY <2>1, <2>3, OnlyFacts
  <2>5. dropped' = Elems(u) \ Own
    BY <2>1
  <2> HIDE DEF u
  <2>6. /\ Elems(u) \in SUBSET Assets /\ Cardinality(Elems(u)) = Len(u) /\ Len(u) \in Nat
        /\ Cardinality(Elems(hits')) = Len(hits') /\ Len(hits') \in Nat
    BY <2>3, <2>4, ListFacts
  <2>7. Len(hits') <= Len(u)
    BY <2>4, <2>6, AssetsFinite, FS_Subset
  <2>8. steady.points \subseteq Found
    BY FoundHasOwn DEF SteadyInv
  <2>9. ASSUME dropped' = {} PROVE steady.points \subseteq Elems(hits') \/ Len(hits') = limit
    <3>1. Elems(hits') = Elems(u)
      BY <2>4, <2>5, <2>9
    <3>2. Len(hits') = Len(u)
      BY <2>6, <3>1
    <3>3. QED
      BY <2>3, <2>8, <3>1, <3>2
  <2>10. Len(hits') <= limit
    BY <1>3, <2>3, <2>6, <2>7
  <2>11. missed' \in BOOLEAN
    BY <1>5 DEF TypeInv
  <2>12. QED
    BY <2>4, <2>5, <2>6, <2>9, <2>10, <2>11
<1>6. CASE Cardinality(types) > 1 /\ hits' = << >> /\ UNCHANGED <<dropped, missed>>
  <2>1. /\ hits' \in List /\ Len(hits') <= limit
        /\ dropped' \subseteq Assets /\ missed' \in BOOLEAN
    BY <1>3, <1>6, EmptyFacts DEF TypeInv
  <2>2. Cardinality(types) <= 1 => steady.points \subseteq Elems(hits') \/ Len(hits') = limit
    <3>1. Cardinality(types) \in Nat
      BY SearchAssumption, FS_CardinalityType DEF TypeInv
    <3>2. QED
      BY <1>6, <3>1
  <2>3. QED
    BY <2>1, <2>2
<1>7. CASE hits' = << >> /\ missed' = TRUE /\ UNCHANGED dropped
  BY <1>3, <1>7, EmptyFacts DEF TypeInv
<1>8. QED
  BY <1>5, <1>6, <1>7 DEF QueryIndex

LEMMA FetchHitHolds ==
    ASSUME SearchInv, FetchHit
    PROVE  SearchInv'
<1> USE DEF SearchInv
<1>1. /\ answer = "wait" /\ sem = "fetch"
      /\ UNCHANGED <<row, matching, index, mode, types, limit, ft, words, missed,
                     answer, results, seen, steady>>
  BY DEF FetchHit
<1>2. limit \in Nat /\ Live \subseteq seen
  BY <1>1, Parameters DEF SeenInv
<1>3. SteadyInv' /\ WordsFound' /\ AnswerInv'
  BY <1>1 DEF SteadyInv, WordsFound, AnswerInv, Live, Own, Wanted
<1>4. CASE hits # << >> /\ FetchHit
  <2> DEFINE a == Head(hits)
             t == Tail(hits)
  <2>1. hits' = t /\ sem' = sem
    BY <1>4 DEF FetchHit
  <2>2. /\ t \in List /\ Len(hits) = Len(t) + 1 /\ a \in Assets
        /\ Elems(hits) = Elems(t) \cup {a} /\ a \notin Elems(t)
    BY <1>4, TailFacts DEF TypeInv
  <2>3. Len(t) \in Nat /\ Len(similar) \in Nat
    BY <2>2, ListFacts DEF TypeInv
  <2>4. CASE Readable(a)
    <3>1. similar' = Append(similar, a) /\ dropped' = dropped
      BY <1>4, <2>4 DEF FetchHit
    <3>2. a \notin Elems(similar)
      BY <2>2 DEF LengthInv
    <3>3. /\ similar' \in List /\ Len(similar') = Len(similar) + 1
          /\ Elems(similar') = Elems(similar) \cup {a}
      BY <2>2, <3>1, <3>2, AppendFacts DEF TypeInv
    <3>4. a \in seen \cap Own
      BY <1>2, <2>4 DEF Readable
    <3> HIDE DEF a, t
    <3>5. Len(hits') + Len(similar') = Len(hits) + Len(similar)
      BY <2>1, <2>2, <2>3, <3>3
    <3>6. Elems(hits') \cup Elems(similar') = Elems(hits) \cup Elems(similar)
      BY <2>1, <2>2, <3>3
    <3>7. TypeInv'
      BY <1>1, <2>1, <2>2, <3>1, <3>3 DEF TypeInv
    <3>8. LengthInv'
      <4>1. Elems(hits') \cap Elems(similar') = {}
        BY <2>1, <2>2, <3>2, <3>3 DEF LengthInv
      <4>2. QED
        BY <1>1, <3>5, <4>1 DEF LengthInv
    <3>9. StageInv'
      BY <1>1, <2>1 DEF StageInv
    <3>10. SeenInv'
      BY <1>1, <3>3, <3>4 DEF SeenInv, Live, Own
    <3>11. PointsFound'
      BY <1>1, <2>1, <3>1, <3>5, <3>6 DEF PointsFound
    <3>12. QED
      BY <1>3, <3>7, <3>8, <3>9, <3>10, <3>11
  <2>5. CASE ~Readable(a)
    <3>1. similar' = similar /\ dropped' = dropped \cup {a}
      BY <1>4, <2>5 DEF FetchHit
    <3> HIDE DEF a, t
    <3>2. TypeInv'
      BY <1>1, <2>1, <2>2, <3>1 DEF TypeInv
    <3>3. LengthInv'
      <4>1. Len(hits') + Len(similar') <= limit
        BY <1>2, <2>1, <2>2, <2>3, <3>1 DEF LengthInv
      <4>2. Elems(hits') \cap Elems(similar') = {}
        BY <2>1, <2>2, <3>1 DEF LengthInv
      <4>3. QED
        BY <1>1, <4>1, <4>2 DEF LengthInv
    <3>4. StageInv'
      BY <1>1, <2>1 DEF StageInv
    <3>5. SeenInv'
      BY <1>1, <3>1 DEF SeenInv, Live, Own
    <3>6. PointsFound'
      BY <3>1 DEF PointsFound
    <3>7. QED
      BY <1>3, <3>2, <3>3, <3>4, <3>5, <3>6
  <2>6. QED
    BY <2>4, <2>5
<1>5. CASE hits = << >> /\ sem' = "done" /\ UNCHANGED <<hits, similar, dropped>>
  <2>1. TypeInv'
    BY <1>1, <1>5 DEF TypeInv
  <2>2. LengthInv' /\ StageInv'
    BY <1>1, <1>5 DEF LengthInv, StageInv
  <2>3. SeenInv'
    BY <1>1, <1>5 DEF SeenInv, Live, Own
  <2>4. PointsFound'
    BY <1>1, <1>5 DEF PointsFound
  <2>5. QED
    BY <1>3, <2>1, <2>2, <2>3, <2>4
<1>6. QED
  BY <1>4, <1>5 DEF FetchHit

LEMMA DatabaseFailsHolds ==
    ASSUME SearchInv, DatabaseFails
    PROVE  SearchInv'
<1> USE DEF SearchInv, DatabaseFails
<1>1. TypeInv' /\ LengthInv'
  BY DEF TypeInv, LengthInv
<1>2. StageInv'
  BY DEF StageInv
<1>3. SeenInv'
  BY DEF SeenInv, Live, Own
<1>4. SteadyInv'
  BY DEF SteadyInv, Live, Own, Wanted
<1>5. WordsFound' /\ PointsFound' /\ AnswerInv'
  BY DEF WordsFound, PointsFound, AnswerInv
<1>6. QED
  BY <1>1, <1>2, <1>3, <1>4, <1>5

LEMMA AnswerHolds ==
    ASSUME SearchInv, Answer
    PROVE  SearchInv'
<1> USE DEF SearchInv
<1>1. /\ answer = "wait" /\ ft # "todo" /\ sem \in {"done", "off"} /\ answer' = "given"
      /\ UNCHANGED <<row, matching, index, mode, types, limit, ft, sem, words, hits, similar,
                     dropped, missed, seen, steady>>
  BY DEF Answer
<1>2. /\ mode = "hybrid" => results' = Fused(words, similar)
      /\ mode = "fulltext" => results' = words
      /\ mode = "semantic" => results' = similar
  BY DEF Answer
<1>3. mode \in {"fulltext", "semantic", "hybrid"} /\ limit \in Nat
  BY Parameters
<1>4. words \in List /\ similar \in List
  BY DEF TypeInv
<1>5. Len(hits) \in Nat /\ Len(similar) \in Nat
  BY ListFacts DEF TypeInv
<1>6. /\ results' \in List /\ Len(results') <= limit
      /\ Elems(results') \subseteq Elems(words) \cup Elems(similar)
  <2>1. CASE mode = "hybrid"
    BY <1>2, <1>3, <1>4, <2>1, FusedFacts
  <2>2. CASE mode = "fulltext"
    BY <1>2, <1>4, <2>2 DEF LengthInv
  <2>3. CASE mode = "semantic"
    <3>1. Len(similar) <= limit
      BY <1>3, <1>5 DEF LengthInv
    <3>2. QED
      BY <1>2, <1>4, <2>3, <3>1
  <2>4. QED
    BY <1>3, <2>1, <2>2, <2>3
<1>7. TypeInv'
  BY <1>1, <1>6 DEF TypeInv
<1>8. LengthInv'
  BY <1>1, <1>6 DEF LengthInv
<1>9. StageInv'
  BY <1>1 DEF StageInv
<1>10. SeenInv'
  BY <1>1, <1>6 DEF SeenInv, Live, Own
<1>11. SteadyInv' /\ WordsFound' /\ PointsFound'
  BY <1>1 DEF SteadyInv, WordsFound, PointsFound, Live, Own, Wanted
<1>12. AnswerInv'
  BY <1>1, <1>2 DEF AnswerInv, Fused
<1>13. QED
  BY <1>7, <1>8, <1>9, <1>10, <1>11, <1>12

LEMMA NextHolds == SearchInv /\ [Next]_vars => SearchInv'
<1> SUFFICES ASSUME SearchInv, [Next]_vars PROVE SearchInv'
  OBVIOUS
<1>1. CASE \E a \in Assets : Add(a) \/ Edit(a) \/ Delete(a) \/ Upsert(a) \/ DropPoint(a)
  BY <1>1, AddHolds, EditHolds, DeleteHolds, UpsertHolds, DropPointHolds
<1>2. CASE Ask
  BY <1>2, AskHolds
<1>3. CASE FullText
  BY <1>3, FullTextHolds
<1>4. CASE QueryIndex
  BY <1>4, QueryIndexHolds
<1>5. CASE FetchHit
  BY <1>5, FetchHitHolds
<1>6. CASE DatabaseFails
  BY <1>6, DatabaseFailsHolds
<1>7. CASE Answer
  BY <1>7, AnswerHolds
<1>8. CASE UNCHANGED vars
  <2> USE <1>8 DEF vars, search, SearchInv
  <2>1. TypeInv' /\ SeenInv' /\ SteadyInv'
    BY DEF TypeInv, SeenInv, SteadyInv, Live, Own, Wanted
  <2>2. LengthInv' /\ StageInv' /\ AnswerInv'
    BY SearchUnchanged
  <2>3. WordsFound' /\ PointsFound'
    BY FoundKept
  <2>4. QED
    BY <2>1, <2>2, <2>3
<1>9. QED
  BY <1>1, <1>2, <1>3, <1>4, <1>5, <1>6, <1>7, <1>8 DEF Next

LEMMA SearchHolds == Spec => []SearchInv
BY InitHolds, NextHolds, PTL DEF Spec

-----------------------------------------------------------------------------
LEMMA ListIsBounded ==
    ASSUME NEW l \in List
    PROVE  l \in Lists
<1>1. /\ l \in [1 .. Len(l) -> Assets] /\ Len(l) \in Nat /\ Len(l) <= Cardinality(Assets)
  BY ListFacts
<1>2. Cardinality(Assets) \in Nat
  BY AssetsFinite
<1>3. Len(l) \in 0 .. Cardinality(Assets)
  BY <1>1, <1>2
<1>4. QED
  BY <1>1, <1>3 DEF Lists

LEMMA TypesFollow == SearchInv => TypeOK
<1> SUFFICES ASSUME SearchInv PROVE TypeOK
  OBVIOUS
<1> USE DEF SearchInv
<1>1. Len(hits) \in Nat /\ Len(similar) \in Nat /\ limit \in Nat
  BY ListFacts, Parameters DEF TypeInv
<1>2. Len(hits) <= limit /\ Len(similar) <= limit
  BY <1>1 DEF LengthInv
<1>3. \A l \in {words, hits, similar, results} : l \in Lists /\ Len(l) <= limit
  BY <1>2, ListIsBounded DEF TypeInv, LengthInv
<1>4. QED
  BY <1>3 DEF TypeInv, TypeOK

\* The types of AssetSearch hold, and no list the search keeps is longer than the
\* limit that was asked for.
THEOREM SearchTypeCorrect == Spec => []TypeOK
BY SearchHolds, TypesFollow, PTL

LEMMA ResultsFollow == SearchInv => ResultsWereLive
BY DEF SearchInv, SeenInv, ResultsWereLive, Elems

\* Every result was live at some moment of the search and is the searcher's own:
\* the rows are read after the index has answered, by the organisation's own id.
THEOREM SearchResultsWereLive == Spec => []ResultsWereLive
BY SearchHolds, ResultsFollow, PTL

LEMMA OrderFollows == SearchInv => RankedByBoth
<1> SUFFICES ASSUME SearchInv, Given, mode = "hybrid"
             PROVE  /\ \A i, j \in DOMAIN results : results[i] = results[j] => i = j
                    /\ \A b \in Elems(results), a \in Elems(words) \cap Elems(similar) :
                         /\ b \in Elems(words) => RankIn(words, a) < RankIn(words, b)
                         /\ b \in Elems(similar) => RankIn(similar, a) < RankIn(similar, b)
                         => a \in Elems(results) /\ RankIn(results, a) < RankIn(results, b)
  BY DEF RankedByBoth
<1> USE DEF SearchInv
<1>1. results = Fused(words, similar) /\ words \in List /\ similar \in List /\ results \in List
  BY DEF AnswerInv, TypeInv, Given
<1>2. limit \in Nat
  BY Parameters
<1>3. \A i, j \in DOMAIN results : results[i] = results[j] => i = j
  BY <1>1 DEF List, Distinct
<1>4. ASSUME NEW b \in Elems(results), NEW a \in Elems(words) \cap Elems(similar),
             b \in Elems(words) => RankIn(words, a) < RankIn(words, b),
             b \in Elems(similar) => RankIn(similar, a) < RankIn(similar, b)
      PROVE  a \in Elems(results) /\ RankIn(results, a) < RankIn(results, b)
  BY <1>1, <1>2, <1>4, FusedKeepsOrder
<1>5. QED
  BY <1>3, <1>4

\* A hybrid search names an asset once, and what both lists have ahead of another
\* asset is ahead of it, and on the page if the other is: reciprocal ranks, as
\* exact fractions, cannot turn an order both lists agree on.
THEOREM SearchRankedByBoth == Spec => []RankedByBoth
BY SearchHolds, OrderFollows, PTL

\* A page that holds a whole list of limit elements is full.
LEMMA FullPage ==
    ASSUME NEW l \in List, NEW r \in List, Elems(l) \subseteq Elems(r),
           limit \in Nat, Len(l) = limit, Len(r) <= limit
    PROVE  Len(r) = limit
<1>1. /\ Len(l) \in Nat /\ Len(r) \in Nat /\ Elems(r) \in SUBSET Assets
      /\ Cardinality(Elems(l)) = Len(l) /\ Cardinality(Elems(r)) = Len(r)
  BY ListFacts
<1>2. Len(l) <= Len(r)
  BY <1>1, AssetsFinite, FS_Subset
<1>3. QED
  BY <1>1, <1>2

LEMMA FoundFollow == SearchInv => SteadyAreFound
<1> SUFFICES ASSUME SearchInv, Given
             PROVE  /\ mode # "semantic" => steady.words \subseteq Elems(results) \/ Len(results) = limit
                    /\ mode # "fulltext" /\ ~missed /\ dropped = {} /\ Cardinality(types) <= 1 =>
                          steady.points \subseteq Elems(results) \/ Len(results) = limit
  BY DEF SteadyAreFound
<1> USE DEF SearchInv, Given
<1>1. mode \in {"fulltext", "semantic", "hybrid"} /\ limit \in Nat
  BY Parameters
<1>2. /\ words \in List /\ similar \in List /\ results \in List /\ Len(results) <= limit
      /\ Len(similar) \in Nat
  BY ListFacts DEF TypeInv, LengthInv
\* What the tasks have found is on the page, or the page is full.
<1>3. /\ mode # "semantic" => Elems(words) \subseteq Elems(results) \/ Len(results) = limit
      /\ mode # "fulltext" => Elems(similar) \subseteq Elems(results) \/ Len(results) = limit
  <2>1. CASE mode = "hybrid"
    BY <1>1, <1>2, <2>1, FusedFacts DEF AnswerInv
  <2>2. CASE mode # "hybrid"
    BY <1>1, <2>2 DEF AnswerInv
  <2>3. QED
    BY <2>1, <2>2
<1>4. ASSUME mode # "semantic" PROVE steady.words \subseteq Elems(results) \/ Len(results) = limit
  <2>1. steady.words \subseteq Elems(words) \/ Len(words) = limit
    BY <1>4 DEF WordsFound, StageInv, AnswerInv, TypeInv
  <2>2. QED
    BY <1>1, <1>2, <1>3, <1>4, <2>1, FullPage
<1>5. ASSUME mode # "fulltext", ~missed, dropped = {}, Cardinality(types) <= 1
      PROVE  steady.points \subseteq Elems(results) \/ Len(results) = limit
  <2>1. sem = "done" /\ hits = << >>
    BY <1>5 DEF AnswerInv, StageInv
  <2>2. steady.points \subseteq Elems(hits) \cup Elems(similar) \/ Len(hits) + Len(similar) = limit
    BY <1>5, <2>1 DEF PointsFound
  <2>3. Elems(hits) = {} /\ Len(hits) + Len(similar) = Len(similar)
    BY <1>2, <2>1, EmptyFacts
  <2>4. steady.points \subseteq Elems(similar) \/ Len(similar) = limit
    BY <2>2, <2>3
  <2>5. QED
    BY <1>1, <1>2, <1>3, <1>5, <2>4, FullPage
<1>6. QED
  BY <1>4, <1>5

\* What has had the words, or the point, all along is on the page unless it is
\* full, whatever others do between the two tasks and between the index's answer
\* and the reading of its rows.
THEOREM SearchFindsSteady == Spec => []SteadyAreFound
BY SearchHolds, FoundFollow, PTL

=============================================================================
