----------------------- MODULE PresentationLinksProofs -----------------------
(***************************************************************************)
(* Proofs about SpeakerNotes, for any decks, and about PresentationLinks,  *)
(* for any number of links, viewers and deletes, any modes, passwords,     *)
(* quota and number of edits.                                              *)
(***************************************************************************)
EXTENDS PresentationLinks, SpeakerNotes,
        FunctionTheorems, FiniteSetTheorems, WellFoundedInduction, TLAPS

-----------------------------------------------------------------------------
(* SpeakerNotes.  The order of the naturals is well-founded, so that what is   *)
(* looked for is found.                                                        *)

LEMMA LeastExists ==
    ASSUME NEW S \in SUBSET Nat, S # {}
    PROVE  LeastOf(S) \in S /\ \A x \in S : LeastOf(S) <= x
<1> DEFINE R == OpToRel(<, Nat)
<1>1. \A a, b \in Nat : <<a, b>> \in R <=> a < b
  BY DEF OpToRel
<1>2. IsWellFoundedOn(R, Nat)
  BY NatLessThanWellFounded
<1> HIDE DEF R
<1>3. PICK x \in S : \A y \in S : ~(<<y, x>> \in R)
  BY <1>2, WFMin
<1>4. \A y \in S : x \in Nat /\ y \in Nat /\ ~(y < x)
  BY <1>1, <1>3
<1>5. \A y \in S : x <= y
  BY <1>4
<1>6. QED
  BY <1>5 DEF LeastOf

LEMMA GreatestExists ==
    ASSUME NEW S \in SUBSET Nat, S # {}, NEW n \in Nat, \A x \in S : x <= n
    PROVE  GreatestOf(S) \in S /\ \A x \in S : x <= GreatestOf(S)
<1> DEFINE U == {u \in Nat : \A x \in S : x <= u}
           m == LeastOf(U)
<1>1. U \in SUBSET Nat /\ n \in U
  OBVIOUS
<1>2. m \in U /\ \A u \in U : m <= u
  BY <1>1, LeastExists
<1> HIDE DEF m
<1>3. m \in S
  <2>1. SUFFICES ASSUME m \notin S PROVE FALSE
    OBVIOUS
  <2>2. m \in Nat /\ \A x \in S : x \in Nat /\ x < m
    BY <1>2, <2>1
  <2>3. \A x \in S : m - 1 \in Nat /\ x <= m - 1
    BY <2>2
  <2>4. m - 1 \in U
    BY <2>3, S # {}
  <2>5. QED
    BY <1>2, <2>2, <2>4
<1>4. QED
  BY <1>2, <1>3 DEF GreatestOf

-----------------------------------------------------------------------------
(* Lines. *)

StartsLine(t, a) == a = 1 \/ t[a - 1] = "newline"
EndsLine(t, b) == b = Len(t) + 1 \/ t[b] = "newline"

LEMMA LineStartFacts ==
    ASSUME NEW t \in Seq(Char), NEW i \in 1 .. Len(t)
    PROVE  /\ LineStart(t, i) \in 1 .. i /\ StartsLine(t, LineStart(t, i))
           /\ \A j \in LineStart(t, i) .. i - 1 : t[j] # "newline"
<1> DEFINE S == {0} \cup {j \in Newlines(t) : j < i}
           g == GreatestOf(S)
<1>1. S \in SUBSET Nat /\ S # {} /\ i \in Nat /\ \A x \in S : x <= i
  BY DEF Newlines
<1>2. g \in S /\ \A x \in S : x <= g
  BY <1>1, GreatestExists
<1>3. LineStart(t, i) = 1 + g
  BY DEF LineStart
<1> HIDE DEF g
<1>4. g \in Nat /\ g < i /\ (g = 0 \/ t[g] = "newline")
  BY <1>2 DEF Newlines
<1>5. \A j \in g + 1 .. i - 1 : t[j] # "newline"
  <2>1. ASSUME NEW j \in g + 1 .. i - 1, t[j] = "newline" PROVE FALSE
    <3>1. j \in 1 .. Len(t) /\ j < i /\ g < j
      BY <1>4, <2>1
    <3>2. j \in S
      BY <2>1, <3>1 DEF Newlines
    <3>3. QED
      BY <1>2, <1>4, <3>1, <3>2
  <2>2. QED
    BY <2>1
<1>6. QED
  BY <1>3, <1>4, <1>5 DEF StartsLine

LEMMA LineStartIs ==
    ASSUME NEW t \in Seq(Char), NEW i \in 1 .. Len(t), NEW s \in 1 .. i, StartsLine(t, s),
           \A j \in s .. i - 1 : t[j] # "newline"
    PROVE  LineStart(t, i) = s
<1> DEFINE g == LineStart(t, i)
<1>1. /\ g \in 1 .. i /\ StartsLine(t, g)
      /\ \A j \in g .. i - 1 : t[j] # "newline"
  BY LineStartFacts
<1> HIDE DEF g
<1>2. ~(g < s)
  BY <1>1 DEF StartsLine
<1>3. ~(s < g)
  BY <1>1 DEF StartsLine
<1>4. QED
  BY <1>1, <1>2, <1>3 DEF g

LEMMA LineEndFacts ==
    ASSUME NEW t \in Seq(Char), NEW i \in 1 .. Len(t)
    PROVE  /\ LineEnd(t, i) \in i .. Len(t) + 1 /\ EndsLine(t, LineEnd(t, i))
           /\ \A j \in i .. LineEnd(t, i) - 1 : t[j] # "newline"
<1> DEFINE S == {Len(t) + 1} \cup {j \in Newlines(t) : i <= j}
           g == LeastOf(S)
<1>1. S \in SUBSET Nat /\ S # {} /\ Len(t) \in Nat
  BY DEF Newlines
<1>2. g \in S /\ \A x \in S : g <= x
  BY <1>1, LeastExists
<1>3. LineEnd(t, i) = g
  BY DEF LineEnd
<1> HIDE DEF g
<1>4. g \in i .. Len(t) + 1 /\ (g = Len(t) + 1 \/ t[g] = "newline")
  BY <1>1, <1>2 DEF Newlines
<1>5. \A j \in i .. g - 1 : t[j] # "newline"
  <2>1. ASSUME NEW j \in i .. g - 1, t[j] = "newline" PROVE FALSE
    <3>1. j \in 1 .. Len(t) /\ i <= j /\ j < g
      BY <1>1, <1>4, <2>1
    <3>2. j \in S
      BY <2>1, <3>1 DEF Newlines
    <3>3. QED
      BY <1>2, <1>4, <3>1, <3>2
  <2>2. QED
    BY <2>1
<1>6. QED
  BY <1>3, <1>4, <1>5 DEF EndsLine

LEMMA LineEndIs ==
    ASSUME NEW t \in Seq(Char), NEW i \in 1 .. Len(t), NEW e \in i .. Len(t) + 1, EndsLine(t, e),
           \A j \in i .. e - 1 : t[j] # "newline"
    PROVE  LineEnd(t, i) = e
<1> DEFINE g == LineEnd(t, i)
<1>1. /\ g \in i .. Len(t) + 1 /\ EndsLine(t, g) /\ Len(t) \in Nat
      /\ \A j \in i .. g - 1 : t[j] # "newline"
  BY LineEndFacts
<1> HIDE DEF g
<1>2. ~(g < e)
  BY <1>1 DEF EndsLine
<1>3. ~(e < g)
  BY <1>1 DEF EndsLine
<1>4. QED
  BY <1>1, <1>2, <1>3 DEF g

\* Two positions with no newline between them, the first of them included, are on one line.
LEMMA OneLine ==
    ASSUME NEW t \in Seq(Char), NEW i \in 1 .. Len(t), NEW k \in i .. Len(t),
           \A j \in i .. k - 1 : t[j] # "newline"
    PROVE  LineStart(t, k) = LineStart(t, i) /\ LineEnd(t, k) = LineEnd(t, i)
<1> DEFINE s == LineStart(t, i)
           e == LineEnd(t, k)
<1>1. /\ s \in 1 .. i /\ StartsLine(t, s) /\ Len(t) \in Nat
      /\ \A j \in s .. i - 1 : t[j] # "newline"
  BY LineStartFacts
<1>2. /\ e \in k .. Len(t) + 1 /\ EndsLine(t, e)
      /\ \A j \in k .. e - 1 : t[j] # "newline"
  BY LineEndFacts
<1> HIDE DEF s, e
<1>3. s \in 1 .. k /\ k \in 1 .. Len(t) /\ \A j \in s .. k - 1 : t[j] # "newline"
  <2>1. \A j \in s .. k - 1 : j \in s .. i - 1 \/ j \in i .. k - 1
    BY <1>1
  <2>2. QED
    BY <1>1, <2>1
<1>4. LineStart(t, k) = s
  BY <1>1, <1>3, LineStartIs
<1>5. e \in i .. Len(t) + 1 /\ \A j \in i .. e - 1 : t[j] # "newline"
  <2>1. \A j \in i .. e - 1 : j \in i .. k - 1 \/ j \in k .. e - 1
    BY <1>2
  <2>2. QED
    BY <1>1, <1>2, <2>1
<1>6. LineEnd(t, i) = e
  BY <1>2, <1>5, LineEndIs
<1>7. QED
  BY <1>4, <1>6 DEF s, e

LEMMA BareFacts ==
    ASSUME NEW t \in Seq(Char), NEW a \in 1 .. Len(t), NEW b \in a .. Len(t) + 1, Bare(t, a, b)
    PROVE  /\ a + 3 <= b
           /\ \A j \in a .. b - 1 : t[j] \in {"?", "blank"}
           /\ \E i \in Marks(t, a) : i < b /\ i + 3 <= b
<1>1. Len(t) \in Nat
  OBVIOUS
<1>2. PICK i \in a .. b : /\ i + 3 <= b
                          /\ \A j \in a .. b - 1 : t[j] = IF j \in i .. i + 2 THEN "?" ELSE "blank"
  BY DEF Bare
<1>3. \A j \in i .. i + 2 : j \in a .. b - 1 /\ t[j] = "?"
  BY <1>2
<1>4. i \in Marks(t, a)
  BY <1>1, <1>2, <1>3 DEF Marks
<1>5. QED
  BY <1>2, <1>4

\* A fence starts a line and is bare up to its end.
LEMMA FencesAre ==
    ASSUME NEW t \in Seq(Char), NEW a
    PROVE  a \in Fences(t) <=> /\ a \in 1 .. Len(t) /\ StartsLine(t, a)
                               /\ Bare(t, a, LineEnd(t, a))
<1>0. Len(t) \in Nat
  OBVIOUS
<1>1. ASSUME a \in Fences(t)
      PROVE  a \in 1 .. Len(t) /\ StartsLine(t, a) /\ Bare(t, a, LineEnd(t, a))
  <2>1. PICK i \in 1 .. Len(t) : a = LineStart(t, i)
    BY <1>1 DEF Fences
  <2>2. a \in 1 .. i /\ StartsLine(t, a)
    BY <2>1, LineStartFacts
  <2>3. QED
    BY <1>0, <1>1, <2>2 DEF Fences
<1>2. ASSUME a \in 1 .. Len(t), StartsLine(t, a), Bare(t, a, LineEnd(t, a))
      PROVE  a \in Fences(t)
  <2>1. LineStart(t, a) = a
    BY <1>2, LineStartIs
  <2>2. QED
    BY <1>2, <2>1 DEF Fences
<1>3. QED
  BY <1>1, <1>2

LEMMA FenceFacts ==
    ASSUME NEW t \in Seq(Char), NEW a \in Fences(t)
    PROVE  /\ a \in 1 .. Len(t) /\ StartsLine(t, a) /\ Bare(t, a, LineEnd(t, a))
           /\ LineEnd(t, a) \in a + 3 .. Len(t) + 1 /\ EndsLine(t, LineEnd(t, a))
           /\ \A j \in a .. LineEnd(t, a) - 1 : t[j] \in {"?", "blank"}
           /\ \E i \in Marks(t, a) : i < LineEnd(t, a) /\ LineStart(t, i) = a
<1> DEFINE e == LineEnd(t, a)
<1>0. Len(t) \in Nat
  OBVIOUS
<1>1. a \in 1 .. Len(t) /\ StartsLine(t, a) /\ Bare(t, a, e)
  BY FencesAre
<1>2. e \in a .. Len(t) + 1 /\ EndsLine(t, e)
  BY <1>1, LineEndFacts
<1> HIDE DEF e
<1>3. /\ a + 3 <= e
      /\ \A j \in a .. e - 1 : t[j] \in {"?", "blank"}
      /\ \E i \in Marks(t, a) : i < e /\ i + 3 <= e
  BY <1>1, <1>2, BareFacts
<1>4. ASSUME NEW i \in Marks(t, a), i < e PROVE LineStart(t, i) = a
  <2>1. i \in a .. Len(t) /\ i \in 1 .. Len(t) /\ a \in 1 .. i
    BY <1>0, <1>1, <1>4 DEF Marks
  <2>2. \A j \in a .. i - 1 : j \in a .. e - 1
    BY <1>0, <1>1, <1>2, <1>4, <2>1
  <2>3. \A j \in a .. i - 1 : t[j] # "newline"
    BY <1>3, <2>2
  <2>4. QED
    BY <1>1, <2>1, <2>3, LineStartIs
<1>5. e \in a + 3 .. Len(t) + 1
  BY <1>0, <1>1, <1>2, <1>3
<1>6. QED
  BY <1>1, <1>2, <1>3, <1>4, <1>5 DEF e

-----------------------------------------------------------------------------
(* The search. *)

\* The fences f are fence lines of t, one before the other.
InOrder(t, f) ==
    /\ f \in Seq((1 .. Len(t)) \X (1 .. Len(t) + 1))
    /\ \A k \in 1 .. Len(f) : f[k][1] \in Fences(t) /\ f[k][2] = LineEnd(t, f[k][1])
    /\ \A k, l \in 1 .. Len(f) : k < l => f[k][2] < f[l][1]

\* Every fence line of t is in f, or still to be met at or after p.
NoneMissed(t, f, p) ==
    \A a \in Fences(t) :
        \/ \E k \in 1 .. Len(f) : f[k][1] = a
        \/ \E i \in Marks(t, p) : LineStart(t, i) = a

FoundInv ==
    /\ text \in Seq(Char) /\ result \in Seq(Char) /\ pos \in 1 .. Len(text) + 1
    /\ stage \in {"scan", "done"}
    /\ InOrder(text, fences) /\ NoneMissed(text, fences, pos)
    /\ \A k \in 1 .. Len(fences) : fences[k][2] <= pos
    /\ stage = "done" => /\ Marks(text, pos) = {}
                         /\ result = Without(text, Notes(text, fences))

LEMMA FoundInit == NotesInit => FoundInv
<1> SUFFICES ASSUME NotesInit PROVE FoundInv
  OBVIOUS
<1>1. text \in Seq(Char) /\ pos = 1 /\ fences = << >> /\ result = << >> /\ stage = "scan"
  BY TextsAssumption DEF NotesInit
<1>2. InOrder(text, fences)
  BY <1>1 DEF InOrder
<1>3. NoneMissed(text, fences, pos)
  <2>1. ASSUME NEW a \in Fences(text) PROVE \E i \in Marks(text, 1) : LineStart(text, i) = a
    <3>1. a \in 1 .. Len(text) /\ \E i \in Marks(text, a) : LineStart(text, i) = a
      BY <1>1, <2>1, FenceFacts
    <3>2. Marks(text, a) \subseteq Marks(text, 1)
      BY <1>1, <3>1 DEF Marks
    <3>3. QED
      BY <3>1, <3>2
  <2>2. QED
    BY <1>1, <2>1 DEF NoneMissed
<1>4. QED
  BY <1>1, <1>2, <1>3 DEF FoundInv

\* What a mark says of its line.
LEMMA MarkFacts ==
    ASSUME NEW t \in Seq(Char), NEW p \in Nat \ {0}, NEW i \in Marks(t, p)
    PROVE  /\ i \in 1 .. Len(t) /\ p <= i /\ i + 3 <= Len(t) + 1
           /\ \A j \in i .. i + 2 : j \in 1 .. Len(t) /\ t[j] = "?"
           /\ LineStart(t, i) \in 1 .. i
           /\ LineEnd(t, i) \in i + 3 .. Len(t) + 1
           /\ LineEnd(t, LineStart(t, i)) = LineEnd(t, i)
<1> DEFINE a == LineStart(t, i)
           b == LineEnd(t, i)
<1>0. Len(t) \in Nat
  OBVIOUS
<1>1. i \in 1 .. Len(t) /\ p <= i /\ i + 3 <= Len(t) + 1 /\ \A j \in i .. i + 2 : t[j] = "?"
  BY <1>0 DEF Marks
<1>2. a \in 1 .. i /\ \A j \in a .. i - 1 : t[j] # "newline"
  BY <1>1, LineStartFacts
<1>3. b \in i .. Len(t) + 1 /\ EndsLine(t, b)
  BY <1>1, LineEndFacts
<1>4. LineEnd(t, a) = b
  <2>1. a \in 1 .. Len(t) /\ i \in a .. Len(t)
    BY <1>0, <1>1, <1>2
  <2>2. QED
    BY <1>2, <2>1, OneLine
<1> HIDE DEF a, b
<1>5. b \in i + 3 .. Len(t) + 1
  <2>1. b \notin i .. i + 2
    BY <1>0, <1>1, <1>3 DEF EndsLine
  <2>2. QED
    BY <1>0, <1>1, <1>3, <2>1
<1>6. \A j \in i .. i + 2 : j \in 1 .. Len(t)
  BY <1>0, <1>1
<1>7. QED
  BY <1>1, <1>2, <1>4, <1>5, <1>6 DEF a, b

\* Two marks, the second on a line that has not ended before the first does, are on one line.
LEMMA SameLine ==
    ASSUME NEW t \in Seq(Char), NEW i \in 1 .. Len(t), NEW k \in i .. Len(t), k < LineEnd(t, i)
    PROVE  LineStart(t, k) = LineStart(t, i)
<1>1. /\ LineEnd(t, i) \in i .. Len(t) + 1
      /\ \A j \in i .. LineEnd(t, i) - 1 : t[j] # "newline"
  BY LineEndFacts
<1>2. \A j \in i .. k - 1 : j \in i .. LineEnd(t, i) - 1
  BY <1>1
<1>3. \A j \in i .. k - 1 : t[j] # "newline"
  BY <1>1, <1>2
<1>4. QED
  BY <1>3, OneLine

LEMMA ScanFinds ==
    ASSUME FoundInv, Scan
    PROVE  FoundInv'
<1> DEFINE i == LeastOf(Marks(text, pos))
           a == LineStart(text, i)
           b == LineEnd(text, i)
<1>0. /\ text \in Seq(Char) /\ Len(text) \in Nat /\ pos \in Nat \ {0} /\ pos \in 1 .. Len(text) + 1
      /\ InOrder(text, fences) /\ NoneMissed(text, fences, pos)
      /\ \A k \in 1 .. Len(fences) : fences[k][2] <= pos
  BY DEF FoundInv
<1>1. i \in Marks(text, pos) /\ \A k \in Marks(text, pos) : i <= k
  <2>1. Marks(text, pos) \in SUBSET Nat /\ Marks(text, pos) # {}
    BY <1>0 DEF Marks, Scan
  <2>2. QED
    BY <2>1, LeastExists
<1>2. /\ stage = "scan" /\ UNCHANGED <<text, result, stage>>
      /\ pos' = GoOn(Bare(text, a, b), i, b)
      /\ fences' = IF Bare(text, a, b) THEN Append(fences, <<a, b>>) ELSE fences
  BY DEF Scan
<1> HIDE DEF i
<1>3. /\ i \in 1 .. Len(text) /\ pos <= i /\ i + 3 <= Len(text) + 1
      /\ \A j \in i .. i + 2 : j \in 1 .. Len(text) /\ text[j] = "?"
      /\ a \in 1 .. i /\ b \in i + 3 .. Len(text) + 1 /\ LineEnd(text, a) = b
  BY <1>0, <1>1, MarkFacts
<1>4. StartsLine(text, a) /\ \A j \in a .. i - 1 : text[j] # "newline"
  BY <1>0, <1>3, LineStartFacts
<1>5. \A k \in Marks(text, pos) : k < b => LineStart(text, k) = a
  <2>1. ASSUME NEW k \in Marks(text, pos), k < b PROVE LineStart(text, k) = a
    <3>1. k \in 1 .. Len(text)
      BY <1>0, <2>1, MarkFacts
    <3>2. k \in i .. Len(text)
      BY <1>0, <1>1, <1>3, <3>1
    <3>3. QED
      BY <1>0, <1>3, <2>1, <3>2, SameLine
  <2>2. QED
    BY <2>1
<1> HIDE DEF a, b
<1>6. pos' \in 1 .. Len(text') + 1 /\ pos <= pos'
  BY <1>0, <1>2, <1>3 DEF GoOn
<1>10. /\ Len(fences) \in Nat
       /\ \A k \in 1 .. Len(fences) : fences[k][1] \in Fences(text) /\ fences[k][2] = LineEnd(text, fences[k][1])
       /\ \A k, l \in 1 .. Len(fences) : k < l => fences[k][2] < fences[l][1]
  BY <1>0 DEF InOrder
<1>7. CASE Bare(text, a, b)
  <2>1. pos' = b /\ fences' = Append(fences, <<a, b>>)
    BY <1>2, <1>7 DEF GoOn
  <2>2. a \in Fences(text)
    <3>1. a \in 1 .. Len(text)
      BY <1>0, <1>3
    <3>2. QED
      BY <1>0, <1>3, <1>4, <1>7, <3>1, FencesAre
  <2>3. \A k \in 1 .. Len(fences) : fences[k][2] < a
    <3>1. ASSUME NEW k \in 1 .. Len(fences) PROVE fences[k][2] < a
      <4>1. fences[k][1] \in Fences(text) /\ fences[k][2] = LineEnd(text, fences[k][1]) /\ fences[k][2] <= pos
        BY <1>0 DEF InOrder
      <4>2. fences[k][2] \in 1 .. Len(text) + 1 /\ EndsLine(text, fences[k][2])
        BY <1>0, <4>1, FenceFacts
      <4>3. fences[k][2] <= i /\ text[fences[k][2]] = "newline"
        BY <1>0, <1>3, <4>1, <4>2 DEF EndsLine
      <4>4. fences[k][2] # i /\ fences[k][2] \notin a .. i - 1
        BY <1>0, <1>3, <1>4, <4>3
      <4>5. QED
        BY <1>0, <1>3, <4>2, <4>3, <4>4
    <3>2. QED
      BY <3>1
  <2>4. /\ fences' \in Seq((1 .. Len(text)) \X (1 .. Len(text) + 1)) /\ Len(fences') = Len(fences) + 1
        /\ \A k \in 1 .. Len(fences) : fences'[k] = fences[k]
        /\ fences'[Len(fences) + 1] = <<a, b>>
    <3>1. fences \in Seq((1 .. Len(text)) \X (1 .. Len(text) + 1))
      BY <1>0 DEF InOrder
    <3>2. <<a, b>> \in (1 .. Len(text)) \X (1 .. Len(text) + 1)
      BY <1>0, <1>3
    <3>3. QED
      BY <2>1, <3>1, <3>2
  <2>5. \A k \in 1 .. Len(fences') : k = Len(fences) + 1 \/ k \in 1 .. Len(fences)
    BY <2>4, <1>0 DEF InOrder
  <2>6. InOrder(text, fences)'
    <3>1. \A k \in 1 .. Len(fences') : fences'[k][1] \in Fences(text) /\ fences'[k][2] = LineEnd(text, fences'[k][1])
      <4>1. ASSUME NEW k \in 1 .. Len(fences')
            PROVE  fences'[k][1] \in Fences(text) /\ fences'[k][2] = LineEnd(text, fences'[k][1])
        <5>1. CASE k \in 1 .. Len(fences)
          BY <1>10, <2>4, <5>1
        <5>2. CASE k = Len(fences) + 1
          BY <1>3, <2>2, <2>4, <5>2
        <5>3. QED
          BY <2>5, <5>1, <5>2
      <4>2. QED
        BY <4>1
    <3>2. ASSUME NEW k \in 1 .. Len(fences'), NEW l \in 1 .. Len(fences'), k < l
          PROVE  fences'[k][2] < fences'[l][1]
      <4>1. k \in 1 .. Len(fences) /\ fences'[k] = fences[k]
        <5>1. l \in 1 .. Len(fences) + 1
          BY <2>4
        <5>2. k # Len(fences) + 1
          BY <1>10, <3>2, <5>1
        <5>3. k \in 1 .. Len(fences)
          BY <2>5, <5>2
        <5>4. QED
          BY <2>4, <5>3
      <4>2. CASE l \in 1 .. Len(fences)
        BY <1>10, <2>4, <3>2, <4>1, <4>2
      <4>3. CASE l = Len(fences) + 1
        BY <2>3, <2>4, <4>1, <4>3
      <4>4. QED
        BY <2>5, <4>2, <4>3
    <3>3. QED
      BY <1>2, <2>4, <3>1, <3>2 DEF InOrder
  <2>7. NoneMissed(text, fences, pos)'
    <3>1. ASSUME NEW c \in Fences(text), \A k \in 1 .. Len(fences') : fences'[k][1] # c
          PROVE  \E k \in Marks(text, b) : LineStart(text, k) = c
      <4>1. c # a /\ \A k \in 1 .. Len(fences) : fences[k][1] # c
        <5>1. Len(fences) + 1 \in 1 .. Len(fences') /\ \A k \in 1 .. Len(fences) : k \in 1 .. Len(fences')
          BY <1>10, <2>4
        <5>2. QED
          BY <2>4, <3>1, <5>1
      <4>2. PICK k \in Marks(text, pos) : LineStart(text, k) = c
        BY <1>0, <4>1 DEF NoneMissed
      <4>3. ~(k < b) /\ k \in 1 .. Len(text)
        BY <1>0, <1>5, <4>1, <4>2, MarkFacts
      <4>4. k \in Marks(text, b)
        BY <1>0, <1>3, <4>3 DEF Marks
      <4>5. QED
        BY <4>2, <4>4
    <3>2. QED
      BY <1>2, <2>1, <3>1 DEF NoneMissed
  <2>8. \A k \in 1 .. Len(fences') : fences'[k][2] <= pos'
    BY <1>0, <1>3, <2>1, <2>3, <2>4, <2>5 DEF InOrder
  <2>9. QED
    BY <1>2, <1>6, <2>6, <2>7, <2>8 DEF FoundInv
<1>8. CASE ~Bare(text, a, b)
  <2>1. pos' = i + 3 /\ fences' = fences
    BY <1>2, <1>8 DEF GoOn
  <2>2. a \notin Fences(text)
    BY <1>0, <1>3, <1>8, FencesAre
  <2>3. NoneMissed(text, fences, pos)'
    <3>1. ASSUME NEW c \in Fences(text), \A k \in 1 .. Len(fences) : fences[k][1] # c
          PROVE  \E k \in Marks(text, i + 3) : LineStart(text, k) = c
      <4>1. PICK k \in Marks(text, pos) : LineStart(text, k) = c
        BY <1>0, <3>1 DEF NoneMissed
      <4>2. ~(k < b) /\ k \in 1 .. Len(text)
        BY <1>0, <1>5, <2>2, <4>1, MarkFacts
      <4>3. k \in Marks(text, i + 3)
        BY <1>0, <1>3, <4>2 DEF Marks
      <4>4. QED
        BY <4>1, <4>3
    <3>2. QED
      BY <1>2, <2>1, <3>1 DEF NoneMissed
  <2>4. InOrder(text, fences)' /\ \A k \in 1 .. Len(fences') : fences'[k][2] <= pos'
    <3>1. \A k \in 1 .. Len(fences) : fences[k][2] \in Nat
      BY <1>0 DEF InOrder
    <3>2. QED
      BY <1>0, <1>2, <1>6, <2>1, <3>1 DEF InOrder
  <2>5. QED
    BY <1>2, <1>6, <2>3, <2>4 DEF FoundInv
<1>9. QED
  BY <1>7, <1>8

-----------------------------------------------------------------------------
(* The fences, counted. *)

Upto(t, x) == {a \in Fences(t) : a <= x}

LEMMA InOrderFacts ==
    ASSUME NEW t \in Seq(Char), NEW f, InOrder(t, f)
    PROVE  /\ Len(f) \in Nat /\ Len(t) \in Nat
           /\ \A k \in 1 .. Len(f) :
                 /\ f[k][1] \in Fences(t) /\ f[k][2] = LineEnd(t, f[k][1])
                 /\ f[k][1] \in 1 .. Len(t) /\ f[k][2] \in 1 .. Len(t) + 1
                 /\ f[k][1] < f[k][2] /\ StartsLine(t, f[k][1]) /\ EndsLine(t, f[k][2])
                 /\ \A j \in f[k][1] .. f[k][2] - 1 : t[j] # "newline"
           /\ \A k, l \in 1 .. Len(f) : k < l => f[k][2] < f[l][1] /\ f[k][1] < f[l][1]
<1>1. Len(f) \in Nat /\ Len(t) \in Nat
  BY DEF InOrder
<1>2. ASSUME NEW k \in 1 .. Len(f)
      PROVE  /\ f[k][1] \in Fences(t) /\ f[k][2] = LineEnd(t, f[k][1])
             /\ f[k][1] \in 1 .. Len(t) /\ f[k][2] \in 1 .. Len(t) + 1
             /\ f[k][1] < f[k][2] /\ StartsLine(t, f[k][1]) /\ EndsLine(t, f[k][2])
             /\ \A j \in f[k][1] .. f[k][2] - 1 : t[j] # "newline"
  <2>1. f[k][1] \in Fences(t) /\ f[k][2] = LineEnd(t, f[k][1])
    BY DEF InOrder
  <2>2. /\ f[k][1] \in 1 .. Len(t) /\ StartsLine(t, f[k][1])
        /\ f[k][2] \in f[k][1] + 3 .. Len(t) + 1 /\ EndsLine(t, f[k][2])
        /\ \A j \in f[k][1] .. f[k][2] - 1 : t[j] \in {"?", "blank"}
    BY <2>1, FenceFacts
  <2>3. QED
    BY <1>1, <2>1, <2>2
<1>3. ASSUME NEW k \in 1 .. Len(f), NEW l \in 1 .. Len(f), k < l
      PROVE  f[k][2] < f[l][1] /\ f[k][1] < f[l][1]
  <2>1. f[k][2] < f[l][1]
    BY <1>3 DEF InOrder
  <2>2. f[k][1] \in Nat /\ f[k][2] \in Nat /\ f[l][1] \in Nat /\ f[k][1] < f[k][2]
    BY <1>1, <1>2
  <2>3. QED
    BY <2>1, <2>2
<1>4. QED
  BY <1>1, <1>2, <1>3

\* How many fences begin up to x is which of them is the last to do so.
LEMMA FencesCounted ==
    ASSUME NEW t \in Seq(Char), NEW f, InOrder(t, f), NoneMissed(t, f, Len(t) + 1), NEW x \in Nat
    PROVE  /\ Cardinality(Upto(t, x)) \in 0 .. Len(f)
           /\ \A k \in 1 .. Len(f) : f[k][1] <= x <=> k <= Cardinality(Upto(t, x))
<1> DEFINE N == Len(f)
           Q == {0} \cup {k \in 1 .. N : f[k][1] <= x}
           q == GreatestOf(Q)
           g == [k \in 1 .. q |-> f[k][1]]
<1>0. /\ N \in Nat
      /\ \A k \in 1 .. N : f[k][1] \in Fences(t) /\ f[k][1] \in Nat
      /\ \A k, l \in 1 .. N : k < l => f[k][1] < f[l][1]
  BY InOrderFacts
<1>1. \A a \in Fences(t) : \E k \in 1 .. N : f[k][1] = a
  <2>1. Marks(t, Len(t) + 1) = {}
    BY DEF Marks
  <2>2. QED
    BY <2>1 DEF NoneMissed
<1> HIDE DEF N
<1>2. q \in Q /\ \A k \in Q : k <= q
  <2>1. Q \in SUBSET Nat /\ Q # {} /\ \A k \in Q : k <= N
    BY <1>0
  <2>2. QED
    BY <1>0, <2>1, GreatestExists
<1> HIDE DEF q
<1>3. q \in 0 .. N
  BY <1>0, <1>2
<1>4. \A k \in 1 .. N : f[k][1] <= x <=> k <= q
  <2>1. ASSUME NEW k \in 1 .. N, f[k][1] <= x PROVE k <= q
    BY <1>2, <2>1
  <2>2. ASSUME NEW k \in 1 .. N, k <= q PROVE f[k][1] <= x
    <3>1. q \in 1 .. N /\ f[q][1] <= x
      BY <1>0, <1>2, <1>3, <2>2
    <3>2. k = q \/ k < q
      BY <1>0, <2>2, <3>1
    <3>3. f[k][1] \in Nat /\ f[q][1] \in Nat /\ f[k][1] <= f[q][1]
      BY <1>0, <3>1, <3>2
    <3>4. QED
      BY <3>1, <3>3
  <2>3. QED
    BY <2>1, <2>2
<1>5. g \in Bijection(1 .. q, Upto(t, x))
  <2>1. \A k \in 1 .. q : k \in 1 .. N /\ k <= q
    BY <1>0, <1>3
  <2>2. g \in [1 .. q -> Upto(t, x)]
    BY <1>0, <1>4, <2>1 DEF Upto
  <2>3. \A k, l \in 1 .. q : g[k] = g[l] => k = l
    <3>1. ASSUME NEW k \in 1 .. q, NEW l \in 1 .. q, g[k] = g[l] PROVE k = l
      <4>1. f[k][1] = f[l][1] /\ f[k][1] \in Nat
        BY <1>0, <2>1, <3>1
      <4>2. ~(k < l) /\ ~(l < k)
        BY <1>0, <2>1, <4>1
      <4>3. QED
        BY <1>3, <4>2
    <3>2. QED
      BY <3>1
  <2>4. \A a \in Upto(t, x) : \E k \in 1 .. q : g[k] = a
    <3>1. ASSUME NEW a \in Upto(t, x) PROVE \E k \in 1 .. q : g[k] = a
      <4>1. PICK k \in 1 .. N : f[k][1] = a
        BY <1>1 DEF Upto
      <4>2. k <= q
        BY <1>4, <4>1 DEF Upto
      <4>3. k \in 1 .. q
        BY <1>0, <1>3, <4>2
      <4>4. QED
        BY <4>1, <4>3
    <3>2. QED
      BY <3>1
  <2> HIDE DEF g
  <2>5. QED
    BY <2>2, <2>3, <2>4, Fun_IsBij
<1>6. Cardinality(Upto(t, x)) = q
  <2>1. ExistsBijection(1 .. q, Upto(t, x))
    BY <1>5 DEF ExistsBijection
  <2>2. IsFiniteSet(1 .. q) /\ Cardinality(1 .. q) = q
    BY <1>0, <1>3, FS_Interval
  <2>3. QED
    BY <2>1, <2>2, FS_Bijection
<1>7. QED
  BY <1>3, <1>4, <1>6 DEF N

LEMMA AllFencesCounted ==
    ASSUME NEW t \in Seq(Char), NEW f, InOrder(t, f), NoneMissed(t, f, Len(t) + 1)
    PROVE  Cardinality(Fences(t)) = Len(f)
<1>0. /\ Len(f) \in Nat /\ Len(t) \in Nat
      /\ \A k \in 1 .. Len(f) : f[k][1] \in 1 .. Len(t)
  BY InOrderFacts
<1>1. Upto(t, Len(t)) = Fences(t)
  <2>1. \A a \in Fences(t) : a \in 1 .. Len(t)
    BY FenceFacts
  <2>2. QED
    BY <1>0, <2>1 DEF Upto
<1>2. /\ Cardinality(Fences(t)) \in 0 .. Len(f)
      /\ \A k \in 1 .. Len(f) : f[k][1] <= Len(t) <=> k <= Cardinality(Fences(t))
  BY <1>0, <1>1, FencesCounted
<1>3. CASE Len(f) = 0
  BY <1>2, <1>3
<1>4. CASE Len(f) # 0
  <2>1. Len(f) \in 1 .. Len(f) /\ f[Len(f)][1] <= Len(t)
    BY <1>0, <1>4
  <2>2. QED
    BY <1>0, <1>2, <2>1
<1>5. QED
  BY <1>3, <1>4

-----------------------------------------------------------------------------
(* Notes, paired by the search and read line by line. *)

\* The notes that f cuts, as the pairs of an odd fence and the next.
LEMMA NotesFacts ==
    ASSUME NEW t \in Seq(Char), NEW f, InOrder(t, f), NEW i
    PROVE  i \in Notes(t, f) <=> \E k \in 1 .. Len(f) : /\ k % 2 = 1 /\ k + 1 \in 1 .. Len(f)
                                                        /\ i \in f[k][1] .. f[k + 1][2]
<1>1. Len(f) \in Nat
  BY InOrderFacts
<1>2. \A k : k \in {j \in 1 .. Len(f) - 1 : j % 2 = 1}
              <=> k \in 1 .. Len(f) /\ k % 2 = 1 /\ k + 1 \in 1 .. Len(f)
  BY <1>1
<1>3. QED
  BY <1>2 DEF Notes

LEMMA Parity ==
    ASSUME NEW k \in Nat
    PROVE  /\ k % 2 \in {0, 1}
           /\ k % 2 = 1 <=> (k + 1) % 2 = 0
           /\ k % 2 = 0 <=> (k + 1) % 2 = 1
OBVIOUS

\* A line start up to i is one up to the start of the line of i.
LEMMA StartsBefore ==
    ASSUME NEW t \in Seq(Char), NEW i \in 1 .. Len(t), NEW s \in Nat \ {0}, StartsLine(t, s)
    PROVE  s <= i <=> s <= LineStart(t, i)
<1> DEFINE a == LineStart(t, i)
<1>1. a \in 1 .. i /\ \A j \in a .. i - 1 : t[j] # "newline"
  BY LineStartFacts
<1> HIDE DEF a
<1>2. ASSUME s <= i, a < s PROVE FALSE
  <2>1. s - 1 \in a .. i - 1 /\ s # 1
    BY <1>1, <1>2
  <2>2. QED
    BY <1>1, <2>1 DEF StartsLine
<1>3. a <= i /\ a \in Nat /\ i \in Nat
  BY <1>1
<1>4. s <= a \/ a < s
  BY <1>3
<1>5. s <= a => s <= i
  BY <1>3
<1>6. QED
  BY <1>2, <1>4, <1>5 DEF a

LEMMA NotesAreInNotes ==
    ASSUME NEW t \in Seq(Char), NEW f, InOrder(t, f), NoneMissed(t, f, Len(t) + 1),
           NEW i \in 1 .. Len(t)
    PROVE  i \in Notes(t, f) <=> InNote(t, i)
<1> DEFINE a == LineStart(t, i)
           q == Cardinality(Upto(t, a))
           N == Len(f)
<1>1. /\ N \in Nat /\ Len(t) \in Nat
      /\ \A k \in 1 .. N :
            /\ f[k][1] \in Fences(t) /\ f[k][2] = LineEnd(t, f[k][1])
            /\ f[k][1] \in 1 .. Len(t) /\ f[k][2] \in 1 .. Len(t) + 1
            /\ f[k][1] < f[k][2] /\ StartsLine(t, f[k][1])
            /\ \A j \in f[k][1] .. f[k][2] - 1 : t[j] # "newline"
      /\ \A k, l \in 1 .. N : k < l => f[k][1] < f[l][1]
  BY InOrderFacts
<1>2. a \in 1 .. i /\ a \in Nat
  BY LineStartFacts
<1>3. q \in 0 .. N /\ \A k \in 1 .. N : f[k][1] <= a <=> k <= q
  BY <1>2, FencesCounted
<1>4. InNote(t, i) <=> \/ q % 2 = 1 /\ q < N
                       \/ q % 2 = 0 /\ a \in Fences(t)
  BY AllFencesCounted DEF InNote, Upto
<1>5. \A k \in 1 .. N : f[k][1] <= i <=> k <= q
  <2>1. \A k \in 1 .. N : f[k][1] <= i <=> f[k][1] <= a
    BY <1>1, StartsBefore
  <2>2. QED
    BY <1>3, <2>1
\* The line of i is that of the fence it does not come after the end of.
<1>6. ASSUME NEW k \in 1 .. N, f[k][1] <= i
      PROVE  a = f[k][1] <=> i <= f[k][2]
  <2>1. /\ f[k][1] \in 1 .. Len(t) /\ i \in f[k][1] .. Len(t) /\ StartsLine(t, f[k][1])
        /\ f[k][1] \in 1 .. f[k][1] /\ f[k][2] = LineEnd(t, f[k][1]) /\ f[k][2] \in Nat
    BY <1>1, <1>6
  <2>2. ASSUME i <= f[k][2] PROVE a = f[k][1]
    <3>1. \A j \in f[k][1] .. i - 1 : t[j] # "newline"
      BY <1>1, <2>1, <2>2
    <3>2. f[k][1] \in 1 .. i
      BY <2>1
    <3>3. QED
      BY <2>1, <3>1, <3>2, LineStartIs
  <2>3. ASSUME a = f[k][1] PROVE i <= f[k][2]
    <3>1. a \in 1 .. Len(t) /\ i \in a .. Len(t) /\ \A j \in a .. i - 1 : t[j] # "newline"
      BY <2>1, <2>3, LineStartFacts
    <3>2. LineEnd(t, i) = LineEnd(t, a) /\ LineEnd(t, i) \in i .. Len(t) + 1
      BY <3>1, OneLine, LineEndFacts
    <3>3. QED
      BY <1>1, <2>1, <2>3, <3>2
  <2>4. QED
    BY <2>2, <2>3
<1>7. \A b \in Fences(t) : \E k \in 1 .. N : f[k][1] = b
  <2>1. Marks(t, Len(t) + 1) = {}
    BY DEF Marks
  <2>2. QED
    BY <2>1 DEF NoneMissed
<1> HIDE DEF a, q, N
<1>8. ASSUME q % 2 = 1, q < N PROVE i \in Notes(t, f)
  <2>1. q \in 1 .. N /\ q + 1 \in 1 .. N
    <3>1. q # 0
      BY <1>8
    <3>2. QED
      BY <1>1, <1>3, <1>8, <3>1
  <2>2. f[q][1] <= i /\ ~(f[q + 1][1] <= i)
    BY <1>3, <1>5, <2>1
  <2>3. i \in f[q][1] .. f[q + 1][2]
    BY <1>1, <2>1, <2>2
  <2>4. QED
    BY <1>8, <2>1, <2>3, NotesFacts DEF N
<1>9. ASSUME q % 2 = 0, a \in Fences(t) PROVE i \in Notes(t, f)
  <2>1. PICK k \in 1 .. N : f[k][1] = a
    BY <1>7, <1>9
  <2>2. k <= q
    BY <1>2, <1>3, <2>1
  <2>3. k = q /\ q \in 1 .. N
    <3>1. k \in Nat /\ q \in Nat /\ q \in 1 .. N
      BY <1>1, <1>3, <2>1, <2>2
    <3>2. ASSUME k < q PROVE FALSE
      <4>1. f[q][1] <= a /\ a < f[q][1]
        BY <1>1, <1>3, <2>1, <3>1, <3>2
      <4>2. f[q][1] \in Nat
        BY <1>1, <3>1
      <4>3. QED
        BY <1>2, <4>1, <4>2
    <3>3. QED
      BY <2>2, <3>1, <3>2
  <2>4. q - 1 \in 1 .. N /\ (q - 1) % 2 = 1 /\ (q - 1) + 1 = q
    <3>1. q - 1 \in Nat /\ (q - 1) + 1 = q
      BY <1>1, <2>3
    <3>2. (q - 1) % 2 = 1
      BY <1>9, <3>1, Parity
    <3>3. q - 1 # 0
      BY <3>2
    <3>4. QED
      BY <1>1, <2>3, <3>1, <3>2, <3>3
  <2>5. f[q - 1][1] < f[q][1] /\ f[q][1] <= i /\ i <= f[q][2]
    <3>1. q - 1 < q
      BY <1>1, <2>3
    <3>2. f[q][1] <= i
      BY <1>2, <2>1, <2>3
    <3>3. QED
      BY <1>1, <1>6, <2>1, <2>3, <2>4, <3>1, <3>2
  <2>6. i \in f[q - 1][1] .. f[(q - 1) + 1][2]
    BY <1>1, <2>3, <2>4, <2>5
  <2>7. QED
    BY <2>3, <2>4, <2>6, NotesFacts DEF N
<1>10. ASSUME i \in Notes(t, f) PROVE InNote(t, i)
  <2>1. PICK k \in 1 .. N : k % 2 = 1 /\ k + 1 \in 1 .. N /\ i \in f[k][1] .. f[k + 1][2]
    BY <1>10, NotesFacts DEF N
  <2>2. f[k][1] <= i /\ i <= f[k + 1][2] /\ k <= q
    BY <1>1, <1>5, <2>1
  <2>3. CASE f[k + 1][1] <= i
    <3>1. a = f[k + 1][1]
      BY <1>6, <2>1, <2>2, <2>3
    <3>2. k + 1 <= q /\ a \in Fences(t)
      BY <1>1, <1>5, <2>1, <2>3, <3>1
    <3>3. ~(k + 1 < q)
      <4>1. SUFFICES ASSUME k + 1 < q PROVE FALSE
        OBVIOUS
      <4>2. q \in 1 .. N /\ f[q][1] <= a /\ f[k + 1][1] < f[q][1] /\ f[q][1] \in Nat
        BY <1>1, <1>3, <2>1, <4>1
      <4>3. QED
        BY <1>2, <3>1, <4>2
    <3>4. q = k + 1
      BY <1>3, <2>1, <3>2, <3>3
    <3>5. q % 2 = 0
      BY <2>1, <3>4, Parity
    <3>6. QED
      BY <1>4, <3>2, <3>5
  <2>4. CASE ~(f[k + 1][1] <= i)
    <3>1. ~(k + 1 <= q)
      BY <1>5, <2>1, <2>4
    <3>2. q = k /\ q < N
      BY <1>1, <1>3, <2>1, <2>2, <3>1
    <3>3. QED
      BY <1>4, <2>1, <3>2
  <2>5. QED
    BY <2>3, <2>4
<1>11. QED
  BY <1>4, <1>8, <1>9, <1>10

-----------------------------------------------------------------------------
(* What is kept, in its order. *)

\* Each element of a finite set is the one with as many of them up to it.
LEMMA NthFacts ==
    ASSUME NEW n \in Nat, NEW K \in SUBSET (1 .. n)
    PROVE  /\ Cardinality(K) \in Nat
           /\ \A j \in 1 .. Cardinality(K) : Nth(K, j) \in K
           /\ \A i, j \in 1 .. Cardinality(K) : i < j => Nth(K, i) < Nth(K, j)
           /\ \A x \in K : \E j \in 1 .. Cardinality(K) : Nth(K, j) = x
<1> DEFINE N == Cardinality(K)
           Low(x) == {y \in K : y <= x}
           rank == [x \in K |-> Cardinality(Low(x))]
<1>1. IsFiniteSet(K) /\ N \in Nat
  <2>1. IsFiniteSet(1 .. n)
    BY FS_Interval
  <2>2. QED
    BY <2>1, FS_Subset, FS_CardinalityType
<1>2. ASSUME NEW x \in K
      PROVE  IsFiniteSet(Low(x)) /\ Cardinality(Low(x)) \in Nat /\ Cardinality(Low(x)) <= N
  <2>1. Low(x) \in SUBSET K
    OBVIOUS
  <2>2. IsFiniteSet(Low(x)) /\ Cardinality(Low(x)) <= N
    BY <1>1, <2>1, FS_Subset
  <2>3. QED
    BY <2>2, FS_CardinalityType
<1>3. ASSUME NEW x \in K, NEW y \in K, x < y
      PROVE  rank[x] < rank[y]
  <2>1. Low(x) \in SUBSET Low(y) /\ y \in Low(y) /\ y \notin Low(x)
    <3>1. \A z \in K : z \in Nat
      OBVIOUS
    <3>2. \A z \in K : z <= x => z <= y
      BY <1>3, <3>1
    <3>3. y <= y /\ ~(y <= x)
      BY <1>3, <3>1
    <3>4. QED
      BY <3>2, <3>3
  <2>2. Cardinality(Low(x)) <= Cardinality(Low(y)) /\ Cardinality(Low(x)) # Cardinality(Low(y))
    BY <1>2, <2>1, FS_Subset
  <2>3. Cardinality(Low(x)) \in Nat /\ Cardinality(Low(y)) \in Nat
    BY <1>2
  <2>4. QED
    BY <2>2, <2>3
<1>4. rank \in [K -> 1 .. N]
  <2>1. ASSUME NEW x \in K PROVE Cardinality(Low(x)) \in 1 .. N
    <3>1. Low(x) # {}
      OBVIOUS
    <3>2. Cardinality(Low(x)) # 0
      BY <1>2, <3>1, FS_EmptySet
    <3>3. Cardinality(Low(x)) \in Nat /\ Cardinality(Low(x)) <= N
      BY <1>2
    <3>4. QED
      BY <1>1, <3>2, <3>3
  <2>2. QED
    BY <2>1
<1>5. \A x, y \in K : rank[x] = rank[y] => x = y
  <2>1. SUFFICES ASSUME NEW x \in K, NEW y \in K, rank[x] = rank[y], x # y PROVE FALSE
    OBVIOUS
  <2>2. rank[x] \in 1 .. N /\ rank[y] \in 1 .. N
    BY <1>4
  <2>3. x < y \/ y < x
    BY <2>1
  <2>4. rank[x] < rank[y] \/ rank[y] < rank[x]
    BY <1>3, <2>3
  <2>5. QED
    BY <1>1, <2>1, <2>2, <2>4
<1>6. \A x \in K : \A j : rank[x] = j <=> Cardinality({y \in K : y <= x}) = j
  OBVIOUS
<1> HIDE DEF rank, N
<1>7. \A j \in 1 .. N : \E x \in K : rank[x] = j
  <2>1. rank \in Injection(K, 1 .. N)
    BY <1>4, <1>5, Fun_IsInj
  <2>2. IsFiniteSet(1 .. N) /\ Cardinality(1 .. N) = N
    BY <1>1, FS_Interval
  <2>3. rank \in Surjection(K, 1 .. N)
    BY <2>1, <2>2, FS_Injection DEF N
  <2>4. QED
    BY <2>3, Fun_SurjectionProperties
<1>8. \A j \in 1 .. N : Nth(K, j) \in K /\ rank[Nth(K, j)] = j
  BY <1>6, <1>7 DEF Nth
<1>9. ASSUME NEW i \in 1 .. N, NEW j \in 1 .. N, i < j PROVE Nth(K, i) < Nth(K, j)
  <2>1. Nth(K, i) \in K /\ Nth(K, j) \in K /\ rank[Nth(K, i)] = i /\ rank[Nth(K, j)] = j
    BY <1>8
  <2>2. Nth(K, i) # Nth(K, j) /\ ~(j < i)
    BY <1>1, <1>9, <2>1
  <2>3. ~(Nth(K, j) < Nth(K, i))
    BY <1>3, <2>1, <2>2
  <2>4. Nth(K, i) \in Nat /\ Nth(K, j) \in Nat
    <3>1. \A z \in K : z \in Nat
      OBVIOUS
    <3>2. QED
      BY <2>1, <3>1
  <2>5. QED
    BY <2>2, <2>3, <2>4
<1>10. ASSUME NEW x \in K PROVE \E j \in 1 .. N : Nth(K, j) = x
  <2>1. rank[x] \in 1 .. N
    BY <1>4
  <2>2. Nth(K, rank[x]) = x
    BY <1>5, <1>8, <2>1
  <2>3. QED
    BY <2>1, <2>2
<1>11. QED
  BY <1>1, <1>8, <1>9, <1>10 DEF N

\* Whether anything else is asked of S outside t does not matter.
LEMMA WithoutSame ==
    ASSUME NEW t, NEW S, NEW U, \A i \in 1 .. Len(t) : i \in S <=> i \in U
    PROVE  Without(t, S) = Without(t, U)
<1>1. (1 .. Len(t)) \ S = (1 .. Len(t)) \ U
  OBVIOUS
<1>2. QED
  BY <1>1 DEF Without

-----------------------------------------------------------------------------
(* Cutting whole lines leaves the others as they were. *)

\* S begins and ends where lines do.
WholeLines(t, S) ==
    \A i \in 1 .. Len(t) - 1 : (i \in S) # (i + 1 \in S) => t[i] = "newline"

LEMMA CutKeepsLines ==
    ASSUME NEW t \in Seq(Char), NEW S, WholeLines(t, S)
    PROVE  /\ Without(t, S) \in Seq(Char)
           /\ \A a, b \in Fences(Without(t, S)) :
                 a # b => \E c, d \in Fences(t) \ S : c # d
<1> DEFINE n == Len(t)
           K == (1 .. n) \ S
           m == Cardinality(K)
           p == [j \in 1 .. m |-> Nth(K, j)]
           r == Without(t, S)
<1>0. n \in Nat /\ \A i \in 1 .. n : t[i] \in Char
  OBVIOUS
<1>1. /\ m \in Nat
      /\ \A j \in 1 .. m : p[j] \in K
      /\ \A i, j \in 1 .. m : i < j => p[i] < p[j]
      /\ \A x \in K : \E j \in 1 .. m : p[j] = x
  <2>1. K \in SUBSET (1 .. n)
    OBVIOUS
  <2>2. QED
    BY <1>0, <2>1, NthFacts
<1>2. r = [j \in 1 .. m |-> t[p[j]]]
  BY DEF Without
<1> HIDE DEF K, m, p, r
<1>3. \A j \in 1 .. m : p[j] \in 1 .. n /\ p[j] \notin S
  BY <1>1 DEF K
<1>4. r \in Seq(Char) /\ Len(r) = m /\ \A j \in 1 .. m : r[j] = t[p[j]]
  <2>1. r \in [1 .. m -> Char]
    BY <1>0, <1>2, <1>3
  <2>2. QED
    BY <1>1, <1>2, <2>1
\* Between one kept position and the next there is none.
<1>5. ASSUME NEW j \in 1 .. m, j + 1 \in 1 .. m, NEW x \in p[j] + 1 .. p[j + 1] - 1
      PROVE  x \in 1 .. n /\ x \in S
  <2>1. x \in 1 .. n
    BY <1>0, <1>3, <1>5
  <2>2. ASSUME x \notin S PROVE FALSE
    <3>1. PICK l \in 1 .. m : p[l] = x
      BY <1>1, <2>1, <2>2 DEF K
    <3>2. ~(p[l] <= p[j]) /\ ~(p[j + 1] <= p[l]) /\ p[l] \in Nat /\ p[j] \in Nat /\ p[j + 1] \in Nat
      BY <1>3, <1>5, <3>1
    <3>3. ~(l = j) /\ ~(l = j + 1) /\ ~(l < j) /\ ~(j + 1 < l)
      BY <1>1, <1>5, <3>2
    <3>4. QED
      BY <1>1, <1>5, <3>3
  <2>3. QED
    BY <2>1, <2>2
\* What is cut before a kept position ends with a newline, and what is cut after one begins after one.
<1>6. ASSUME NEW i \in 1 .. n, i + 1 \in 1 .. n, (i \in S) # (i + 1 \in S)
      PROVE  t[i] = "newline"
  <2>1. i \in 1 .. Len(t) - 1
    BY <1>0, <1>6
  <2>2. QED
    BY <1>6, <2>1 DEF WholeLines
<1>7. ASSUME NEW j \in 1 .. m, r[j] # "newline"
      PROVE  /\ j + 1 \in 1 .. m => p[j + 1] = p[j] + 1
             /\ p[j] + 1 \in 1 .. n => j + 1 \in 1 .. m
  <2>1. t[p[j]] # "newline" /\ p[j] \in 1 .. n /\ p[j] \notin S
    BY <1>3, <1>4, <1>7
  <2>2. p[j] + 1 \in 1 .. n => p[j] + 1 \notin S
    BY <1>6, <2>1
  <2>3. ASSUME j + 1 \in 1 .. m PROVE p[j + 1] = p[j] + 1
    <3>1. p[j] < p[j + 1] /\ p[j + 1] \in 1 .. n
      BY <1>1, <1>3, <2>3
    <3>2. p[j] + 1 \in 1 .. n
      BY <1>0, <2>1, <3>1
    <3>3. p[j] + 1 \notin p[j] + 1 .. p[j + 1] - 1
      BY <1>5, <2>2, <2>3, <3>2
    <3>4. QED
      BY <2>1, <3>1, <3>3
  <2>4. ASSUME p[j] + 1 \in 1 .. n PROVE j + 1 \in 1 .. m
    <3>1. PICK l \in 1 .. m : p[l] = p[j] + 1
      BY <1>1, <2>2, <2>4 DEF K
    <3>2. ~(l = j) /\ ~(l < j)
      <4>1. p[j] < p[l]
        BY <2>1, <3>1
      <4>2. QED
        BY <1>1, <2>1, <3>1, <4>1
    <3>3. QED
      BY <1>1, <3>2
  <2>5. QED
    BY <2>3, <2>4
<1>8. ASSUME NEW a \in 1 .. m, StartsLine(r, a)
      PROVE  StartsLine(t, p[a])
  <2>0. p[a] \in 1 .. n /\ p[a] \notin S
    BY <1>3
  <2>1. SUFFICES ASSUME p[a] # 1 PROVE t[p[a] - 1] = "newline"
    BY DEF StartsLine
  <2>2. p[a] - 1 \in 1 .. n /\ (p[a] - 1) + 1 = p[a]
    BY <1>0, <2>0, <2>1
  <2>3. CASE p[a] - 1 \in S
    BY <1>6, <2>0, <2>2, <2>3
  <2>4. CASE p[a] - 1 \notin S
    <3>1. PICK l \in 1 .. m : p[l] = p[a] - 1
      BY <1>1, <2>2, <2>4 DEF K
    <3>2. ~(l = a) /\ ~(a < l)
      <4>1. p[l] < p[a] /\ p[l] \in Nat /\ p[a] \in Nat
        BY <2>0, <2>2, <3>1
      <4>2. QED
        BY <1>1, <4>1
    <3>3. l \in 1 .. a - 1
      BY <1>1, <3>2
    <3>4. l = a - 1
      <4>1. SUFFICES ASSUME l # a - 1 PROVE FALSE
        OBVIOUS
      <4>2. a - 1 \in 1 .. m /\ l < a - 1 /\ a - 1 < a
        BY <1>1, <3>3, <4>1
      <4>3. p[l] < p[a - 1] /\ p[a - 1] < p[a] /\ p[l] \in Nat /\ p[a - 1] \in Nat /\ p[a] \in Nat
        BY <1>1, <1>3, <4>2
      <4>4. QED
        BY <3>1, <4>3
    <3>5. a # 1 /\ r[a - 1] = "newline"
      <4>1. a # 1
        BY <3>3
      <4>2. QED
        BY <1>8, <4>1 DEF StartsLine
    <3>6. QED
      BY <1>4, <3>1, <3>4, <3>5
  <2>5. QED
    BY <2>3, <2>4
\* A line that is kept is kept in one piece.
<1>9. ASSUME NEW a \in 1 .. m, NEW b \in a .. m, \A j \in a .. b - 1 : r[j] # "newline"
      PROVE  \A j \in a .. b : p[j] = p[a] + (j - a)
  <2> DEFINE B == {j \in a .. b : p[j] # p[a] + (j - a)}
             z == LeastOf(B)
  <2>1. SUFFICES ASSUME B # {} PROVE FALSE
    OBVIOUS
  <2>2. z \in B /\ \A x \in B : z <= x
    <3>1. B \in SUBSET Nat
      OBVIOUS
    <3>2. QED
      BY <2>1, <3>1, LeastExists
  <2> HIDE DEF z
  <2>3. z \in a .. b /\ p[z] # p[a] + (z - a)
    BY <2>2
  <2>4. z # a
    BY <1>3, <2>3
  <2>5. z - 1 \in a .. b - 1 /\ z - 1 \in a .. b /\ z - 1 \in 1 .. m /\ (z - 1) + 1 = z /\ z \in 1 .. m
    BY <1>1, <2>3, <2>4
  <2>6. z - 1 \notin B
    BY <2>2, <2>3
  <2>7. p[z - 1] = p[a] + ((z - 1) - a)
    BY <2>5, <2>6
  <2>8. r[z - 1] # "newline"
    BY <1>9, <2>5
  <2>9. p[z] = p[z - 1] + 1
    BY <1>7, <2>5, <2>8
  <2>10. p[a] \in Nat
    BY <1>3
  <2>11. QED
    BY <2>3, <2>7, <2>9, <2>10
<1>10. ASSUME NEW a \in Fences(r)
       PROVE  a \in 1 .. m /\ p[a] \in Fences(t) \ S
  <2> DEFINE b == LineEnd(r, a)
             c == p[a]
             d == c + (b - a)
  <2>1. /\ a \in 1 .. m /\ StartsLine(r, a) /\ Bare(r, a, b)
        /\ b \in a + 3 .. m + 1 /\ EndsLine(r, b)
        /\ \A j \in a .. b - 1 : r[j] \in {"?", "blank"}
    BY <1>4, FenceFacts
  <2> HIDE DEF b
  <2>2. c \in 1 .. n /\ c \notin S /\ StartsLine(t, c)
    BY <1>3, <1>8, <2>1
  <2>3. \A j \in a .. b - 1 : p[j] = c + (j - a) /\ j \in 1 .. m /\ r[j] = t[p[j]]
    <3>1. b - 1 \in a .. m
      BY <1>1, <2>1
    <3>2. \A j \in a .. (b - 1) - 1 : j \in a .. b - 1
      BY <1>1, <2>1
    <3>3. \A j \in a .. (b - 1) - 1 : r[j] # "newline"
      BY <2>1, <3>2
    <3>4. \A j \in a .. b - 1 : p[j] = c + (j - a)
      BY <1>9, <2>1, <3>1, <3>3
    <3>5. \A j \in a .. b - 1 : j \in 1 .. m
      BY <1>1, <2>1
    <3>6. QED
      BY <1>4, <3>4, <3>5
  <2>4. b - 1 \in a .. b - 1 /\ p[b - 1] = d - 1 /\ r[b - 1] # "newline" /\ b - 1 \in 1 .. m
    <3>1. b - 1 \in a .. b - 1
      BY <2>1
    <3>2. p[b - 1] = c + ((b - 1) - a)
      BY <2>3, <3>1
    <3>3. QED
      <4>1. c + ((b - 1) - a) = d - 1
        BY <2>1, <2>2
      <4>2. QED
        BY <2>1, <2>3, <3>1, <3>2, <4>1
  <2>5. d \in c + 3 .. n + 1
    BY <1>0, <1>3, <2>1, <2>2, <2>4
  <2>6. EndsLine(t, d)
    <3>1. SUFFICES ASSUME d # n + 1 PROVE t[d] = "newline"
      BY DEF EndsLine
    <3>2. p[b - 1] + 1 = d /\ d \in 1 .. n /\ (b - 1) + 1 = b
      BY <1>0, <2>1, <2>2, <2>4, <2>5, <3>1
    <3>3. b \in 1 .. m /\ p[b] = d
      BY <1>7, <2>4, <3>2
    <3>4. r[b] = "newline"
      BY <1>1, <1>4, <2>1, <3>3 DEF EndsLine
    <3>5. QED
      BY <1>4, <3>3, <3>4
  <2> DEFINE back(x) == a + (x - c)
  <2>7. \A x \in c .. d - 1 : back(x) \in a .. b - 1 /\ t[x] = r[back(x)]
    <3>1. ASSUME NEW x \in c .. d - 1
          PROVE  back(x) \in a .. b - 1 /\ t[x] = r[back(x)]
      <4>1. back(x) \in a .. b - 1 /\ c + (back(x) - a) = x
        BY <2>1, <2>2, <2>5
      <4>2. QED
        BY <2>3, <4>1
    <3>2. QED
      BY <3>1
  <2>8. LineEnd(t, c) = d
    <3>1. \A x \in c .. d - 1 : t[x] # "newline"
      BY <2>1, <2>7
    <3>2. d \in c .. Len(t) + 1
      BY <2>2, <2>5
    <3>3. QED
      BY <2>2, <2>6, <3>1, <3>2, LineEndIs
  <2>9. Bare(t, c, d)
    <3>1. PICK i \in a .. b : /\ i + 3 <= b
                              /\ \A j \in a .. b - 1 : r[j] = IF j \in i .. i + 2 THEN "?" ELSE "blank"
      BY <2>1 DEF Bare
    <3>2. c + (i - a) \in c .. d /\ c + (i - a) + 3 <= d
      BY <2>1, <2>2, <2>5, <3>1
    <3>3. ASSUME NEW x \in c .. d - 1
          PROVE  t[x] = IF x \in c + (i - a) .. c + (i - a) + 2 THEN "?" ELSE "blank"
      <4>1. back(x) \in a .. b - 1 /\ t[x] = r[back(x)]
        BY <2>7
      <4>2. x \in c + (i - a) .. c + (i - a) + 2 <=> back(x) \in i .. i + 2
        <5>1. x \in Int /\ a \in Int /\ i \in Int /\ c \in Int
          BY <2>1, <2>2, <2>5
        <5> HIDE DEF c
        <5>2. QED
          BY <5>1
      <4>3. QED
        BY <3>1, <4>1, <4>2
    <3>4. QED
      BY <3>2, <3>3 DEF Bare
  <2>10. QED
    BY <2>1, <2>2, <2>8, <2>9, FencesAre
<1>11. ASSUME NEW a \in Fences(r), NEW b \in Fences(r), a # b
       PROVE  \E c, d \in Fences(t) \ S : c # d
  <2>1. a \in 1 .. m /\ b \in 1 .. m /\ p[a] \in Fences(t) \ S /\ p[b] \in Fences(t) \ S
    BY <1>10
  <2>2. a < b \/ b < a
    BY <1>1, <1>11, <2>1
  <2>3. p[a] # p[b]
    BY <1>1, <1>3, <2>1, <2>2
  <2>4. QED
    BY <2>1, <2>3
<1>12. QED
  BY <1>4, <1>11 DEF r

-----------------------------------------------------------------------------
(* The result. *)

\* Notes are whole lines, and no two fences are outside them.
LEMMA NotesAreWholeLines ==
    ASSUME NEW t \in Seq(Char), NEW f, InOrder(t, f)
    PROVE  WholeLines(t, Notes(t, f))
<1>0. /\ Len(f) \in Nat /\ Len(t) \in Nat
      /\ \A k \in 1 .. Len(f) :
            /\ f[k][1] \in 1 .. Len(t) /\ f[k][2] \in 1 .. Len(t) + 1
            /\ StartsLine(t, f[k][1]) /\ EndsLine(t, f[k][2])
  BY InOrderFacts
<1>1. ASSUME NEW i \in 1 .. Len(t) - 1, i \notin Notes(t, f), i + 1 \in Notes(t, f)
      PROVE  t[i] = "newline"
  <2>1. PICK k \in 1 .. Len(f) : /\ k % 2 = 1 /\ k + 1 \in 1 .. Len(f)
                                 /\ i + 1 \in f[k][1] .. f[k + 1][2]
    BY <1>1, NotesFacts
  <2>2. i \notin f[k][1] .. f[k + 1][2]
    BY <1>1, <2>1, NotesFacts
  <2>3. f[k][1] = i + 1 /\ i + 1 # 1 /\ (i + 1) - 1 = i
    BY <1>0, <2>1, <2>2
  <2>4. QED
    BY <1>0, <2>1, <2>3 DEF StartsLine
<1>2. ASSUME NEW i \in 1 .. Len(t) - 1, i \in Notes(t, f), i + 1 \notin Notes(t, f)
      PROVE  t[i] = "newline"
  <2>1. PICK k \in 1 .. Len(f) : /\ k % 2 = 1 /\ k + 1 \in 1 .. Len(f)
                                 /\ i \in f[k][1] .. f[k + 1][2]
    BY <1>2, NotesFacts
  <2>2. i + 1 \notin f[k][1] .. f[k + 1][2]
    BY <1>2, <2>1, NotesFacts
  <2>3. f[k + 1][2] = i /\ i # Len(t) + 1
    BY <1>0, <2>1, <2>2
  <2>4. QED
    BY <1>0, <2>1, <2>3 DEF EndsLine
<1>3. QED
  BY <1>1, <1>2 DEF WholeLines

LEMMA OneFenceIsLeft ==
    ASSUME NEW t \in Seq(Char), NEW f, InOrder(t, f), NoneMissed(t, f, Len(t) + 1),
           NEW a \in Fences(t) \ Notes(t, f), NEW b \in Fences(t) \ Notes(t, f)
    PROVE  a = b
<1>0. /\ Len(f) \in Nat
      /\ \A k \in 1 .. Len(f) : f[k][1] \in Nat /\ f[k][2] \in Nat /\ f[k][1] < f[k][2]
      /\ \A k, l \in 1 .. Len(f) : k < l => f[k][1] < f[l][1]
  BY InOrderFacts
<1>1. ASSUME NEW c \in Fences(t) \ Notes(t, f) PROVE c = f[Len(f)][1]
  <2>1. PICK k \in 1 .. Len(f) : f[k][1] = c
    <3>1. Marks(t, Len(t) + 1) = {}
      BY DEF Marks
    <3>2. QED
      BY <3>1 DEF NoneMissed
  <2>2. SUFFICES ASSUME k # Len(f) PROVE FALSE
    BY <2>1
  <2>3. k + 1 \in 1 .. Len(f) /\ k < k + 1 /\ k \in Nat
    BY <1>0, <2>2
  <2>4. CASE k % 2 = 1
    <3>1. c \in f[k][1] .. f[k + 1][2]
      BY <1>0, <2>1, <2>3
    <3>2. QED
      BY <1>1, <2>3, <2>4, <3>1, NotesFacts
  <2>5. CASE k % 2 = 0
    <3>1. k # 1
      BY <2>5
    <3>2. k - 1 \in 1 .. Len(f) /\ k - 1 < k /\ (k - 1) + 1 = k /\ k - 1 \in Nat
      BY <1>0, <3>1
    <3>3. (k - 1) % 2 = 1
      BY <2>5, <3>2, Parity
    <3>4. c \in f[k - 1][1] .. f[(k - 1) + 1][2]
      BY <1>0, <2>1, <3>2
    <3>5. QED
      BY <1>1, <3>2, <3>3, <3>4, NotesFacts
  <2>6. QED
    BY <2>3, <2>4, <2>5, Parity
<1>2. QED
  BY <1>1

LEMMA ReturnStrips ==
    ASSUME FoundInv, Return
    PROVE  FoundInv'
<1>1. /\ text \in Seq(Char) /\ InOrder(text, fences) /\ Marks(text, pos) = {}
      /\ UNCHANGED <<text, pos, fences>> /\ stage' = "done"
      /\ result' = Without(text, Notes(text, fences))
  BY DEF FoundInv, Return
<1>2. result' \in Seq(Char)
  BY <1>1, NotesAreWholeLines, CutKeepsLines
<1>3. QED
  BY <1>1, <1>2 DEF FoundInv, InOrder, NoneMissed

LEMMA FoundNext == FoundInv /\ [NotesNext]_notesVars => FoundInv'
<1> SUFFICES ASSUME FoundInv, [NotesNext]_notesVars PROVE FoundInv'
  OBVIOUS
<1>1. CASE Scan
  BY <1>1, ScanFinds
<1>2. CASE Return
  BY <1>2, ReturnStrips
<1>3. CASE UNCHANGED notesVars
  BY <1>3 DEF notesVars, FoundInv, InOrder, NoneMissed
<1>4. QED
  BY <1>1, <1>2, <1>3 DEF NotesNext

LEMMA FoundIsStripped == FoundInv => NotesAreStripped
<1> SUFFICES ASSUME FoundInv, stage = "done"
             PROVE  /\ result = Without(text, {i \in 1 .. Len(text) : InNote(text, i)})
                    /\ Cardinality(Fences(result)) <= 1
  BY DEF NotesAreStripped
<1> DEFINE S == Notes(text, fences)
<1>1. /\ text \in Seq(Char) /\ InOrder(text, fences) /\ NoneMissed(text, fences, Len(text) + 1)
      /\ result = Without(text, S)
  BY DEF FoundInv, NoneMissed
<1>2. \A i \in 1 .. Len(text) : i \in S <=> InNote(text, i)
  BY <1>1, NotesAreInNotes
<1>3. result = Without(text, {i \in 1 .. Len(text) : InNote(text, i)})
  <2> DEFINE U == {i \in 1 .. Len(text) : InNote(text, i)}
  <2>1. \A i \in 1 .. Len(text) : i \in S <=> i \in U
    BY <1>2
  <2> HIDE DEF S, U
  <2>2. Without(text, S) = Without(text, U)
    BY <2>1, WithoutSame
  <2>3. QED
    BY <1>1, <2>2 DEF U
<1>4. \A a, b \in Fences(result) : a = b
  <2>1. WholeLines(text, S)
    BY <1>1, NotesAreWholeLines
  <2>2. \A c, d \in Fences(text) \ S : c = d
    BY <1>1, OneFenceIsLeft
  <2>3. \A a, b \in Fences(result) : a # b => \E c, d \in Fences(text) \ S : c # d
    BY <1>1, <2>1, CutKeepsLines
  <2>4. QED
    BY <2>2, <2>3
<1>5. Cardinality(Fences(result)) <= 1
  <2>1. CASE Fences(result) = {}
    BY <2>1, FS_EmptySet
  <2>2. CASE Fences(result) # {}
    <3>1. PICK a \in Fences(result) : TRUE
      BY <2>2
    <3>2. Fences(result) = {a}
      BY <1>4, <3>1
    <3>3. QED
      BY <3>2, FS_Singleton
  <2>3. QED
    BY <2>1, <2>2
<1>6. QED
  BY <1>3, <1>5

\* strip_speaker_notes: the search that jumps from mark to mark strips of any deck
\* what a reading line by line does, and leaves no new pair of fences.
THEOREM StrippingIsExact == NotesSpec => []NotesAreStripped
<1>1. QED
  BY FoundInit, FoundNext, FoundIsStripped, PTL DEF NotesSpec

\* The scan stays in the text, and the fences it finds do not overlap.
THEOREM NotesTypeCorrect == NotesSpec => []NotesTypeOK
<1>1. FoundInv => NotesTypeOK
  <2> SUFFICES ASSUME FoundInv PROVE NotesTypeOK
    OBVIOUS
  <2>1. \A k \in 1 .. Len(fences) - 1 : fences[k][2] < fences[k + 1][1]
    <3>1. \A k \in 1 .. Len(fences) - 1 : k \in 1 .. Len(fences) /\ k + 1 \in 1 .. Len(fences) /\ k < k + 1
      BY DEF FoundInv, InOrder
    <3>2. QED
      BY <3>1 DEF FoundInv, InOrder
  <2>2. QED
    BY <2>1 DEF FoundInv, InOrder, NotesTypeOK
<1>2. QED
  BY <1>1, FoundInit, FoundNext, PTL DEF NotesSpec

\* The search never looks twice at a place: each mark it stops at takes it at least
\* three characters on and leaves it in the text, whether or not the mark's line is a
\* fence, so that it stops at most once for each character of the deck.
THEOREM SearchGoesForward ==
    NotesSpec => [][\/ /\ pos < pos' /\ pos' <= Len(text) + 1
                       /\ UNCHANGED <<text, stage>>
                    \/ stage = "scan" /\ stage' = "done"]_notesVars
<1>1. ASSUME FoundInv, Scan
      PROVE  pos < pos' /\ pos' <= Len(text) + 1 /\ UNCHANGED <<text, stage>>
  <2> DEFINE i == LeastOf(Marks(text, pos))
             b == LineEnd(text, i)
  <2>1. /\ text \in Seq(Char) /\ Len(text) \in Nat /\ pos \in Nat \ {0}
    BY <1>1 DEF FoundInv
  <2>2. i \in Marks(text, pos)
    <3>1. Marks(text, pos) \in SUBSET Nat /\ Marks(text, pos) # {}
      BY <1>1, <2>1 DEF Marks, Scan
    <3>2. QED
      BY <3>1, LeastExists
  <2>3. UNCHANGED <<text, stage>> /\ pos' \in {b, i + 3}
    BY <1>1 DEF Scan, GoOn
  <2> HIDE DEF i
  <2>4. i \in 1 .. Len(text) /\ pos <= i /\ i + 3 <= Len(text) + 1 /\ b \in i + 3 .. Len(text) + 1
    BY <2>1, <2>2, MarkFacts
  <2> HIDE DEF b
  <2>5. QED
    BY <2>1, <2>3, <2>4
<1>2. Return => stage = "scan" /\ stage' = "done"
  BY DEF Return
<1>3. FoundInv /\ [NotesNext]_notesVars
        => [\/ /\ pos < pos' /\ pos' <= Len(text) + 1
               /\ UNCHANGED <<text, stage>>
            \/ stage = "scan" /\ stage' = "done"]_notesVars
  BY <1>1, <1>2 DEF NotesNext
<1>4. QED
  BY <1>3, FoundInit, FoundNext, PTL DEF NotesSpec

-----------------------------------------------------------------------------
(* PresentationLinks. *)

CreatePCs == {"idle", "counted", "found", "copied", "inserted", "done", "failed"}
ViewPCs   == {"idle", "admitted", "located", "fetched", "recorded", "served", "failed"}
DeletePCs == {"idle", "found", "written", "revoking", "committed", "done", "failed"}

\* A link is committed when its request is done, and a snapshot has been copied
\* before.
CreateInv(c) ==
    /\ pc[c] \in CreatePCs
    /\ row[c] # "none" => pc[c] = "done"
    /\ c \in Snapshots /\ pc[c] \in {"copied", "inserted", "done"} => snapshot[c] # 0

(***************************************************************************)
(* What a view serves must be right from the moment it is admitted: its    *)
(* link has been committed, so that no copy is made any more, and what it  *)
(* fetched is the copy.  A delete it came after had revoked the links      *)
(* there were when that delete arrived.                                    *)
(***************************************************************************)
ViewInv(v) ==
    /\ pc[v] \in ViewPCs
    /\ pc[v] \in {"admitted", "located", "fetched", "recorded", "served"} =>
          \E c \in Creates : opened[v] = {c} /\ row[c] # "none"
    /\ pc[v] \in {"fetched", "recorded", "served"} =>
          \A c \in opened[v] \cap Snapshots : got[v] = snapshot[c]
    /\ \A d \in acked[v] :
          /\ pc[d] \in {"committed", "done"}
          /\ opened[v] \cap there[d] # {} => pc[v] = "failed"

\* The links that a delete found are revoked when it commits.
DeleteInv(d) ==
    /\ pc[d] \in DeletePCs
    /\ \A c \in there[d] \cup revoking[d] : row[c] # "none"
    /\ pc[d] = "revoking" => \A c \in there[d] : row[c] = "revoked" \/ c \in revoking[d]
    /\ pc[d] \in {"committed", "done"} => \A c \in there[d] : row[c] = "revoked"

Inv ==
    /\ TypeOK
    /\ \A c \in Creates : CreateInv(c)
    /\ \A v \in Views : ViewInv(v)
    /\ \A d \in Deletes : DeleteInv(d)

USE LinksAssumption

-----------------------------------------------------------------------------
LEMMA GotoEffect ==
    ASSUME TypeOK, NEW r \in Requests, NEW from, NEW to \in PCs, Goto(r, from, to)
    PROVE  /\ pc' \in [Requests -> PCs]
           /\ pc[r] = from /\ pc'[r] = to
           /\ \A q \in Requests \ {r} : pc'[q] = pc[q]
BY DEF TypeOK, Goto

LEMMA TypeInit == Init => TypeOK
<1> SUFFICES ASSUME Init PROVE TypeOK
  OBVIOUS
<1>1. 0 \in Revisions
  BY DEF Revisions
<1>2. /\ snapshot \in [Creates -> Revisions] /\ accessCount \in [Creates -> Nat]
      /\ got \in [Views -> Revisions] /\ count \in [Views -> Nat] /\ pc \in [Requests -> PCs]
  BY <1>1 DEF Init, PCs
<1>3. QED
  BY <1>1, <1>2 DEF Init, TypeOK

LEMMA TypeCreate ==
    ASSUME TypeOK, NEW c \in Creates, ServeCreate(c)
    PROVE  TypeOK'
<1> USE DEF TypeOK, fileVars, viewVars, delVars, linkVars
<1>1. pc' \in [Requests -> PCs]
  BY DEF ServeCreate, CountRecent, FindFile, CopyObject, InsertLink, CommitLink, Goto, PCs
<1>2. CASE CountRecent(c) \/ FindFile(c) \/ InsertLink(c)
  BY <1>1, <1>2 DEF CountRecent, FindFile, InsertLink
<1>3. CASE CopyObject(c)
  BY <1>1, <1>3 DEF CopyObject
<1>4. CASE CommitLink(c)
  BY <1>1, <1>4 DEF CommitLink
<1>5. QED
  BY <1>2, <1>3, <1>4 DEF ServeCreate

LEMMA TypeLink ==
    ASSUME TypeOK, NEW c \in Creates,
           RevokeLink(c) \/ Unlock(c) \/ UnlockExpires(c) \/ LinkExpires(c) \/ HourPasses(c)
    PROVE  TypeOK'
<1> USE DEF TypeOK, fileVars, viewVars, delVars
<1>1. CASE RevokeLink(c)
  BY <1>1 DEF RevokeLink
<1>2. CASE Unlock(c) \/ UnlockExpires(c) \/ LinkExpires(c) \/ HourPasses(c)
  BY <1>2 DEF Unlock, UnlockExpires, LinkExpires, HourPasses
<1>3. QED
  BY <1>1, <1>2

LEMMA TypeFile ==
    ASSUME TypeOK, PutObject \/ CompleteUpload \/ OtherDelete
    PROVE  TypeOK'
<1> USE DEF TypeOK, linkVars, viewVars, delVars
<1>1. CASE PutObject
  BY <1>1 DEF PutObject, Revisions
<1>2. CASE CompleteUpload \/ OtherDelete
  BY <1>2 DEF CompleteUpload, OtherDelete
<1>3. QED
  BY <1>1, <1>2

LEMMA TypeView ==
    ASSUME TypeOK, NEW v \in Views, ServeView(v)
    PROVE  TypeOK'
<1> USE DEF TypeOK, fileVars, linkVars, viewVars, delVars
<1>1. pc' \in [Requests -> PCs]
  BY DEF ServeView, ResolveToken, LocateContent, FetchContent, RecordAccess, CommitView, Goto, PCs
<1>2. ASSUME NEW c \in Creates, ResolveToken(v, c) PROVE TypeOK'
  <2>1. opened' \in [Views -> SUBSET Creates] /\ acked' \in [Views -> SUBSET Deletes]
    BY <1>2 DEF ResolveToken
  <2>2. QED
    BY <1>1, <1>2, <2>1 DEF ResolveToken
<1>3. CASE LocateContent(v)
  BY <1>1, <1>3 DEF LocateContent
<1>4. CASE FetchContent(v)
  <2>1. PICK c \in opened[v] : got' = [got EXCEPT ![v] = IF c \in Snapshots THEN snapshot[c] ELSE content]
    BY <1>4 DEF FetchContent
  <2>2. got' \in [Views -> Revisions]
    BY <2>1
  <2>3. QED
    BY <1>1, <1>4, <2>2 DEF FetchContent
<1>5. CASE RecordAccess(v)
  <2>1. PICK c \in opened[v] : count' = [count EXCEPT ![v] = accessCount[c] + 1]
    BY <1>5 DEF RecordAccess
  <2>2. count' \in [Views -> Nat]
    BY <2>1
  <2>3. QED
    BY <1>1, <1>5, <2>2 DEF RecordAccess
<1>6. CASE CommitView(v)
  <2>1. accessCount' \in [Creates -> Nat]
    BY <1>6 DEF CommitView
  <2>2. QED
    BY <1>1, <1>6, <2>1 DEF CommitView
<1>7. QED
  BY <1>2, <1>3, <1>4, <1>5, <1>6 DEF ServeView

LEMMA TypeDelete ==
    ASSUME TypeOK, NEW d \in Deletes, ServeDelete(d)
    PROVE  TypeOK'
<1> USE DEF TypeOK, fileVars, linkVars, viewVars, delVars
<1>1. pc' \in [Requests -> PCs]
  BY DEF ServeDelete, DeleteLookup, SoftDelete, RevokeLinks, CommitDelete, DeleteBlob, Goto, PCs
<1>2. CASE DeleteLookup(d)
  <2>1. there' \in [Deletes -> SUBSET Creates] /\ seenBlob' \in [Deletes -> BOOLEAN]
    BY <1>2 DEF DeleteLookup
  <2>2. QED
    BY <1>1, <1>2, <2>1 DEF DeleteLookup
<1>3. CASE SoftDelete(d)
  BY <1>1, <1>3 DEF SoftDelete
<1>4. CASE RevokeLinks(d)
  <2>1. revoking' \in [Deletes -> SUBSET Creates]
    BY <1>4 DEF RevokeLinks
  <2>2. QED
    BY <1>1, <1>4, <2>1 DEF RevokeLinks
<1>5. CASE CommitDelete(d)
  <2>1. row' \in [Creates -> {"none", "active", "revoked"}]
    BY <1>5 DEF CommitDelete
  <2>2. QED
    BY <1>1, <1>5, <2>1 DEF CommitDelete
<1>6. CASE DeleteBlob(d)
  BY <1>1, <1>6 DEF DeleteBlob, Revisions
<1>7. QED
  BY <1>2, <1>3, <1>4, <1>5, <1>6 DEF ServeDelete

LEMMA TypeNext ==
    ASSUME TypeOK, [Next]_vars
    PROVE  TypeOK'
<1>1. ASSUME NEW r \in Requests, Abort(r) PROVE TypeOK'
  BY <1>1 DEF Abort, TypeOK, PCs, fileVars, linkVars, viewVars, delVars
<1>2. CASE UNCHANGED vars
  BY <1>2 DEF vars, TypeOK, fileVars, linkVars, viewVars, delVars
<1>3. QED
  BY <1>1, <1>2, TypeFile, TypeCreate, TypeLink, TypeView, TypeDelete DEF Next

-----------------------------------------------------------------------------
\* No step takes a row or a revocation back.
RowsGrow ==
    \A c \in Creates :
        /\ row[c] # "none" => row'[c] # "none"
        /\ row[c] = "revoked" => row'[c] = "revoked"

LEMMA CreateKeeps ==
    ASSUME NEW c \in Creates, CreateInv(c), pc'[c] = pc[c], snapshot'[c] = snapshot[c],
           row'[c] # "none" => row[c] # "none"
    PROVE  CreateInv(c)'
BY DEF CreateInv

LEMMA ViewKeeps ==
    ASSUME TypeOK, NEW v \in Views, ViewInv(v), RowsGrow,
           pc'[v] = pc[v], opened'[v] = opened[v], got'[v] = got[v], acked'[v] = acked[v],
           \A c \in Creates : row[c] # "none" => snapshot'[c] = snapshot[c],
           \A d \in acked[v] : pc'[d] \in {"committed", "done"} /\ there'[d] = there[d]
    PROVE  ViewInv(v)'
BY DEF ViewInv, RowsGrow, TypeOK

LEMMA DeleteKeeps ==
    ASSUME TypeOK, NEW d \in Deletes, DeleteInv(d), RowsGrow,
           pc'[d] = pc[d], there'[d] = there[d], revoking'[d] = revoking[d]
    PROVE  DeleteInv(d)'
<1>1. there[d] \subseteq Creates /\ revoking[d] \subseteq Creates
  BY DEF TypeOK
<1>2. QED
  BY <1>1 DEF DeleteInv, RowsGrow

LEMMA InvInit == Init => Inv
BY TypeInit DEF Init, Inv, CreateInv, ViewInv, DeleteInv, Requests, CreatePCs, ViewPCs, DeletePCs

LEMMA InvCreate ==
    ASSUME Inv, NEW c \in Creates, ServeCreate(c), TypeOK'
    PROVE  Inv'
<1>0. TypeOK /\ CreateInv(c)
  BY DEF Inv
<1>1. \A q \in Requests \ {c} : pc'[q] = pc[q]
  BY <1>0 DEF TypeOK, Requests, ServeCreate, CountRecent, FindFile, CopyObject, InsertLink, CommitLink, Goto
<1>2. UNCHANGED <<viewVars, delVars>>
  BY DEF ServeCreate, CountRecent, FindFile, CopyObject, InsertLink, CommitLink
<1>3. /\ \A e \in Creates \ {c} : row'[e] = row[e] /\ snapshot'[e] = snapshot[e]
      /\ row'[c] = row[c] \/ row[c] = "none"
      /\ snapshot'[c] = snapshot[c] \/ row[c] = "none"
      /\ CreateInv(c)'
  <2> USE DEF CreateInv, CreatePCs
  <2>1. CASE CountRecent(c)
    BY <1>0, <2>1 DEF CountRecent, Goto, linkVars, TypeOK, Requests
  <2>2. CASE FindFile(c)
    BY <1>0, <2>2 DEF FindFile, Goto, linkVars, TypeOK, Requests
  <2>3. CASE CopyObject(c)
    BY <1>0, <2>3 DEF CopyObject, Goto, TypeOK, Requests
  <2>4. CASE InsertLink(c)
    BY <1>0, <2>4 DEF InsertLink, Goto, linkVars, TypeOK, Requests
  <2>5. CASE CommitLink(c)
    BY <1>0, <2>5 DEF CommitLink, Goto, TypeOK, Requests
  <2>6. QED
    BY <2>1, <2>2, <2>3, <2>4, <2>5 DEF ServeCreate
<1>4. RowsGrow
  BY <1>0, <1>3 DEF RowsGrow, CreateInv, TypeOK
<1>5. ASSUME NEW e \in Creates PROVE CreateInv(e)'
  <2>1. CASE e # c
    BY <1>1, <1>3, <2>1, CreateKeeps DEF Inv, Requests
  <2>2. QED
    BY <1>3, <2>1
<1>6. ASSUME NEW v \in Views PROVE ViewInv(v)'
  <2>1. ViewInv(v) /\ pc'[v] = pc[v]
    BY <1>1 DEF Inv, Requests
  <2>2. \A d \in acked[v] : pc[d] \in {"committed", "done"} /\ pc'[d] = pc[d]
    BY <1>0, <1>1, <2>1 DEF ViewInv, TypeOK, Requests
  <2>3. QED
    BY <1>0, <1>2, <1>3, <1>4, <2>1, <2>2, ViewKeeps DEF viewVars, delVars
<1>7. ASSUME NEW d \in Deletes PROVE DeleteInv(d)'
  BY <1>0, <1>1, <1>2, <1>4, DeleteKeeps DEF Inv, Requests, delVars
<1>8. QED
  BY <1>5, <1>6, <1>7 DEF Inv

\* A revocation, an unlocking, the clock or the file's own requests.
LEMMA InvLink ==
    ASSUME Inv, TypeOK',
           \/ PutObject \/ CompleteUpload \/ OtherDelete
           \/ \E c \in Creates : RevokeLink(c) \/ Unlock(c) \/ UnlockExpires(c)
                                 \/ LinkExpires(c) \/ HourPasses(c)
    PROVE  Inv'
<1>0. TypeOK
  BY DEF Inv
<1>1. UNCHANGED <<pc, snapshot, viewVars, delVars>>
  BY DEF PutObject, CompleteUpload, OtherDelete, RevokeLink, Unlock, UnlockExpires, LinkExpires,
         HourPasses, linkVars
<1>2. \A c \in Creates : row'[c] = row[c] \/ (row[c] # "none" /\ row'[c] = "revoked")
  <2>1. CASE \E c \in Creates : RevokeLink(c)
    BY <1>0, <2>1 DEF RevokeLink, TypeOK
  <2>2. CASE UNCHANGED row
    BY <2>2
  <2>3. QED
    BY <2>1, <2>2
    DEF PutObject, CompleteUpload, OtherDelete, Unlock, UnlockExpires, LinkExpires, HourPasses, linkVars
<1>3. RowsGrow
  BY <1>2 DEF RowsGrow
<1>4. ASSUME NEW c \in Creates PROVE CreateInv(c)'
  BY <1>1, <1>2, CreateKeeps DEF Inv
<1>5. ASSUME NEW v \in Views PROVE ViewInv(v)'
  <2>1. ViewInv(v) /\ \A d \in acked[v] : pc[d] \in {"committed", "done"}
    BY DEF Inv, ViewInv
  <2>2. QED
    BY <1>0, <1>1, <1>3, <2>1, ViewKeeps DEF viewVars, delVars
<1>6. ASSUME NEW d \in Deletes PROVE DeleteInv(d)'
  BY <1>0, <1>1, <1>3, DeleteKeeps DEF Inv, delVars
<1>7. QED
  BY <1>4, <1>5, <1>6 DEF Inv

LEMMA InvView ==
    ASSUME Inv, NEW v \in Views, ServeView(v), TypeOK'
    PROVE  Inv'
<1>0. TypeOK /\ ViewInv(v)
  BY DEF Inv
<1>1. \A q \in Requests \ {v} : pc'[q] = pc[q]
  <2>1. \E from, to : Goto(v, from, to)
    BY DEF ServeView, ResolveToken, LocateContent, FetchContent, RecordAccess, CommitView
  <2>2. QED
    BY <1>0, <2>1 DEF Goto, TypeOK, Requests
<1>2. UNCHANGED <<row, snapshot, delVars>>
  BY DEF ServeView, ResolveToken, LocateContent, FetchContent, RecordAccess, CommitView, linkVars
<1>3. \A w \in Views \ {v} : opened'[w] = opened[w] /\ got'[w] = got[w] /\ acked'[w] = acked[w]
  BY <1>0 DEF ServeView, ResolveToken, LocateContent, FetchContent, RecordAccess, CommitView, TypeOK, viewVars
<1>4. ViewInv(v)'
  <2>1. ASSUME NEW c \in Creates, ResolveToken(v, c) PROVE ViewInv(v)'
    <3>1. /\ opened'[v] = {c} /\ got'[v] = got[v]
          /\ acked'[v] = {d \in Deletes : pc[d] \in {"committed", "done"}}
      BY <1>0, <2>1 DEF ResolveToken, TypeOK
    <3>2. \/ pc'[v] = "admitted" /\ row[c] = "active"
          \/ pc'[v] = "failed"
      BY <1>0, <2>1 DEF ResolveToken, Goto, TypeOK, Requests, Open
    <3>3. \A d \in Deletes : pc[d] \in {"committed", "done"} =>
              /\ pc'[d] = pc[d]
              /\ \A e \in there[d] : row[e] = "revoked"
      BY <1>1 DEF Inv, DeleteInv, Requests
    <3>4. \A d \in acked'[v] : /\ pc'[d] \in {"committed", "done"}
                               /\ opened'[v] \cap there'[d] # {} => pc'[v] = "failed"
      BY <1>2, <3>1, <3>2, <3>3 DEF delVars
    <3>5. QED
      BY <1>2, <3>1, <3>2, <3>4 DEF ViewInv, ViewPCs
  <2>2. \A d \in acked[v] : pc'[d] = pc[d]
    BY <1>0, <1>1 DEF TypeOK, Requests
  <2>3. CASE LocateContent(v)
    <3>1. pc[v] = "admitted" /\ pc'[v] \in {"located", "failed"}
      BY <1>0, <2>3 DEF LocateContent, Goto, TypeOK, Requests
    <3>2. UNCHANGED viewVars
      BY <2>3 DEF LocateContent
    <3>3. QED
      BY <1>0, <1>2, <2>2, <3>1, <3>2 DEF ViewInv, ViewPCs, viewVars, delVars
  <2>4. CASE FetchContent(v)
    <3>1. PICK c \in opened[v] :
              LET found == IF c \in Snapshots THEN snapshot[c] ELSE content
              IN  /\ Goto(v, "located", IF found # 0 THEN "fetched" ELSE "failed")
                  /\ got' = [got EXCEPT ![v] = found]
      BY <2>4 DEF FetchContent
    <3>2. pc[v] = "located" /\ pc'[v] \in {"fetched", "failed"}
      BY <1>0, <3>1 DEF Goto, TypeOK, Requests
    <3>3. opened'[v] = opened[v] /\ acked'[v] = acked[v] /\ opened[v] = {c}
      BY <1>0, <2>4, <3>2 DEF FetchContent, ViewInv
    <3>4. c \in Snapshots => got'[v] = snapshot[c]
      BY <1>0, <3>1 DEF TypeOK
    <3>5. QED
      BY <1>0, <1>2, <2>2, <3>2, <3>3, <3>4 DEF ViewInv, ViewPCs, delVars
  <2>5. CASE RecordAccess(v)
    <3>1. pc[v] = "fetched" /\ pc'[v] = "recorded"
      BY <1>0, <2>5 DEF RecordAccess, Goto, TypeOK, Requests
    <3>2. UNCHANGED <<opened, got, acked>>
      BY <2>5 DEF RecordAccess
    <3>3. QED
      BY <1>0, <1>2, <2>2, <3>1, <3>2 DEF ViewInv, ViewPCs, delVars
  <2>6. CASE CommitView(v)
    <3>1. pc[v] = "recorded" /\ pc'[v] = "served"
      BY <1>0, <2>6 DEF CommitView, Goto, TypeOK, Requests
    <3>2. UNCHANGED viewVars
      BY <2>6 DEF CommitView
    <3>3. QED
      BY <1>0, <1>2, <2>2, <3>1, <3>2 DEF ViewInv, ViewPCs, viewVars, delVars
  <2>7. QED
    BY <2>1, <2>3, <2>4, <2>5, <2>6 DEF ServeView
<1>5. RowsGrow
  BY <1>2 DEF RowsGrow
<1>6. ASSUME NEW c \in Creates PROVE CreateInv(c)'
  BY <1>1, <1>2, CreateKeeps DEF Inv, Requests
<1>7. ASSUME NEW w \in Views PROVE ViewInv(w)'
  <2>1. CASE w # v
    <3>1. ViewInv(w) /\ pc'[w] = pc[w]
      BY <1>1, <2>1 DEF Inv, Requests
    <3>2. \A d \in acked[w] : pc[d] \in {"committed", "done"} /\ pc'[d] = pc[d]
      BY <1>0, <1>1, <3>1 DEF ViewInv, TypeOK, Requests
    <3>3. QED
      BY <1>0, <1>2, <1>3, <1>5, <2>1, <3>1, <3>2, ViewKeeps DEF delVars
  <2>2. QED
    BY <1>4, <2>1
<1>8. ASSUME NEW d \in Deletes PROVE DeleteInv(d)'
  BY <1>0, <1>1, <1>2, <1>5, DeleteKeeps DEF Inv, Requests, delVars
<1>9. QED
  BY <1>6, <1>7, <1>8 DEF Inv

LEMMA InvDelete ==
    ASSUME Inv, NEW d \in Deletes, ServeDelete(d), TypeOK'
    PROVE  Inv'
<1>0. TypeOK /\ DeleteInv(d)
  BY DEF Inv
<1>1. \A q \in Requests \ {d} : pc'[q] = pc[q]
  <2>1. \E from, to : Goto(d, from, to)
    BY DEF ServeDelete, DeleteLookup, SoftDelete, RevokeLinks, CommitDelete, DeleteBlob
  <2>2. QED
    BY <1>0, <2>1 DEF Goto, TypeOK, Requests
<1>2. UNCHANGED <<snapshot, viewVars>>
  BY DEF ServeDelete, DeleteLookup, SoftDelete, RevokeLinks, CommitDelete, DeleteBlob, linkVars
<1>3. \A e \in Deletes \ {d} : there'[e] = there[e] /\ revoking'[e] = revoking[e]
  BY <1>0 DEF ServeDelete, DeleteLookup, SoftDelete, RevokeLinks, CommitDelete, DeleteBlob, TypeOK, delVars
<1>4. /\ \A c \in Creates : row'[c] = row[c] \/ (row[c] # "none" /\ row'[c] = "revoked")
      /\ pc[d] \in {"committed", "done"} => pc'[d] = "done" /\ there'[d] = there[d]
      /\ DeleteInv(d)'
  <2> USE DEF DeletePCs
  <2>1. CASE DeleteLookup(d)
    <3>1. /\ pc[d] = "idle" /\ pc'[d] \in {"found", "failed"}
          /\ there'[d] = {c \in Creates : row[c] # "none"} /\ revoking'[d] = revoking[d]
          /\ UNCHANGED row
      BY <1>0, <2>1 DEF DeleteLookup, Goto, TypeOK, Requests, linkVars
    <3>2. QED
      BY <1>0, <3>1 DEF DeleteInv
  <2>2. CASE SoftDelete(d)
    <3>1. pc[d] = "found" /\ pc'[d] = "written" /\ UNCHANGED <<row, delVars>>
      BY <1>0, <2>2 DEF SoftDelete, Goto, TypeOK, Requests, linkVars
    <3>2. QED
      BY <1>0, <3>1 DEF DeleteInv, delVars
  <2>3. CASE RevokeLinks(d)
    <3>1. /\ pc[d] = "written" /\ pc'[d] = "revoking" /\ UNCHANGED <<row, there>>
          /\ revoking'[d] = {c \in Creates : row[c] = "active"}
      BY <1>0, <2>3 DEF RevokeLinks, Goto, TypeOK, Requests, linkVars
    <3>2. \A c \in there[d] : row[c] = "active" \/ row[c] = "revoked"
      BY <1>0 DEF DeleteInv, TypeOK
    <3>3. there[d] \subseteq Creates
      BY <1>0 DEF TypeOK
    <3>4. QED
      BY <1>0, <3>1, <3>2, <3>3 DEF DeleteInv
  <2>4. CASE CommitDelete(d)
    <3>1. /\ pc[d] = "revoking" /\ pc'[d] = "committed" /\ UNCHANGED delVars
          /\ row' = [c \in Creates |-> IF c \in revoking[d] THEN "revoked" ELSE row[c]]
      BY <1>0, <2>4 DEF CommitDelete, Goto, TypeOK, Requests
    <3>2. there[d] \subseteq Creates /\ revoking[d] \subseteq Creates
      BY <1>0 DEF TypeOK
    <3>3. \A c \in revoking[d] : row[c] # "none"
      BY <1>0 DEF DeleteInv
    <3>4. \A c \in there[d] : row'[c] = "revoked"
      BY <1>0, <3>1, <3>2 DEF DeleteInv
    <3>5. \A c \in revoking[d] : row'[c] = "revoked"
      BY <3>1, <3>2
    <3>6. DeleteInv(d)'
      BY <3>1, <3>4, <3>5 DEF DeleteInv, delVars
    <3>7. QED
      BY <3>1, <3>3, <3>6
  <2>5. CASE DeleteBlob(d)
    <3>1. pc[d] = "committed" /\ pc'[d] = "done" /\ UNCHANGED <<row, delVars>>
      BY <1>0, <2>5 DEF DeleteBlob, Goto, TypeOK, Requests, linkVars
    <3>2. QED
      BY <1>0, <3>1 DEF DeleteInv, delVars
  <2>6. QED
    BY <2>1, <2>2, <2>3, <2>4, <2>5 DEF ServeDelete
<1>5. RowsGrow
  BY <1>4 DEF RowsGrow
<1>6. ASSUME NEW c \in Creates PROVE CreateInv(c)'
  BY <1>1, <1>2, <1>4, CreateKeeps DEF Inv, Requests
<1>7. ASSUME NEW v \in Views PROVE ViewInv(v)'
  <2>1. ViewInv(v) /\ pc'[v] = pc[v]
    BY <1>1 DEF Inv, Requests
  <2>2. ASSUME NEW e \in acked[v]
        PROVE  pc'[e] \in {"committed", "done"} /\ there'[e] = there[e]
    <3>1. e \in Deletes /\ pc[e] \in {"committed", "done"}
      BY <1>0, <2>1 DEF ViewInv, TypeOK
    <3>2. CASE e = d
      BY <1>4, <3>1, <3>2
    <3>3. CASE e # d
      BY <1>1, <1>3, <3>1, <3>3 DEF Requests
    <3>4. QED
      BY <3>2, <3>3
  <2>3. QED
    BY <1>0, <1>2, <1>5, <2>1, <2>2, ViewKeeps DEF viewVars
<1>8. ASSUME NEW e \in Deletes PROVE DeleteInv(e)'
  <2>1. CASE e # d
    BY <1>0, <1>1, <1>3, <1>5, <2>1, DeleteKeeps DEF Inv, Requests
  <2>2. QED
    BY <1>4, <2>1
<1>9. QED
  BY <1>6, <1>7, <1>8 DEF Inv

LEMMA InvAbort ==
    ASSUME Inv, NEW r \in Requests, Abort(r), TypeOK'
    PROVE  Inv'
<1>0. TypeOK
  BY DEF Inv
<1>1. /\ \A q \in Requests \ {r} : pc'[q] = pc[q]
      /\ pc[r] \notin Answered
      /\ pc'[r] = IF pc[r] = "committed" THEN "done" ELSE "failed"
      /\ UNCHANGED <<row, snapshot, viewVars, delVars>>
  BY <1>0 DEF Abort, TypeOK, linkVars
<1>2. RowsGrow
  BY <1>1 DEF RowsGrow
<1>3. ASSUME NEW c \in Creates PROVE CreateInv(c)'
  <2>1. CreateInv(c)
    BY DEF Inv
  <2>2. CASE c # r
    BY <1>1, <2>1, <2>2, CreateKeeps DEF Requests
  <2>3. CASE c = r
    BY <1>1, <2>1, <2>3 DEF CreateInv, CreatePCs, Answered
  <2>4. QED
    BY <2>2, <2>3
<1>4. ASSUME NEW v \in Views PROVE ViewInv(v)'
  <2>1. ViewInv(v)
    BY DEF Inv
  <2>2. \A d \in acked[v] : pc[d] \in {"committed", "done"} /\ pc'[d] \in {"committed", "done"}
    <3>1. ASSUME NEW d \in acked[v] PROVE pc[d] \in {"committed", "done"} /\ d \in Requests
      BY <1>0, <2>1 DEF ViewInv, TypeOK, Requests
    <3>2. QED
      BY <1>1, <3>1 DEF Answered
  <2>3. CASE v # r
    BY <1>0, <1>1, <1>2, <2>1, <2>2, <2>3, ViewKeeps DEF Requests, viewVars, delVars
  <2>4. CASE v = r
    BY <1>1, <2>1, <2>2, <2>4 DEF ViewInv, ViewPCs, Answered, viewVars, delVars
  <2>5. QED
    BY <2>3, <2>4
<1>5. ASSUME NEW d \in Deletes PROVE DeleteInv(d)'
  <2>1. DeleteInv(d)
    BY DEF Inv
  <2>2. CASE d # r
    BY <1>0, <1>1, <1>2, <2>1, <2>2, DeleteKeeps DEF Requests, delVars
  <2>3. CASE d = r
    BY <1>1, <2>1, <2>3 DEF DeleteInv, DeletePCs, Answered, delVars
  <2>4. QED
    BY <2>2, <2>3
<1>6. QED
  BY <1>3, <1>4, <1>5 DEF Inv

LEMMA InvNext ==
    ASSUME Inv, [Next]_vars
    PROVE  Inv'
<1>1. TypeOK'
  BY TypeNext DEF Inv
<1>2. CASE UNCHANGED vars
  BY <1>2 DEF vars, Inv, TypeOK, CreateInv, ViewInv, DeleteInv, fileVars, linkVars, viewVars, delVars
<1>3. QED
  BY <1>1, <1>2, InvCreate, InvLink, InvView, InvDelete, InvAbort DEF Next

LEMMA InvAlways == Spec => []Inv
BY InvInit, InvNext, PTL DEF Spec

-----------------------------------------------------------------------------
\* presentation_service.py and presentation_links.py: rows, keys, counters and
\* requests keep their types.
THEOREM TypeCorrect == Spec => []TypeOK
<1>1. Inv => TypeOK
  BY DEF Inv
<1>2. QED
  BY <1>1, InvAlways, PTL

\* resolve_link: every viewer of a snapshot gets the revision that was copied.
THEOREM SnapshotsAreFrozen == Spec => []SnapshotFrozen
<1>1. ASSUME Inv, NEW v \in Views, NEW w \in Views, pc[v] = "served", pc[w] = "served",
             opened[v] = opened[w], opened[v] \subseteq Snapshots
      PROVE  got[v] = got[w]
  <2>1. ViewInv(v) /\ ViewInv(w)
    BY <1>1 DEF Inv
  <2>2. PICK c \in Creates : opened[v] = {c}
    BY <1>1, <2>1 DEF ViewInv
  <2>3. got[v] = snapshot[c] /\ got[w] = snapshot[c]
    BY <1>1, <2>1, <2>2 DEF ViewInv
  <2>4. QED
    BY <2>3
<1>2. Inv => SnapshotFrozen
  BY <1>1 DEF SnapshotFrozen
<1>3. QED
  BY <1>2, InvAlways, PTL

\* create_link: no snapshot link is committed before its copy is made.
THEOREM SnapshotsHaveContent == Spec => []SnapshotHasContent
<1>1. Inv => SnapshotHasContent
  BY DEF Inv, CreateInv, SnapshotHasContent
<1>2. QED
  BY <1>1, InvAlways, PTL

\* delete_asset's revoke_by_file_id: with its commit, the links it found are shut
\* for every later viewer.
THEOREM DeletedFilesAreUnreachable == Spec => []DeletedFileUnreachable
<1>1. Inv => DeletedFileUnreachable
  BY DEF Inv, ViewInv, DeletedFileUnreachable
<1>2. QED
  BY <1>1, InvAlways, PTL

-----------------------------------------------------------------------------
\* The views that a link has served.
Served(c) == {v \in Views : pc[v] = "served" /\ opened[v] = {c}}

(***************************************************************************)
(* No update is lost: a viewer's open UPDATE holds the row for itself, so  *)
(* that what it has written is still one more than the committed count.    *)
(***************************************************************************)
OpenUpdateIsNext ==
    \A v \in Views : pc[v] = "recorded" =>
        \A c \in opened[v] :
            /\ count[v] = accessCount[c] + 1
            /\ \A w \in Views : pc[w] = "recorded" /\ c \in opened[w] => w = v

CountInv == OpenUpdateIsNext /\ AccessCountExact

LEMMA OpenedIsLink ==
    ASSUME TypeOK, NEW v \in Views, NEW c \in opened[v]
    PROVE  c \in Creates
BY DEF TypeOK

(***************************************************************************)
(* Most steps let no view's UPDATE and no commit come about.               *)
(***************************************************************************)
CountsStay ==
    /\ UNCHANGED accessCount
    /\ \A v \in Views :
          /\ pc'[v] = "recorded" => pc[v] = "recorded" /\ opened'[v] = opened[v] /\ count'[v] = count[v]
          /\ pc'[v] = "served" <=> pc[v] = "served"
          /\ pc[v] = "served" => opened'[v] = opened[v]

LEMMA OthersStay ==
    ASSUME Inv, [Next]_vars, \A v \in Views : ~RecordAccess(v) /\ ~CommitView(v)
    PROVE  CountsStay
<1>0. TypeOK
  BY DEF Inv
<1>1. UNCHANGED accessCount
  BY DEF Next, vars, linkVars, PutObject, CompleteUpload, OtherDelete, ServeCreate, CountRecent, FindFile,
         CopyObject, InsertLink, CommitLink, RevokeLink, Unlock, UnlockExpires, LinkExpires, HourPasses,
         ServeView, ResolveToken, LocateContent, FetchContent, ServeDelete, DeleteLookup, SoftDelete,
         RevokeLinks, CommitDelete, DeleteBlob, Abort
<1> DEFINE Stays(v) ==
      /\ pc'[v] = "recorded" => pc[v] = "recorded" /\ opened'[v] = opened[v] /\ count'[v] = count[v]
      /\ pc'[v] = "served" <=> pc[v] = "served"
      /\ pc[v] = "served" => opened'[v] = opened[v]
<1>2. ASSUME NEW v \in Views PROVE Stays(v)
  <2>1. CASE UNCHANGED <<pc, opened, count>>
    BY <2>1
  <2>2. CASE \E r \in Creates \cup Deletes : ServeCreate(r) \/ ServeDelete(r)
    <3>1. PICK r \in Requests \ {v} : \E from, to : Goto(r, from, to)
      BY <2>2 DEF Requests, ServeCreate, CountRecent, FindFile, CopyObject, InsertLink, CommitLink,
                  ServeDelete, DeleteLookup, SoftDelete, RevokeLinks, CommitDelete, DeleteBlob
    <3>2. UNCHANGED <<opened, count>>
      BY <2>2 DEF viewVars, ServeCreate, CountRecent, FindFile, CopyObject, InsertLink, CommitLink,
                  ServeDelete, DeleteLookup, SoftDelete, RevokeLinks, CommitDelete, DeleteBlob
    <3>3. pc'[v] = pc[v]
      BY <1>0, <3>1 DEF Goto, TypeOK
    <3>4. QED
      BY <3>2, <3>3
  <2>3. ASSUME NEW w \in Views, NEW e \in Creates, ResolveToken(w, e) PROVE Stays(v)
    <3>1. pc[w] = "idle" /\ pc'[w] \in {"admitted", "failed"} /\ \A x \in Views \ {w} : pc'[x] = pc[x]
      BY <1>0, <2>3 DEF ResolveToken, Goto, TypeOK, Requests
    <3>2. UNCHANGED count /\ \A x \in Views \ {w} : opened'[x] = opened[x]
      BY <1>0, <2>3 DEF ResolveToken, TypeOK
    <3>3. QED
      BY <3>1, <3>2
  <2>4. ASSUME NEW w \in Views, LocateContent(w) \/ FetchContent(w) PROVE Stays(v)
    <3>1. /\ pc[w] \in {"admitted", "located"} /\ pc'[w] \in {"located", "fetched", "failed"}
          /\ \A x \in Views \ {w} : pc'[x] = pc[x]
      BY <1>0, <2>4 DEF LocateContent, FetchContent, Goto, TypeOK, Requests
    <3>2. UNCHANGED <<opened, count>>
      BY <2>4 DEF LocateContent, FetchContent, viewVars
    <3>3. QED
      BY <3>1, <3>2
  <2>5. ASSUME NEW r \in Requests, Abort(r) PROVE Stays(v)
    BY <1>0, <2>5 DEF Abort, Answered, TypeOK, Requests, viewVars
  <2>6. ASSUME NEW e \in Creates,
               RevokeLink(e) \/ Unlock(e) \/ UnlockExpires(e) \/ LinkExpires(e) \/ HourPasses(e)
        PROVE  UNCHANGED <<pc, opened, count>>
    BY <2>6 DEF RevokeLink, Unlock, UnlockExpires, LinkExpires, HourPasses, viewVars
  <2>7. QED
    BY <2>1, <2>2, <2>3, <2>4, <2>5, <2>6
    DEF Next, vars, viewVars, PutObject, CompleteUpload, OtherDelete, ServeView
<1>3. QED
  BY <1>1, <1>2 DEF CountsStay

LEMMA OthersCount ==
    ASSUME Inv, CountInv, CountsStay
    PROVE  CountInv'
<1>1. ASSUME NEW c \in Creates PROVE accessCount'[c] = Cardinality(Served(c)')
  <2>1. Served(c)' = Served(c)
    BY DEF Served, CountsStay
  <2>2. QED
    BY <2>1 DEF CountInv, AccessCountExact, Served, CountsStay
<1>2. OpenUpdateIsNext'
  BY DEF CountInv, OpenUpdateIsNext, CountsStay
<1>3. QED
  BY <1>1, <1>2 DEF CountInv, AccessCountExact, Served

\* The UPDATE waits for a row that is free, and reads it then.
LEMMA RecordCounts ==
    ASSUME Inv, CountInv, NEW v \in Views, RecordAccess(v)
    PROVE  CountInv'
<1>0. TypeOK /\ ViewInv(v)
  BY DEF Inv
<1>1. /\ pc[v] = "fetched" /\ pc'[v] = "recorded"
      /\ \A x \in Views \ {v} : pc'[x] = pc[x]
      /\ UNCHANGED <<opened, accessCount>>
  BY <1>0 DEF RecordAccess, Goto, TypeOK, Requests, linkVars
<1>2. PICK e \in Creates : opened[v] = {e}
  BY <1>0, <1>1 DEF ViewInv
<1>3. ~LinkLocked(e) /\ count' = [count EXCEPT ![v] = accessCount[e] + 1]
  BY <1>2 DEF RecordAccess
<1>4. count'[v] = accessCount[e] + 1 /\ \A x \in Views \ {v} : count'[x] = count[x]
  BY <1>0, <1>3 DEF TypeOK
<1>5. ASSUME NEW c \in Creates PROVE Served(c)' = Served(c)
  BY <1>1 DEF Served
<1>6. OpenUpdateIsNext'
  <2> SUFFICES ASSUME NEW w \in Views, pc'[w] = "recorded", NEW c \in opened[w]
               PROVE  /\ count'[w] = accessCount[c] + 1
                      /\ \A x \in Views : pc'[x] = "recorded" /\ c \in opened[x] => x = w
    BY <1>1 DEF OpenUpdateIsNext
  <2>1. CASE w = v
    <3>1. c = e
      BY <1>2, <2>1
    <3>2. \A x \in Views \ {v} : ~(pc'[x] = "recorded" /\ c \in opened[x])
      BY <1>1, <1>3, <3>1 DEF LinkLocked
    <3>3. QED
      BY <1>4, <2>1, <3>1, <3>2
  <2>2. CASE w # v
    <3>1. pc[w] = "recorded"
      BY <1>1, <2>2
    <3>2. c # e
      BY <1>3, <3>1 DEF LinkLocked
    <3>3. \A x \in Views : pc'[x] = "recorded" /\ c \in opened[x] => pc[x] = "recorded"
      BY <1>1, <1>2, <3>2
    <3>4. count[w] = accessCount[c] + 1 /\ \A x \in Views : pc[x] = "recorded" /\ c \in opened[x] => x = w
      BY <3>1 DEF CountInv, OpenUpdateIsNext
    <3>5. QED
      BY <1>4, <2>2, <3>3, <3>4
  <2>3. QED
    BY <2>1, <2>2
<1>7. QED
  BY <1>1, <1>5, <1>6 DEF CountInv, AccessCountExact, Served

\* The commit publishes what nobody has overtaken.
LEMMA CommitCounts ==
    ASSUME Inv, CountInv, NEW v \in Views, CommitView(v)
    PROVE  CountInv'
<1>0. TypeOK /\ ViewInv(v)
  BY DEF Inv
<1>1. /\ pc[v] = "recorded" /\ pc'[v] = "served"
      /\ \A x \in Views \ {v} : pc'[x] = pc[x]
      /\ UNCHANGED <<opened, count>>
  BY <1>0 DEF CommitView, Goto, TypeOK, Requests, viewVars
<1>2. PICK e \in Creates : opened[v] = {e}
  BY <1>0, <1>1 DEF ViewInv
<1>3. /\ count[v] = accessCount[e] + 1
      /\ \A w \in Views : pc[w] = "recorded" /\ e \in opened[w] => w = v
  BY <1>1, <1>2 DEF CountInv, OpenUpdateIsNext
<1>4. \A c \in Creates : accessCount'[c] = IF c = e THEN accessCount[c] + 1 ELSE accessCount[c]
  BY <1>2, <1>3 DEF CommitView
<1>5. ASSUME NEW c \in Creates PROVE accessCount'[c] = Cardinality(Served(c)')
  <2>1. accessCount[c] = Cardinality(Served(c))
    BY DEF CountInv, AccessCountExact, Served
  <2>2. CASE c = e
    <3>1. Served(c)' = Served(c) \cup {v} /\ v \notin Served(c)
      BY <1>1, <1>2, <2>2 DEF Served
    <3>2. IsFiniteSet(Served(c))
      <4>1. Served(c) \in SUBSET Views
        BY DEF Served
      <4>2. QED
        BY <4>1, FS_Subset
    <3>3. Cardinality(Served(c) \cup {v}) = Cardinality(Served(c)) + 1
      BY <3>1, <3>2, FS_AddElement
    <3>4. QED
      BY <1>4, <2>1, <2>2, <3>1, <3>3
  <2>3. CASE c # e
    <3>1. Served(c)' = Served(c)
      BY <1>1, <1>2, <2>3 DEF Served
    <3>2. QED
      BY <1>4, <2>1, <2>3, <3>1
  <2>4. QED
    BY <2>2, <2>3
<1>6. OpenUpdateIsNext'
  <2> SUFFICES ASSUME NEW w \in Views, pc'[w] = "recorded", NEW c \in opened[w]
               PROVE  /\ count[w] = accessCount'[c] + 1
                      /\ \A x \in Views : pc'[x] = "recorded" /\ c \in opened[x] => x = w
    BY <1>1 DEF OpenUpdateIsNext
  <2>1. w # v /\ pc[w] = "recorded"
    BY <1>1
  <2>2. c # e /\ c \in Creates
    BY <1>0, <1>3, <2>1, OpenedIsLink
  <2>3. accessCount'[c] = accessCount[c]
    BY <1>4, <2>2
  <2>4. \A x \in Views : pc'[x] = "recorded" => pc[x] = "recorded"
    BY <1>1
  <2>5. QED
    BY <2>1, <2>3, <2>4 DEF CountInv, OpenUpdateIsNext
<1>7. QED
  BY <1>5, <1>6 DEF CountInv, AccessCountExact, Served

\* record_access: of viewers that update a link's row at once none loses what
\* another has counted, and access_count is the number of views served.
THEOREM AccessesAreCounted == Spec => []AccessCountExact
<1>1. Init => CountInv
  <2>1. ASSUME Init, NEW c \in Creates PROVE accessCount[c] = Cardinality(Served(c))
    <3>1. Served(c) = {}
      BY <2>1 DEF Init, Served, Requests
    <3>2. QED
      BY <2>1, <3>1, FS_EmptySet DEF Init
  <2>2. Init => OpenUpdateIsNext
    BY DEF Init, OpenUpdateIsNext, Requests
  <2>3. QED
    BY <2>1, <2>2 DEF CountInv, AccessCountExact, Served
<1>2. Inv /\ CountInv /\ [Next]_vars => CountInv'
  BY OthersStay, OthersCount, RecordCounts, CommitCounts
<1>3. CountInv => AccessCountExact
  BY DEF CountInv
<1>4. QED
  BY <1>1, <1>2, <1>3, InvAlways, PTL DEF Spec
=============================================================================
