--------------------------- MODULE SelectionsProofs ---------------------------
(***************************************************************************)
(* What is selected from a sequence: elements of it, all of those that     *)
(* pass the test, each once and in their order.                            *)
(***************************************************************************)
EXTENDS Selections, SequencesExt, FiniteSetTheorems, SequenceTheorems, WellFoundedInduction, TLAPS

\* The places up to one of them; their number tells it from the others.
UpTo(I, i) == {j \in I : j <= i}

LEMMA Ranks ==
    ASSUME NEW n \in Nat, NEW I \in SUBSET (1..n)
    PROVE  /\ IsFiniteSet(I) /\ Cardinality(I) \in Nat
           /\ \A i \in I : IsFiniteSet(UpTo(I, i)) /\ Cardinality(UpTo(I, i)) \in 1..Cardinality(I)
           /\ \A i \in I, j \in I : i < j => Cardinality(UpTo(I, i)) < Cardinality(UpTo(I, j))
<1>1. IsFiniteSet(I) /\ Cardinality(I) \in Nat
  <2>1. IsFiniteSet(1..n)
    BY FS_Interval
  <2> QED
    BY <2>1, FS_Subset, FS_CardinalityType
<1>2. ASSUME NEW i \in I
      PROVE  IsFiniteSet(UpTo(I, i)) /\ Cardinality(UpTo(I, i)) \in 1..Cardinality(I)
  <2>1. UpTo(I, i) \in SUBSET I /\ i \in UpTo(I, i)
    BY DEF UpTo
  <2>2. /\ IsFiniteSet(UpTo(I, i)) /\ Cardinality(UpTo(I, i)) \in Nat
        /\ Cardinality(UpTo(I, i)) <= Cardinality(I)
    BY <1>1, <2>1, FS_Subset, FS_CardinalityType
  <2>3. Cardinality(UpTo(I, i)) # 0
    BY <2>1, <2>2, FS_EmptySet
  <2> QED
    BY <1>1, <2>2, <2>3
<1>3. ASSUME NEW i \in I, NEW j \in I, i < j
      PROVE  Cardinality(UpTo(I, i)) < Cardinality(UpTo(I, j))
  <2>0. i \in Nat /\ j \in Nat
    OBVIOUS
  <2>1. UpTo(I, i) \in SUBSET UpTo(I, j) /\ j \in UpTo(I, j) /\ j \notin UpTo(I, i)
    <3>1. ASSUME NEW k \in I, k <= i PROVE k <= j
      <4>1. k \in Nat
        OBVIOUS
      <4> QED
        BY <1>3, <2>0, <3>1, <4>1
    <3>2. j <= j /\ ~(j <= i)
      BY <1>3, <2>0
    <3>3. UpTo(I, i) \in SUBSET UpTo(I, j)
      BY <3>1 DEF UpTo
    <3> QED
      BY <3>2, <3>3 DEF UpTo
  <2>2. /\ Cardinality(UpTo(I, i)) \in Nat /\ Cardinality(UpTo(I, j)) \in Nat
        /\ Cardinality(UpTo(I, i)) <= Cardinality(UpTo(I, j))
    BY <1>1, <1>2, <2>1, FS_Subset
  <2>3. Cardinality(UpTo(I, i)) # Cardinality(UpTo(I, j))
    BY <1>2, <2>1, FS_Subset
  <2> QED
    BY <2>2, <2>3
<1> QED
  BY <1>1, <1>2, <1>3

\* Two places of one rank are one place.
LEMMA RanksDiffer ==
    ASSUME NEW n \in Nat, NEW I \in SUBSET (1..n), NEW i \in I, NEW j \in I,
           Cardinality(UpTo(I, i)) = Cardinality(UpTo(I, j))
    PROVE  i = j
<1>1. i \in Nat /\ j \in Nat /\ Cardinality(I) \in Nat
  <2>1. i \in Nat /\ j \in Nat
    OBVIOUS
  <2> QED
    BY <2>1, Ranks
<1>2. Cardinality(UpTo(I, i)) \in 1..Cardinality(I) /\ Cardinality(UpTo(I, j)) \in 1..Cardinality(I)
  BY Ranks
<1>3. CASE i < j
  <2>1. Cardinality(UpTo(I, i)) < Cardinality(UpTo(I, j))
    BY <1>3, Ranks
  <2> QED
    BY <1>1, <1>2, <2>1
<1>4. CASE j < i
  <2>1. Cardinality(UpTo(I, j)) < Cardinality(UpTo(I, i))
    BY <1>4, Ranks
  <2> QED
    BY <1>1, <1>2, <2>1
<1> QED
  BY <1>1, <1>3, <1>4

\* Every rank up to the number of places is that of one of them.
LEMMA RankedPlace ==
    ASSUME NEW n \in Nat, NEW I \in SUBSET (1..n), NEW k \in 1..Cardinality(I)
    PROVE  Ranked(I, k) \in I /\ Cardinality(UpTo(I, Ranked(I, k))) = k
<1> DEFINE rank == [i \in I |-> Cardinality(UpTo(I, i))]
           c == Cardinality(I)
<1>1. IsFiniteSet(I) /\ c \in Nat
  BY Ranks
<1>2. IsFiniteSet(1..c) /\ Cardinality(1..c) = c
  BY <1>1, FS_Interval
<1>3. rank \in Injection(I, 1..c)
  <2>1. rank \in [I -> 1..c]
    BY Ranks
  <2>2. ASSUME NEW i \in I, NEW j \in I, rank[i] = rank[j] PROVE i = j
    <3>1. Cardinality(UpTo(I, i)) = Cardinality(UpTo(I, j))
      BY <2>2
    <3> QED
      BY <3>1, RanksDiffer
  <2> QED
    BY <2>1, <2>2 DEF Injection, IsInjective
<1> HIDE DEF c
<1>4. rank \in Surjection(I, 1..c)
  BY <1>2, <1>3, FS_Injection DEF c
<1>5. \E i \in I : rank[i] = k
  BY <1>4 DEF Surjection, c
<1>6. \E i \in I : Cardinality({j \in I : j <= i}) = k
  BY <1>5 DEF UpTo
<1> QED
  BY <1>6 DEF Ranked, UpTo

\* Ranks keep the order of the places, and reach them all.
LEMMA RankedOrder ==
    ASSUME NEW n \in Nat, NEW I \in SUBSET (1..n)
    PROVE  /\ \A k, l \in 1..Cardinality(I) : k < l => Ranked(I, k) < Ranked(I, l)
           /\ \A i \in I : \E k \in 1..Cardinality(I) : Ranked(I, k) = i
<1>1. Cardinality(I) \in Nat
  BY Ranks
<1>2. ASSUME NEW k \in 1..Cardinality(I), NEW l \in 1..Cardinality(I), k < l
      PROVE  Ranked(I, k) < Ranked(I, l)
  <2> DEFINE i == Ranked(I, k)
             j == Ranked(I, l)
  <2>1. i \in I /\ Cardinality(UpTo(I, i)) = k /\ j \in I /\ Cardinality(UpTo(I, j)) = l
    BY RankedPlace
  <2> HIDE DEF i, j
  <2>2. i \in Nat /\ j \in Nat /\ k \in Nat /\ l \in Nat
    BY <1>1, <2>1
  <2>3. i # j
    BY <1>2, <2>1, <2>2
  <2>4. ~(j < i)
    <3>1. j < i => l < k
      BY <2>1, Ranks
    <3> QED
      BY <1>2, <2>2, <3>1
  <2>5. i < j
    BY <2>2, <2>3, <2>4
  <2> QED
    BY <2>5 DEF i, j
<1>3. ASSUME NEW i \in I PROVE \E k \in 1..Cardinality(I) : Ranked(I, k) = i
  <2>1. Cardinality(UpTo(I, i)) \in 1..Cardinality(I)
    BY Ranks
  <2>2. PICK k \in 1..Cardinality(I) : k = Cardinality(UpTo(I, i))
    BY <2>1
  <2>3. Ranked(I, k) \in I /\ Cardinality(UpTo(I, Ranked(I, k))) = k
    BY RankedPlace
  <2> QED
    BY <2>2, <2>3, RanksDiffer
<1> QED
  BY <1>2, <1>3

\* What is at some places of a sequence.
LEMMA AtPlaces ==
    ASSUME NEW S, NEW s \in Seq(S), NEW I \in SUBSET DOMAIN s
    PROVE  /\ At(s, I) \in Seq({s[i] : i \in I})
           /\ Len(At(s, I)) = Cardinality(I)
           /\ Cardinality(I) \in Nat
           /\ \A k \in 1..Cardinality(I) : Ranked(I, k) \in I /\ At(s, I)[k] = s[Ranked(I, k)]
           /\ \A k, l \in 1..Cardinality(I) : k < l => Ranked(I, k) < Ranked(I, l)
           /\ \A i \in I : \E k \in 1..Cardinality(I) : At(s, I)[k] = s[i]
<1> DEFINE c == Cardinality(I)
           t == At(s, I)
           n == Len(s)
<1>1. n \in Nat /\ I \in SUBSET (1..n)
  OBVIOUS
<1>2. c \in Nat
  BY <1>1, Ranks
<1>3. \A k \in 1..c : Ranked(I, k) \in I
  BY <1>1, RankedPlace
<1>4. /\ \A k, l \in 1..c : k < l => Ranked(I, k) < Ranked(I, l)
      /\ \A i \in I : \E k \in 1..c : Ranked(I, k) = i
  BY <1>1, RankedOrder
<1> HIDE DEF c
<1>5. t = [k \in 1..c |-> s[Ranked(I, k)]]
  BY DEF At, c
<1> HIDE DEF t
<1>6. t \in Seq({s[i] : i \in I}) /\ Len(t) = c
  BY <1>2, <1>3, <1>5
<1>7. \A k \in 1..c : t[k] = s[Ranked(I, k)]
  BY <1>5
<1>8. \A i \in I : \E k \in 1..c : t[k] = s[i]
  BY <1>4, <1>7
<1> QED
  BY <1>2, <1>3, <1>4, <1>6, <1>7, <1>8 DEF c, t

\* Of places that hold different things nothing is taken twice.
LEMMA AtDistinct ==
    ASSUME NEW S, NEW s \in Seq(S), NEW I \in SUBSET DOMAIN s,
           \A i, j \in I : i < j => s[i] # s[j]
    PROVE  \A k, l \in 1..Len(At(s, I)) : At(s, I)[k] = At(s, I)[l] => k = l
<1> DEFINE c == Cardinality(I)
<1>1. /\ c \in Nat /\ Len(At(s, I)) = c
      /\ \A k \in 1..c : Ranked(I, k) \in I /\ At(s, I)[k] = s[Ranked(I, k)]
      /\ \A k, l \in 1..c : k < l => Ranked(I, k) < Ranked(I, l)
  BY AtPlaces
<1> HIDE DEF c
<1>2. \A k, l \in 1..c : k < l => At(s, I)[k] # At(s, I)[l]
  BY <1>1
<1> QED
  BY <1>1, <1>2

---------------------------------------------------------------------------
\* Sequences, whatever their elements are.

LEMMA ListLength == ASSUME NEW s, List(s) PROVE Len(s) \in Nat /\ DOMAIN s = 1..Len(s)
BY DEF List

LEMMA FunctionIsList ==
    ASSUME NEW n \in Nat, NEW f, f = [i \in 1..n |-> f[i]]
    PROVE  List(f) /\ Len(f) = n
<1>1. f \in Seq({f[i] : i \in DOMAIN f}) /\ Len(f) = n
  OBVIOUS
<1> QED
  BY <1>1 DEF List

\* A sequence of anything is a list.
LEMMA SeqIsList == ASSUME NEW S, NEW s \in Seq(S) PROVE List(s)
BY SeqOfRange DEF List, Range

LEMMA ListAt ==
    ASSUME NEW s, List(s), NEW I \in SUBSET DOMAIN s
    PROVE  List(At(s, I)) /\ \A k \in DOMAIN At(s, I) : \E i \in I : At(s, I)[k] = s[i]
<1> DEFINE t == At(s, I)
           S == {s[i] : i \in DOMAIN s}
<1>1. s \in Seq(S)
  BY DEF List
<1>2. /\ t \in Seq({s[i] : i \in I})
      /\ Len(t) = Cardinality(I)
      /\ \A k \in 1..Cardinality(I) : Ranked(I, k) \in I /\ t[k] = s[Ranked(I, k)]
  BY <1>1, AtPlaces
<1> HIDE DEF t
<1>3. List(t) /\ DOMAIN t = 1..Cardinality(I)
  BY <1>2, SeqIsList
<1> QED
  BY <1>2, <1>3 DEF t

LEMMA ListFirsts ==
    ASSUME NEW s, List(s)
    PROVE  LET t == At(s, FirstPlaces(s)) IN
           /\ List(t) /\ \A k \in DOMAIN t : \E i \in DOMAIN s : t[k] = s[i]
           /\ \A k, l \in DOMAIN t : t[k] = t[l] => k = l
<1> DEFINE t == At(s, FirstPlaces(s))
           S == {s[i] : i \in DOMAIN s}
<1>1. s \in Seq(S) /\ DOMAIN s = 1..Len(s) /\ Len(s) \in Nat
  BY DEF List
<1>2. FirstPlaces(s) \in SUBSET DOMAIN s
  BY DEF FirstPlaces
<1>3. ASSUME NEW i \in FirstPlaces(s), NEW j \in FirstPlaces(s), i < j PROVE s[i] # s[j]
  <2>1. i \in 1..(j - 1)
    BY <1>1, <1>2, <1>3
  <2> QED
    BY <2>1 DEF FirstPlaces
<1>4. List(t) /\ \A k \in DOMAIN t : \E i \in FirstPlaces(s) : t[k] = s[i]
  BY <1>2, ListAt
<1>5. \A k, l \in 1..Len(t) : t[k] = t[l] => k = l
  BY <1>1, <1>2, <1>3, AtDistinct
<1> HIDE DEF t
<1> QED
  BY <1>2, <1>4, <1>5, ListLength DEF t

LEMMA ListConcat ==
    ASSUME NEW a, NEW b, List(a), List(b)
    PROVE  LET t == a \o b IN
           /\ List(t) /\ Len(t) = Len(a) + Len(b)
           /\ \A k \in DOMAIN t : (\E i \in DOMAIN a : t[k] = a[i]) \/ (\E i \in DOMAIN b : t[k] = b[i])
           /\ \A k \in DOMAIN a : t[k] = a[k]
           /\ \A k \in DOMAIN b : t[Len(a) + k] = b[k]
<1> DEFINE A == {a[i] : i \in DOMAIN a}
           B == {b[i] : i \in DOMAIN b}
           t == a \o b
<1>1. a \in Seq(A) /\ b \in Seq(B)
  BY DEF List
<1>2. a \in Seq(A \cup B) /\ b \in Seq(A \cup B)
  BY <1>1
<1>3. t \in Seq(A \cup B) /\ Len(t) = Len(a) + Len(b) /\ DOMAIN a = 1..Len(a) /\ DOMAIN b = 1..Len(b)
      /\ Len(a) \in Nat /\ Len(b) \in Nat
  BY <1>2
<1>4. /\ \A k \in 1..Len(a) : t[k] = a[k]
      /\ \A k \in (Len(a) + 1)..(Len(a) + Len(b)) : t[k] = b[k - Len(a)]
  BY <1>2
<1> HIDE DEF t
<1>5. List(t) /\ DOMAIN t = 1..(Len(a) + Len(b))
  BY <1>3, SeqIsList
<1>6. ASSUME NEW k \in DOMAIN t PROVE (\E i \in DOMAIN a : t[k] = a[i]) \/ (\E i \in DOMAIN b : t[k] = b[i])
  <2>1. CASE k <= Len(a)
    BY <1>3, <1>4, <1>5, <2>1
  <2>2. CASE ~(k <= Len(a))
    <3>1. k - Len(a) \in DOMAIN b /\ t[k] = b[k - Len(a)]
      BY <1>3, <1>4, <1>5, <2>2
    <3> QED
      BY <3>1
  <2> QED
    BY <2>1, <2>2
<1>7. ASSUME NEW k \in DOMAIN b PROVE t[Len(a) + k] = b[k]
  <2>1. Len(a) + k \in (Len(a) + 1)..(Len(a) + Len(b)) /\ Len(a) + k - Len(a) = k
    BY <1>3
  <2> QED
    BY <1>4, <2>1
<1> QED
  BY <1>3, <1>4, <1>5, <1>6, <1>7 DEF t

LEMMA ListOfOne == ASSUME NEW x PROVE List(<<x>>) /\ Len(<<x>>) = 1 /\ DOMAIN <<x>> = {1} /\ <<x>>[1] = x
<1>1. <<x>> \in Seq({x}) /\ DOMAIN <<x>> = 1..1
  OBVIOUS
<1>2. List(<<x>>)
  BY <1>1, SeqIsList
<1> QED
  BY <1>2

LEMMA EmptyList == List(<< >>) /\ Len(<< >>) = 0 /\ DOMAIN << >> = {}
BY DEF List

\* Appending to a list gives a list with one element more.
LEMMA AppendList ==
    ASSUME NEW s, NEW x, List(s)
    PROVE  /\ List(Append(s, x))
           /\ Len(Append(s, x)) = Len(s) + 1
           /\ DOMAIN Append(s, x) = 1..(Len(s) + 1)
           /\ \A i \in 1..Len(s) : Append(s, x)[i] = s[i]
           /\ Append(s, x)[Len(s) + 1] = x
<1> DEFINE S == {s[i] : i \in DOMAIN s} \cup {x}
           t == Append(s, x)
<1>1. s \in Seq(S)
  BY DEF List
<1>2. /\ t \in Seq(S)
      /\ Len(t) = Len(s) + 1
      /\ \A i \in 1..Len(s) : t[i] = s[i]
      /\ t[Len(s) + 1] = x
  BY <1>1
<1>3. DOMAIN t = 1..(Len(s) + 1) /\ Len(s) \in Nat
  BY <1>1, <1>2
<1>4. List(t)
  BY <1>2, SeqOfRange DEF List, Range
<1> QED
  BY <1>2, <1>3, <1>4

\* The first of a list is an element of it, or what follows an empty one.
LEMMA HeadOr ==
    ASSUME NEW s, NEW x, List(s)
    PROVE  Head(s \o <<x>>) = x \/ \E i \in DOMAIN s : Head(s \o <<x>>) = s[i]
<1> DEFINE t == s \o <<x>>
<1>1. /\ List(t) /\ Len(t) = Len(s) + 1
      /\ \A k \in DOMAIN t : (\E i \in DOMAIN s : t[k] = s[i]) \/ (\E i \in DOMAIN <<x>> : t[k] = <<x>>[i])
  BY ListOfOne, ListConcat
<1>2. Len(s) \in Nat
  BY ListLength
<1>3. \A k \in DOMAIN t : (\E i \in DOMAIN s : t[k] = s[i]) \/ t[k] = x
  BY <1>1, ListOfOne
<1> HIDE DEF t
<1>4. 1 \in DOMAIN t /\ Head(t) = t[1]
  BY <1>1, <1>2, ListLength
<1>5. (\E i \in DOMAIN s : Head(t) = s[i]) \/ Head(t) = x
  BY <1>3, <1>4
<1> QED
  BY <1>5 DEF t

LEMMA FourOf ==
    ASSUME NEW a, NEW b, NEW c, NEW d
    PROVE  LET o == <<a, b, c, d>> IN
           /\ DOMAIN o = 1..4 /\ Len(o) = 4 /\ List(o)
           /\ o[1] = a /\ o[2] = b /\ o[3] = c /\ o[4] = d
<1> DEFINE o == <<a, b, c, d>>
<1>1. o \in Seq({a, b, c, d})
  OBVIOUS
<1>2. List(o)
  BY <1>1, SeqIsList
<1> QED
  BY <1>2

---------------------------------------------------------------------------
\* A nonempty set of numbers has a least element.
LEMMA Least ==
    ASSUME NEW T \in SUBSET Nat, T # {}
    PROVE  \E x \in T : \A y \in T : x <= y
<1> DEFINE R == OpToRel(<, Nat)
<1>1. IsWellFoundedOn(R, Nat)
  BY NatLessThanWellFounded
<1>2. \A x, y \in Nat : <<x, y>> \in R <=> x < y
  BY DEF OpToRel
<1> HIDE DEF R
<1>3. \E x \in T : \A y \in T : ~(<<y, x>> \in R)
  BY <1>1, WFMin
<1>4. PICK x \in T : \A y \in T : ~(<<y, x>> \in R)
  BY <1>3
<1>5. x \in Nat /\ \A y \in T : y \in Nat /\ ~(y < x)
  BY <1>2, <1>4
<1>6. \A y \in T : x <= y
  BY <1>5
<1> QED
  BY <1>4, <1>6

\* A function on 1..n defined from its own earlier values exists: each value from
\* the one before by joining a list.
Joins(f, ss, n) == f = [i \in 1..n |-> IF i = 1 THEN ss[i] ELSE f[i - 1] \o ss[i]]

LEMMA JoinsExists == ASSUME NEW ss, NEW n \in Nat PROVE \E f : Joins(f, ss, n)
<1> DEFINE T == {m \in Nat : ~ \E f : Joins(f, ss, m)}
<1>1. SUFFICES ASSUME T # {} PROVE FALSE
  OBVIOUS
<1>2. PICK m \in T : \A y \in T : m <= y
  <2> HIDE DEF T
  <2>1. T \in SUBSET Nat
    BY DEF T
  <2> QED
    BY <1>1, <2>1, Least
<1>3. m # 0
  <2>1. Joins([i \in 1..0 |-> << >>], ss, 0)
    BY DEF Joins
  <2> QED
    BY <2>1
<1>4. m - 1 \in Nat /\ m - 1 \notin T
  BY <1>2, <1>3
<1>5. PICK g : Joins(g, ss, m - 1)
  BY <1>4
<1> DEFINE f == [i \in 1..m |-> IF i = m THEN IF i = 1 THEN ss[i] ELSE g[i - 1] \o ss[i] ELSE g[i]]
           h == [i \in 1..m |-> IF i = 1 THEN ss[i] ELSE f[i - 1] \o ss[i]]
<1>6. ASSUME NEW i \in 1..m PROVE f[i] = h[i]
  <2>1. CASE i = 1 /\ m = 1
    BY <2>1
  <2>2. CASE i = 1 /\ m # 1
    <3>1. 1 \in 1..(m - 1) /\ f[i] = g[1] /\ h[i] = ss[1]
      BY <1>4, <2>2
    <3>2. g[1] = ss[1]
      BY <1>5, <3>1 DEF Joins
    <3> QED
      BY <2>2, <3>1, <3>2
  <2>3. CASE i # 1 /\ i = m
    <3>1. i - 1 \in 1..m /\ i - 1 # m
      BY <1>4, <2>3
    <3>2. f[i - 1] = g[i - 1]
      BY <3>1
    <3> QED
      BY <2>3, <3>2
  <2>4. CASE i # 1 /\ i # m
    <3>1. i - 1 \in 1..m /\ i - 1 # m /\ i \in 1..(m - 1)
      BY <1>4, <2>4
    <3>2. f[i - 1] = g[i - 1] /\ f[i] = g[i]
      BY <2>4, <3>1
    <3>3. g[i] = g[i - 1] \o ss[i]
      BY <1>5, <2>4, <3>1 DEF Joins
    <3> QED
      BY <2>4, <3>2, <3>3
  <2> QED
    BY <2>1, <2>2, <2>3, <2>4
<1>7. f = h
  BY <1>6
<1>8. Joins(f, ss, m)
  BY <1>7 DEF Joins
<1> QED
  BY <1>8

\* What is in a flattened list is in one of its parts, and the other way round.
Flattened(t, ss, n) ==
  /\ List(t)
  /\ \A k \in DOMAIN t : \E i \in 1..n : \E j \in DOMAIN ss[i] : t[k] = ss[i][j]
  /\ \A i \in 1..n : \A j \in DOMAIN ss[i] : \E k \in DOMAIN t : t[k] = ss[i][j]

LEMMA JoinsFlatten ==
    ASSUME NEW ss, NEW n \in Nat, \A i \in 1..n : List(ss[i]), NEW f, Joins(f, ss, n)
    PROVE  \A i \in 1..n : Flattened(f[i], ss, i)
<1> DEFINE T == {m \in 1..n : ~Flattened(f[m], ss, m)}
<1>1. SUFFICES ASSUME T # {} PROVE FALSE
  OBVIOUS
<1>2. PICK m \in T : \A y \in T : m <= y
  <2> HIDE DEF T
  <2>1. T \in SUBSET Nat
    BY DEF T
  <2> QED
    BY <1>1, <2>1, Least
<1>3. m \in 1..n /\ ~Flattened(f[m], ss, m) /\ List(ss[m])
  OBVIOUS
<1>4. CASE m = 1
  <2>1. f[m] = ss[m]
    BY <1>3, <1>4 DEF Joins
  <2> QED
    BY <1>3, <1>4, <2>1 DEF Flattened
<1>5. CASE m # 1
  <2> DEFINE a == f[m - 1]
             b == ss[m]
             t == a \o b
  <2>1. m - 1 \in 1..n /\ m - 1 \notin T
    BY <1>2, <1>3, <1>5
  <2>2. Flattened(a, ss, m - 1)
    BY <2>1
  <2>3. f[m] = t
    BY <1>3, <1>5 DEF Joins
  <2> HIDE DEF T
  <2>4. List(a) /\ List(b)
    BY <1>3, <2>2 DEF Flattened
  <2> HIDE DEF a, b
  <2>5a. List(t) /\ Len(t) = Len(a) + Len(b)
    BY <2>4, ListConcat
  <2>5b. \A k \in DOMAIN t : (\E i \in DOMAIN a : t[k] = a[i]) \/ (\E i \in DOMAIN b : t[k] = b[i])
    BY <2>4, ListConcat
  <2>5c. \A k \in DOMAIN a : t[k] = a[k]
    BY <2>4, ListConcat
  <2>5d. \A k \in DOMAIN b : t[Len(a) + k] = b[k]
    BY <2>4, ListConcat
  <2>5. /\ List(t) /\ Len(t) = Len(a) + Len(b)
        /\ \A k \in DOMAIN t : (\E i \in DOMAIN a : t[k] = a[i]) \/ (\E i \in DOMAIN b : t[k] = b[i])
        /\ \A k \in DOMAIN a : t[k] = a[k]
        /\ \A k \in DOMAIN b : t[Len(a) + k] = b[k]
    BY <2>5a, <2>5b, <2>5c, <2>5d
  <2>6. Len(a) \in Nat /\ Len(b) \in Nat /\ DOMAIN a = 1..Len(a) /\ DOMAIN b = 1..Len(b)
        /\ DOMAIN t = 1..Len(t)
    BY <2>4, <2>5, ListLength
  <2> HIDE DEF t
  <2>7. ASSUME NEW k \in DOMAIN t PROVE \E i \in 1..m : \E j \in DOMAIN ss[i] : t[k] = ss[i][j]
    <3>1. CASE \E i \in DOMAIN a : t[k] = a[i]
      <4>1. \E i \in 1..(m - 1) : \E j \in DOMAIN ss[i] : t[k] = ss[i][j]
        BY <2>2, <3>1 DEF Flattened
      <4> QED
        BY <1>3, <4>1
    <3>2. CASE \E i \in DOMAIN b : t[k] = b[i]
      BY <1>3, <3>2 DEF b
    <3> QED
      BY <2>5, <3>1, <3>2
  <2>8. ASSUME NEW i \in 1..m, NEW j \in DOMAIN ss[i] PROVE \E k \in DOMAIN t : t[k] = ss[i][j]
    <3>1. CASE i = m
      <4>1. Len(a) + j \in DOMAIN t /\ t[Len(a) + j] = b[j]
        BY <2>5, <2>6, <3>1 DEF b
      <4> QED
        BY <3>1, <4>1 DEF b
    <3>2. CASE i # m
      <4>1. i \in 1..(m - 1)
        BY <1>3, <3>2
      <4>2. PICK k \in DOMAIN a : a[k] = ss[i][j]
        BY <2>2, <4>1 DEF Flattened
      <4>3. k \in DOMAIN t /\ t[k] = a[k]
        BY <2>5, <2>6
      <4> QED
        BY <4>2, <4>3
    <3> QED
      BY <3>1, <3>2
  <2>9. Flattened(t, ss, m)
    BY <2>5, <2>7, <2>8 DEF Flattened
  <2> QED
    BY <1>3, <2>3, <2>9
<1> QED
  BY <1>4, <1>5

LEMMA ListFlatten ==
    ASSUME NEW ss, List(ss), \A i \in DOMAIN ss : List(ss[i])
    PROVE  LET t == FlattenSeq(ss) IN
           /\ List(t)
           /\ \A k \in DOMAIN t : \E i \in DOMAIN ss : \E j \in DOMAIN ss[i] : t[k] = ss[i][j]
           /\ \A i \in DOMAIN ss : \A j \in DOMAIN ss[i] : \E k \in DOMAIN t : t[k] = ss[i][j]
<1> DEFINE n == Len(ss)
           flatten == CHOOSE f : f = [i \in 1..n |-> IF i = 1 THEN ss[i] ELSE f[i - 1] \o ss[i]]
<1>1. n \in Nat /\ DOMAIN ss = 1..n
  BY ListLength
<1>2. CASE n = 0
  <2>1. FlattenSeq(ss) = ss
    BY <1>2 DEF FlattenSeq
  <2> QED
    BY <1>1, <1>2, <2>1
<1>3. CASE n # 0
  <2>1. FlattenSeq(ss) = flatten[n]
    BY <1>3 DEF FlattenSeq
  <2>2. Joins(flatten, ss, n)
    <3>1. \E f : f = [i \in 1..n |-> IF i = 1 THEN ss[i] ELSE f[i - 1] \o ss[i]]
      BY <1>1, JoinsExists DEF Joins
    <3> QED
      BY <3>1 DEF Joins
  <2> HIDE DEF flatten
  <2>3. Flattened(flatten[n], ss, n)
    <3>1. n \in 1..n
      BY <1>1, <1>3
    <3> QED
      BY <1>1, <2>2, <3>1, JoinsFlatten
  <2> QED
    BY <1>1, <2>1, <2>3 DEF Flattened
<1> QED
  BY <1>2, <1>3
=============================================================================
