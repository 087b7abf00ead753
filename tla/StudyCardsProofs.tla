-------------------------- MODULE StudyCardsProofs --------------------------
(***************************************************************************)
(* Proofs about StudyCards, for every set of sections and every order of   *)
(* the hashes.                                                             *)
(*                                                                         *)
(* Every generator, applied to a concept's text, makes cards of this       *)
(* concept that ask for no formula (MadeFor), and keeping one card per     *)
(* question leaves them so (UniqueCards).  Hence the cards of an outcome   *)
(* are those of its concepts (InOutcome) whatever is added to bring it to  *)
(* its minimum, and it ends with ten questions or with its cards marked    *)
(* (OutcomeDelivered).                                                     *)
(*                                                                         *)
(* IInv is the inductive invariant: what is repaired was made for concepts *)
(* of outcomes that had their turn, no concept is asked about more than 24 *)
(* things, an outcome has ten questions or marked cards, and the deck,     *)
(* once there is one, asks all that was repaired and every formula, and    *)
(* nothing twice (Complete).                                               *)
(***************************************************************************)
EXTENDS StudyCards, SelectionsProofs

---------------------------------------------------------------------------
\* Lists: their first elements, the elements selected, joined lists.

\* Every element of t is one of s.
Within(t, s) == \A k \in DOMAIN t : \E i \in DOMAIN s : t[k] = s[i]

LEMMA ListFirstN ==
    ASSUME NEW s, List(s), NEW n \in Nat
    PROVE  LET t == FirstN(s, n) IN
           /\ List(t) /\ Len(t) <= n /\ Len(t) <= Len(s)
           /\ Len(s) <= n => Len(t) = Len(s)
           /\ \A k \in DOMAIN t : k \in DOMAIN s /\ t[k] = s[k]
<1> DEFINE S == {s[i] : i \in DOMAIN s}
           m == IF Len(s) < n THEN Len(s) ELSE n
           t == SubSeq(s, 1, m)
           l == Len(s)
<1>1. s \in Seq(S) /\ Len(s) = l /\ l \in Nat /\ DOMAIN s = 1..l
  BY ListLength DEF List
<1> HIDE DEF S, l
<1>2. m \in Nat /\ m <= n /\ m <= Len(s) /\ (Len(s) <= n => m = Len(s))
  BY <1>1 DEF m
<1> HIDE DEF m
<1>3. t = [k \in 1..m |-> s[k]]
  BY <1>1, <1>2
<1> HIDE DEF t
<1>4. List(t) /\ Len(t) = m
  BY <1>2, <1>3, FunctionIsList
<1>5. \A k \in DOMAIN t : k \in DOMAIN s /\ t[k] = s[k]
  BY <1>1, <1>2, <1>3
<1>6. FirstN(s, n) = t
  BY DEF FirstN, t, m
<1> QED
  BY <1>2, <1>4, <1>5, <1>6

\* Every element of t is one of a or one of b.
FromEither(t, a, b) ==
  \A k \in DOMAIN t : (\E i \in DOMAIN a : t[k] = a[i]) \/ (\E i \in DOMAIN b : t[k] = b[i])

LEMMA WithinConcat == ASSUME NEW a, NEW b, List(a), List(b) PROVE FromEither(a \o b, a, b)
BY ListConcat DEF FromEither

\* A function on the places of a list is a list of the same length.
LEMMA ListMapped ==
    ASSUME NEW s, List(s), NEW t, t = [i \in DOMAIN s |-> t[i]]
    PROVE  List(t) /\ Len(t) = Len(s) /\ DOMAIN t = DOMAIN s
<1>1. Len(s) \in Nat /\ DOMAIN s = 1..Len(s)
  BY ListLength
<1>2. List(t) /\ Len(t) = Len(s)
  BY <1>1, FunctionIsList
<1> QED
  BY <1>1, <1>2

LEMMA ListDeduped ==
    ASSUME NEW s, List(s)
    PROVE  LET t == Deduped(s) IN
           /\ List(t) /\ Within(t, s)
           /\ \A k, l \in DOMAIN t : t[k] = t[l] => k = l
BY ListFirsts DEF Deduped, Within

---------------------------------------------------------------------------
\* Cards.  Only a formula's card asks for a formula, and for its own.
IsCard(x) ==
  /\ x = [id |-> x.id, asks |-> x.asks, score |-> x.score, concept |-> x.concept,
          link |-> x.link, outcome |-> x.outcome, generic |-> x.generic, thin |-> x.thin,
          fit |-> x.fit]
  /\ x.score \in 0..4
  /\ x.asks.formula # "none" => x.id.of = x.asks.formula /\ x.id.kind = "formula"

IsDeck(s) == List(s) /\ \A i \in DOMAIN s : IsCard(s[i])

\* No question is asked twice.
Apart(s) == \A i, j \in DOMAIN s : s[i].asks = s[j].asks => i = j

\* There is a best card among some.
LEMMA BestOf ==
    ASSUME NEW valid, IsDeck(valid), NEW some \in SUBSET DOMAIN valid, some # {}
    PROVE  Best(valid, some) \in some
<1>1. DOMAIN valid = 1..Len(valid) /\ Len(valid) \in Nat
  BY ListLength DEF IsDeck
<1>2. \A j \in some : j \in Nat /\ valid[j].score \in 0..4
  BY <1>1 DEF IsDeck, IsCard
<1> DEFINE T == {4 - valid[j].score : j \in some}
<1>3. PICK m \in T : \A y \in T : m <= y
  <2>1. T \in SUBSET Nat
    BY <1>2
  <2>2. T # {}
    OBVIOUS
  <2> HIDE DEF T
  <2> QED
    BY <2>1, <2>2, Least
<1> DEFINE U == {j \in some : 4 - valid[j].score = m}
<1>4. PICK j \in U : \A y \in U : j <= y
  <2>1. U \in SUBSET Nat
    BY <1>2
  <2>2. U # {}
    OBVIOUS
  <2> HIDE DEF U
  <2> QED
    BY <2>1, <2>2, Least
<1>5. j \in some /\ 4 - valid[j].score = m
  BY <1>4
<1>6. ASSUME NEW k \in some
      PROVE  valid[k].score < valid[j].score \/ (valid[k].score = valid[j].score /\ j <= k)
  <2>1. 4 - valid[k].score \in T
    OBVIOUS
  <2>2. m <= 4 - valid[k].score
    BY <1>3, <2>1
  <2>3. CASE 4 - valid[k].score = m
    <3>1. j <= k
      BY <1>4, <2>3
    <3>2. valid[k].score = valid[j].score
      BY <1>2, <1>5, <2>3
    <3> QED
      BY <3>1, <3>2
  <2>4. CASE 4 - valid[k].score # m
    <3>1. valid[k].score \in Int /\ valid[j].score \in Int
      BY <1>2, <1>5
    <3> HIDE DEF T, U
    <3> QED
      BY <1>5, <2>2, <2>4, <3>1
  <2> QED
    BY <2>3, <2>4
<1> HIDE DEF T, U
<1>7. \E i \in some : \A k \in some : \/ valid[k].score < valid[i].score
                                      \/ valid[k].score = valid[i].score /\ i <= k
  BY <1>5, <1>6
<1> QED
  BY <1>7 DEF Best

\* A list of a set's places: every place is one of the list's.
LEMMA AtAll ==
    ASSUME NEW s, List(s), NEW I \in SUBSET DOMAIN s
    PROVE  /\ List(At(s, I)) /\ Len(At(s, I)) <= Len(s)
           /\ \A k \in DOMAIN At(s, I) : \E i \in I : At(s, I)[k] = s[i]
           /\ \A i \in I : \E k \in DOMAIN At(s, I) : At(s, I)[k] = s[i]
           /\ \A k \in DOMAIN At(s, I) : Ranked(I, k) \in I /\ At(s, I)[k] = s[Ranked(I, k)]
           /\ \A k, l \in DOMAIN At(s, I) : Ranked(I, k) = Ranked(I, l) => k = l
<1> DEFINE S == {s[i] : i \in DOMAIN s}
           c == Cardinality(I)
           t == At(s, I)
           n == Len(s)
<1>1. s \in Seq(S) /\ Len(s) = n /\ n \in Nat /\ DOMAIN s = 1..n
  BY ListLength DEF List
<1> HIDE DEF n
<1>2. /\ t \in Seq({s[i] : i \in I}) /\ Len(t) = c /\ c \in Nat
      /\ \A k \in 1..c : Ranked(I, k) \in I /\ t[k] = s[Ranked(I, k)]
      /\ \A k, l \in 1..c : k < l => Ranked(I, k) < Ranked(I, l)
      /\ \A i \in I : \E k \in 1..c : t[k] = s[i]
  BY <1>1, AtPlaces
<1>3. c <= Len(s)
  <2>1. IsFiniteSet(1..n) /\ Cardinality(1..n) = n
    BY <1>1, FS_Interval
  <2> QED
    BY <1>1, <2>1, FS_Subset
<1> HIDE DEF t, c
<1>4. List(t) /\ DOMAIN t = 1..c
  BY <1>2, SeqIsList
<1>5. ASSUME NEW k \in 1..c, NEW l \in 1..c, Ranked(I, k) = Ranked(I, l) PROVE k = l
  <2>1. Ranked(I, k) \in I /\ k \in Nat /\ l \in Nat
    BY <1>2
  <2>1a. Ranked(I, k) \in Nat
    BY <1>1, <2>1
  <2>2. ~(k < l) /\ ~(l < k)
    BY <1>2, <1>5, <2>1a
  <2> QED
    BY <2>1, <2>2
<1>6. \A k \in DOMAIN t : \E i \in I : t[k] = s[i]
  BY <1>2, <1>4
<1>7. \A i \in I : \E k \in DOMAIN t : t[k] = s[i]
  BY <1>2, <1>4
<1>8. \A k \in DOMAIN t : Ranked(I, k) \in I /\ t[k] = s[Ranked(I, k)]
  BY <1>2, <1>4
<1>9. \A k, l \in DOMAIN t : Ranked(I, k) = Ranked(I, l) => k = l
  BY <1>4, <1>5
<1>10. Len(t) <= Len(s)
  BY <1>2, <1>3
<1> QED
  BY <1>4, <1>6, <1>7, <1>8, <1>9, <1>10 DEF t

---------------------------------------------------------------------------
\* Of the cards of a deck, one for each question.

\* Of the cards that ask one question one is kept.
LEMMA OneOfEach ==
    ASSUME NEW valid, IsDeck(valid)
    PROVE  LET t == OnePerQuestion(valid) IN
           /\ List(t) /\ Len(t) <= Len(valid) /\ Within(t, valid) /\ Apart(t)
           /\ \A i \in DOMAIN valid : \E k \in DOMAIN t : t[k].asks = valid[i].asks
<1> DEFINE asked == [i \in DOMAIN valid |-> valid[i].asks]
           SameAs(i) == {j \in DOMAIN valid : asked[j] = asked[i]}
           u == [i \in DOMAIN valid |-> valid[Best(valid, SameAs(i))]]
           F == FirstPlaces(asked)
           t == At(u, F)
<1>1. OnePerQuestion(valid) = t
  BY DEF OnePerQuestion
<1>2. List(valid) /\ List(u) /\ Len(u) = Len(valid) /\ DOMAIN u = DOMAIN valid
  <2>1. u = [i \in DOMAIN valid |-> u[i]]
    OBVIOUS
  <2> HIDE DEF u
  <2> QED
    BY <2>1, ListMapped DEF IsDeck
<1>3. \A i \in DOMAIN valid : asked[i] = valid[i].asks
  OBVIOUS
<1>4. \A i \in DOMAIN valid : \E j \in DOMAIN valid : u[i] = valid[j] /\ valid[j].asks = asked[i]
  <2>1. TAKE i \in DOMAIN valid
  <2>2. SameAs(i) \in SUBSET DOMAIN valid /\ i \in SameAs(i)
    OBVIOUS
  <2>3. Best(valid, SameAs(i)) \in SameAs(i)
    BY <2>2, BestOf
  <2> QED
    BY <1>3, <2>3
<1>5. DOMAIN valid \in SUBSET Nat
  BY <1>2, ListLength
<1>6. F \in SUBSET DOMAIN u
  BY <1>2 DEF FirstPlaces
<1>7. \A i \in DOMAIN valid : \E f \in F : asked[f] = asked[i]
  <2>1. TAKE i \in DOMAIN valid
  <2>2. SameAs(i) \in SUBSET Nat /\ i \in SameAs(i)
    BY <1>5
  <2>3. PICK f \in SameAs(i) : \A j \in SameAs(i) : f <= j
    BY <2>2, Least
  <2>4. DOMAIN valid = 1..Len(valid) /\ Len(valid) \in Nat
    BY <1>2, ListLength
  <2>5. f \in DOMAIN valid /\ asked[f] = asked[i] /\ DOMAIN asked = DOMAIN valid
    BY <2>3
  <2>6. ASSUME NEW j \in 1..(f - 1) PROVE asked[j] # asked[f]
    <3>1. j \in DOMAIN valid /\ ~(f <= j)
      BY <2>4, <2>5
    <3>2. j \notin SameAs(i)
      BY <2>3, <3>1
    <3> QED
      BY <2>5, <3>1, <3>2
  <2> HIDE DEF asked
  <2>7. f \in F
    BY <2>5, <2>6 DEF FirstPlaces
  <2> QED
    BY <2>5, <2>7
<1>8. \A f, g \in F : asked[f] = asked[g] => f = g
  <2>1. \A f \in F : f \in DOMAIN valid /\ f \in Nat /\ f >= 1
        /\ \A j \in 1..(f - 1) : asked[j] # asked[f]
    <3>1. DOMAIN valid = 1..Len(valid) /\ Len(valid) \in Nat
      BY <1>2, ListLength
    <3>2. DOMAIN asked = DOMAIN valid
      OBVIOUS
    <3> HIDE DEF asked
    <3>3. \A f \in F : f \in DOMAIN valid /\ \A j \in 1..(f - 1) : asked[j] # asked[f]
      BY <3>2 DEF FirstPlaces
    <3> QED
      BY <3>1, <3>3
  <2> HIDE DEF F, asked
  <2>2. TAKE f, g \in F
  <2>3. CASE f < g
    BY <2>1, <2>3
  <2>4. CASE g < f
    BY <2>1, <2>4
  <2>5. CASE ~(f < g) /\ ~(g < f)
    BY <2>1, <2>5
  <2> QED
    BY <2>3, <2>4, <2>5
<1> HIDE DEF u, F, asked
<1>9. /\ List(t) /\ Len(t) <= Len(u)
      /\ \A k \in DOMAIN t : \E i \in F : t[k] = u[i]
      /\ \A i \in F : \E k \in DOMAIN t : t[k] = u[i]
      /\ \A k \in DOMAIN t : Ranked(F, k) \in F /\ t[k] = u[Ranked(F, k)]
      /\ \A k, l \in DOMAIN t : Ranked(F, k) = Ranked(F, l) => k = l
  BY <1>2, <1>6, AtAll
<1> HIDE DEF t
<1>10. \A f \in F : u[f].asks = asked[f]
  BY <1>2, <1>4, <1>6
<1>11. Within(t, valid)
  BY <1>2, <1>4, <1>6, <1>9 DEF Within
<1>12. Apart(t)
  <2>1. ASSUME NEW k \in DOMAIN t, NEW l \in DOMAIN t, t[k].asks = t[l].asks PROVE k = l
    <3>1. Ranked(F, k) \in F /\ t[k] = u[Ranked(F, k)] /\ Ranked(F, l) \in F /\ t[l] = u[Ranked(F, l)]
      BY <1>9
    <3>2. asked[Ranked(F, k)] = asked[Ranked(F, l)]
      BY <1>10, <2>1, <3>1
    <3>3. Ranked(F, k) = Ranked(F, l)
      BY <1>8, <3>1, <3>2
    <3> QED
      BY <1>9, <3>3
  <2> QED
    BY <2>1 DEF Apart
<1>13. ASSUME NEW i \in DOMAIN valid PROVE \E k \in DOMAIN t : t[k].asks = valid[i].asks
  <2>1. PICK f \in F : asked[f] = asked[i]
    BY <1>7
  <2>2. PICK k \in DOMAIN t : t[k] = u[f]
    BY <1>9
  <2> QED
    BY <1>3, <1>10, <2>1, <2>2
<1>14. List(t) /\ Len(t) <= Len(valid)
  BY <1>2, <1>9
<1> QED
  BY <1>1, <1>11, <1>12, <1>13, <1>14

\* The valid cards of a list.
LEMMA ValidCards ==
    ASSUME NEW some, IsDeck(some)
    PROVE  LET valid == Selected(some, IsValid) IN
           /\ IsDeck(valid) /\ Len(valid) <= Len(some) /\ Within(valid, some)
           /\ \A k \in DOMAIN valid : IsValid(valid[k])
           /\ \A i \in DOMAIN some : IsValid(some[i]) => \E k \in DOMAIN valid : valid[k] = some[i]
<1> DEFINE I == {i \in DOMAIN some : IsValid(some[i])}
           t == At(some, I)
<1>1. Selected(some, IsValid) = t
  BY DEF Selected
<1>2. /\ List(t) /\ Len(t) <= Len(some)
      /\ \A k \in DOMAIN t : \E i \in I : t[k] = some[i]
      /\ \A i \in I : \E k \in DOMAIN t : t[k] = some[i]
  BY AtAll DEF IsDeck
<1> HIDE DEF t
<1>3. IsDeck(t) /\ Within(t, some) /\ \A k \in DOMAIN t : IsValid(t[k])
  BY <1>2 DEF IsDeck, Within
<1>4. \A i \in DOMAIN some : IsValid(some[i]) => \E k \in DOMAIN t : t[k] = some[i]
  BY <1>2
<1> QED
  BY <1>1, <1>2, <1>3, <1>4

\* What _valid_unique_flashcards gives: valid cards of those it gets, no two of
\* which ask the same.
LEMMA UniqueCards ==
    ASSUME NEW some, IsDeck(some), NEW limit \in Nat
    PROVE  LET t == Unique(some, limit) IN
           /\ IsDeck(t) /\ Len(t) <= limit /\ Within(t, some) /\ Apart(t)
           /\ \A k \in DOMAIN t : IsValid(t[k])
           /\ Len(some) <= limit
              => \A i \in DOMAIN some : IsValid(some[i]) => \E k \in DOMAIN t : t[k].asks = some[i].asks
<1> DEFINE valid == Selected(some, IsValid)
           u == OnePerQuestion(valid)
           t == FirstN(u, limit)
<1>1. Unique(some, limit) = t
  BY DEF Unique
<1>2. /\ IsDeck(valid) /\ Len(valid) <= Len(some) /\ Within(valid, some)
      /\ \A k \in DOMAIN valid : IsValid(valid[k])
      /\ \A i \in DOMAIN some : IsValid(some[i]) => \E k \in DOMAIN valid : valid[k] = some[i]
  BY ValidCards
<1> HIDE DEF valid
<1>3. /\ List(u) /\ Len(u) <= Len(valid) /\ Within(u, valid) /\ Apart(u)
      /\ \A i \in DOMAIN valid : \E k \in DOMAIN u : u[k].asks = valid[i].asks
  BY <1>2, OneOfEach
<1> HIDE DEF u
<1>4. /\ List(t) /\ Len(t) <= limit /\ (Len(u) <= limit => Len(t) = Len(u))
      /\ \A k \in DOMAIN t : k \in DOMAIN u /\ t[k] = u[k]
  BY <1>3, ListFirstN
<1> HIDE DEF t
<1>5. Within(t, some) /\ Apart(t) /\ \A k \in DOMAIN t : IsValid(t[k])
  <2>1. Apart(t)
    BY <1>3, <1>4 DEF Apart
  <2>2. \A k \in DOMAIN t : \E i \in DOMAIN valid : t[k] = valid[i]
    BY <1>3, <1>4 DEF Within
  <2> QED
    BY <1>2, <2>1, <2>2 DEF Within
<1>6. IsDeck(t)
  BY <1>4, <1>5 DEF IsDeck, Within
<1>7. ASSUME Len(some) <= limit, NEW i \in DOMAIN some, IsValid(some[i])
      PROVE  \E k \in DOMAIN t : t[k].asks = some[i].asks
  <2>1. PICK j \in DOMAIN valid : valid[j] = some[i]
    BY <1>2, <1>7
  <2>2. PICK k \in DOMAIN u : u[k].asks = valid[j].asks
    BY <1>3
  <2>3. Len(u) \in Nat /\ Len(valid) \in Nat /\ Len(some) \in Nat
    BY <1>2, <1>3, ListLength DEF IsDeck
  <2>4. Len(u) <= limit
    BY <1>2, <1>3, <1>7, <2>3
  <2>5. DOMAIN t = DOMAIN u
    BY <1>3, <1>4, <2>4, ListLength
  <2>6. t[k] = u[k]
    BY <1>4, <2>5
  <2> QED
    BY <2>1, <2>2, <2>5, <2>6
<1> QED
  BY <1>1, <1>4, <1>5, <1>6, <1>7 DEF t

LEMMA UniqueAllCards ==
    ASSUME NEW some, IsDeck(some)
    PROVE  LET t == UniqueAll(some) IN
           /\ IsDeck(t) /\ Within(t, some) /\ Apart(t) /\ Len(t) <= Len(some)
           /\ \A k \in DOMAIN t : IsValid(t[k])
           /\ \A i \in DOMAIN some : IsValid(some[i]) => \E k \in DOMAIN t : t[k].asks = some[i].asks
<1>1. Len(some) \in Nat
  BY ListLength DEF IsDeck
<1>2. Len(some) <= Len(some)
  BY <1>1
<1> QED
  BY <1>1, <1>2, UniqueCards DEF UniqueAll

---------------------------------------------------------------------------
\* The tables of questions: each is a list of families, each a list of names.
LEMMA TupleOf2 ==
    ASSUME NEW a1, NEW a2
    PROVE  List(<<a1, a2>>)
<1>1. <<a1, a2>>
      \in Seq({a1, a2})
  OBVIOUS
<1> QED
  BY <1>1, SeqIsList

LEMMA TupleOf3 ==
    ASSUME NEW a1, NEW a2, NEW a3
    PROVE  List(<<a1, a2, a3>>)
<1>1. <<a1, a2, a3>>
      \in Seq({a1, a2, a3})
  OBVIOUS
<1> QED
  BY <1>1, SeqIsList

LEMMA TupleOf4 ==
    ASSUME NEW a1, NEW a2, NEW a3, NEW a4
    PROVE  List(<<a1, a2, a3, a4>>)
<1>1. <<a1, a2, a3, a4>>
      \in Seq({a1, a2, a3, a4})
  OBVIOUS
<1> QED
  BY <1>1, SeqIsList

LEMMA TupleOf6 ==
    ASSUME NEW a1, NEW a2, NEW a3, NEW a4, NEW a5, NEW a6
    PROVE  List(<<a1, a2, a3, a4, a5, a6>>)
<1>1. <<a1, a2, a3, a4, a5, a6>>
      \in Seq({a1, a2, a3, a4, a5, a6})
  OBVIOUS
<1> QED
  BY <1>1, SeqIsList

LEMMA TupleOf10 ==
    ASSUME NEW a1, NEW a2, NEW a3, NEW a4, NEW a5, NEW a6, NEW a7, NEW a8, NEW a9, NEW a10
    PROVE  List(<<a1, a2, a3, a4, a5, a6, a7, a8, a9, a10>>)
<1>1. <<a1, a2, a3, a4, a5, a6, a7, a8, a9, a10>>
      \in Seq({a1, a2, a3, a4, a5, a6, a7, a8, a9, a10})
  OBVIOUS
<1> QED
  BY <1>1, SeqIsList

LEMMA TupleOf11 ==
    ASSUME NEW a1, NEW a2, NEW a3, NEW a4, NEW a5, NEW a6, NEW a7, NEW a8, NEW a9, NEW a10,
           NEW a11
    PROVE  List(<<a1, a2, a3, a4, a5, a6, a7, a8, a9, a10, a11>>)
<1>1. <<a1, a2, a3, a4, a5, a6, a7, a8, a9, a10, a11>>
      \in Seq({a1, a2, a3, a4, a5, a6, a7, a8, a9, a10, a11})
  OBVIOUS
<1> QED
  BY <1>1, SeqIsList

\* A rule's cards, and a family's rules, are lists.
IsRule(r) == List(r.cards)
IsFamily(f) == List(f.rules) /\ \A i \in DOMAIN f.rules : IsRule(f.rules[i])
AreFamilies(fs) == List(fs) /\ \A i \in DOMAIN fs : IsFamily(fs[i])

LEMMA RuleOfList == ASSUME NEW q, NEW s, List(s) PROVE IsRule(On(q, s))
BY DEF IsRule, On

LEMMA FamilyOfList ==
    ASSUME NEW gate, NEW except, NEW rules, List(rules), \A i \in DOMAIN rules : IsRule(rules[i])
    PROVE  IsFamily(Family(gate, rules)) /\ IsFamily(FamilyUnless(gate, except, rules))
BY DEF IsFamily, Family, FamilyUnless

LEMMA RuleOf1 ==
    ASSUME NEW q, NEW a1
    PROVE  IsRule(On(q, <<a1>>))
BY ListOfOne, RuleOfList

LEMMA RuleOf2 ==
    ASSUME NEW q, NEW a1, NEW a2
    PROVE  IsRule(On(q, <<a1, a2>>))
BY TupleOf2, RuleOfList

LEMMA RuleOf3 ==
    ASSUME NEW q, NEW a1, NEW a2, NEW a3
    PROVE  IsRule(On(q, <<a1, a2, a3>>))
BY TupleOf3, RuleOfList

LEMMA RuleOf4 ==
    ASSUME NEW q, NEW a1, NEW a2, NEW a3, NEW a4
    PROVE  IsRule(On(q, <<a1, a2, a3, a4>>))
BY TupleOf4, RuleOfList

LEMMA RuleOf6 ==
    ASSUME NEW q, NEW a1, NEW a2, NEW a3, NEW a4, NEW a5, NEW a6
    PROVE  IsRule(On(q, <<a1, a2, a3, a4, a5, a6>>))
BY TupleOf6, RuleOfList

LEMMA RuleOf10 ==
    ASSUME NEW q, NEW a1, NEW a2, NEW a3, NEW a4, NEW a5, NEW a6, NEW a7, NEW a8, NEW a9, NEW a10
    PROVE  IsRule(On(q, <<a1, a2, a3, a4, a5, a6, a7, a8, a9, a10>>))
BY TupleOf10, RuleOfList

LEMMA RuleOf11 ==
    ASSUME NEW q, NEW a1, NEW a2, NEW a3, NEW a4, NEW a5, NEW a6, NEW a7, NEW a8, NEW a9, NEW a10,
           NEW a11
    PROVE  IsRule(On(q, <<a1, a2, a3, a4, a5, a6, a7, a8, a9, a10, a11>>))
BY TupleOf11, RuleOfList

LEMMA FamilyOf1 ==
    ASSUME NEW gate, NEW r1,
           IsRule(r1)
    PROVE  IsFamily(Family(gate, <<r1>>))
<1> DEFINE rules == <<r1>>
           all == {r1}
<1>1. rules \in Seq(all) /\ \A r \in all : IsRule(r)
  OBVIOUS
<1> HIDE DEF rules, all
<1>2. List(rules) /\ \A i \in DOMAIN rules : IsRule(rules[i])
  BY <1>1, SeqIsList
<1> QED
  BY <1>2, FamilyOfList DEF rules

LEMMA FamilyOf2 ==
    ASSUME NEW gate, NEW r1, NEW r2,
           IsRule(r1), IsRule(r2)
    PROVE  IsFamily(Family(gate, <<r1, r2>>))
<1> DEFINE rules == <<r1, r2>>
           all == {r1, r2}
<1>1. rules \in Seq(all) /\ \A r \in all : IsRule(r)
  OBVIOUS
<1> HIDE DEF rules, all
<1>2. List(rules) /\ \A i \in DOMAIN rules : IsRule(rules[i])
  BY <1>1, SeqIsList
<1> QED
  BY <1>2, FamilyOfList DEF rules

LEMMA FamilyOf3 ==
    ASSUME NEW gate, NEW r1, NEW r2, NEW r3,
           IsRule(r1), IsRule(r2), IsRule(r3)
    PROVE  IsFamily(Family(gate, <<r1, r2, r3>>))
<1> DEFINE rules == <<r1, r2, r3>>
           all == {r1, r2, r3}
<1>1. rules \in Seq(all) /\ \A r \in all : IsRule(r)
  OBVIOUS
<1> HIDE DEF rules, all
<1>2. List(rules) /\ \A i \in DOMAIN rules : IsRule(rules[i])
  BY <1>1, SeqIsList
<1> QED
  BY <1>2, FamilyOfList DEF rules

LEMMA FamilyOf4 ==
    ASSUME NEW gate, NEW r1, NEW r2, NEW r3, NEW r4,
           IsRule(r1), IsRule(r2), IsRule(r3), IsRule(r4)
    PROVE  IsFamily(Family(gate, <<r1, r2, r3, r4>>))
<1> DEFINE rules == <<r1, r2, r3, r4>>
           all == {r1, r2, r3, r4}
<1>1. rules \in Seq(all) /\ \A r \in all : IsRule(r)
  OBVIOUS
<1> HIDE DEF rules, all
<1>2. List(rules) /\ \A i \in DOMAIN rules : IsRule(rules[i])
  BY <1>1, SeqIsList
<1> QED
  BY <1>2, FamilyOfList DEF rules

LEMMA FamilyOf5 ==
    ASSUME NEW gate, NEW r1, NEW r2, NEW r3, NEW r4, NEW r5,
           IsRule(r1), IsRule(r2), IsRule(r3), IsRule(r4), IsRule(r5)
    PROVE  IsFamily(Family(gate, <<r1, r2, r3, r4, r5>>))
<1> DEFINE rules == <<r1, r2, r3, r4, r5>>
           all == {r1, r2, r3, r4, r5}
<1>1. rules \in Seq(all) /\ \A r \in all : IsRule(r)
  OBVIOUS
<1> HIDE DEF rules, all
<1>2. List(rules) /\ \A i \in DOMAIN rules : IsRule(rules[i])
  BY <1>1, SeqIsList
<1> QED
  BY <1>2, FamilyOfList DEF rules

LEMMA FamilyOf6 ==
    ASSUME NEW gate, NEW r1, NEW r2, NEW r3, NEW r4, NEW r5, NEW r6,
           IsRule(r1), IsRule(r2), IsRule(r3), IsRule(r4), IsRule(r5), IsRule(r6)
    PROVE  IsFamily(Family(gate, <<r1, r2, r3, r4, r5, r6>>))
<1> DEFINE rules == <<r1, r2, r3, r4, r5, r6>>
           all == {r1, r2, r3, r4, r5, r6}
<1>1. rules \in Seq(all) /\ \A r \in all : IsRule(r)
  OBVIOUS
<1> HIDE DEF rules, all
<1>2. List(rules) /\ \A i \in DOMAIN rules : IsRule(rules[i])
  BY <1>1, SeqIsList
<1> QED
  BY <1>2, FamilyOfList DEF rules

LEMMA FamilyOf7 ==
    ASSUME NEW gate, NEW r1, NEW r2, NEW r3, NEW r4, NEW r5, NEW r6, NEW r7,
           IsRule(r1), IsRule(r2), IsRule(r3), IsRule(r4), IsRule(r5), IsRule(r6), IsRule(r7)
    PROVE  IsFamily(Family(gate, <<r1, r2, r3, r4, r5, r6, r7>>))
<1> DEFINE rules == <<r1, r2, r3, r4, r5, r6, r7>>
           all == {r1, r2, r3, r4, r5, r6, r7}
<1>1. rules \in Seq(all) /\ \A r \in all : IsRule(r)
  OBVIOUS
<1> HIDE DEF rules, all
<1>2. List(rules) /\ \A i \in DOMAIN rules : IsRule(rules[i])
  BY <1>1, SeqIsList
<1> QED
  BY <1>2, FamilyOfList DEF rules

LEMMA FamilyOf8 ==
    ASSUME NEW gate, NEW r1, NEW r2, NEW r3, NEW r4, NEW r5, NEW r6, NEW r7, NEW r8,
           IsRule(r1), IsRule(r2), IsRule(r3), IsRule(r4), IsRule(r5), IsRule(r6), IsRule(r7),
           IsRule(r8)
    PROVE  IsFamily(Family(gate, <<r1, r2, r3, r4, r5, r6, r7, r8>>))
<1> DEFINE rules == <<r1, r2, r3, r4, r5, r6, r7, r8>>
           all == {r1, r2, r3, r4, r5, r6, r7, r8}
<1>1. rules \in Seq(all) /\ \A r \in all : IsRule(r)
  OBVIOUS
<1> HIDE DEF rules, all
<1>2. List(rules) /\ \A i \in DOMAIN rules : IsRule(rules[i])
  BY <1>1, SeqIsList
<1> QED
  BY <1>2, FamilyOfList DEF rules

LEMMA FamilyOf9 ==
    ASSUME NEW gate, NEW r1, NEW r2, NEW r3, NEW r4, NEW r5, NEW r6, NEW r7, NEW r8, NEW r9,
           IsRule(r1), IsRule(r2), IsRule(r3), IsRule(r4), IsRule(r5), IsRule(r6), IsRule(r7),
           IsRule(r8), IsRule(r9)
    PROVE  IsFamily(Family(gate, <<r1, r2, r3, r4, r5, r6, r7, r8, r9>>))
<1> DEFINE rules == <<r1, r2, r3, r4, r5, r6, r7, r8, r9>>
           all == {r1, r2, r3, r4, r5, r6, r7, r8, r9}
<1>1. rules \in Seq(all) /\ \A r \in all : IsRule(r)
  OBVIOUS
<1> HIDE DEF rules, all
<1>2. List(rules) /\ \A i \in DOMAIN rules : IsRule(rules[i])
  BY <1>1, SeqIsList
<1> QED
  BY <1>2, FamilyOfList DEF rules

LEMMA FamilyOf10 ==
    ASSUME NEW gate, NEW r1, NEW r2, NEW r3, NEW r4, NEW r5, NEW r6, NEW r7, NEW r8, NEW r9,
           NEW r10,
           IsRule(r1), IsRule(r2), IsRule(r3), IsRule(r4), IsRule(r5), IsRule(r6), IsRule(r7),
           IsRule(r8), IsRule(r9), IsRule(r10)
    PROVE  IsFamily(Family(gate, <<r1, r2, r3, r4, r5, r6, r7, r8, r9, r10>>))
<1> DEFINE rules == <<r1, r2, r3, r4, r5, r6, r7, r8, r9, r10>>
           all == {r1, r2, r3, r4, r5, r6, r7, r8, r9, r10}
<1>1. rules \in Seq(all) /\ \A r \in all : IsRule(r)
  OBVIOUS
<1> HIDE DEF rules, all
<1>2. List(rules) /\ \A i \in DOMAIN rules : IsRule(rules[i])
  BY <1>1, SeqIsList
<1> QED
  BY <1>2, FamilyOfList DEF rules

LEMMA FamilyOf11 ==
    ASSUME NEW gate, NEW r1, NEW r2, NEW r3, NEW r4, NEW r5, NEW r6, NEW r7, NEW r8, NEW r9,
           NEW r10, NEW r11,
           IsRule(r1), IsRule(r2), IsRule(r3), IsRule(r4), IsRule(r5), IsRule(r6), IsRule(r7),
           IsRule(r8), IsRule(r9), IsRule(r10), IsRule(r11)
    PROVE  IsFamily(Family(gate, <<r1, r2, r3, r4, r5, r6, r7, r8, r9, r10, r11>>))
<1> DEFINE rules == <<r1, r2, r3, r4, r5, r6, r7, r8, r9, r10, r11>>
           all == {r1, r2, r3, r4, r5, r6, r7, r8, r9, r10, r11}
<1>1. rules \in Seq(all) /\ \A r \in all : IsRule(r)
  OBVIOUS
<1> HIDE DEF rules, all
<1>2. List(rules) /\ \A i \in DOMAIN rules : IsRule(rules[i])
  BY <1>1, SeqIsList
<1> QED
  BY <1>2, FamilyOfList DEF rules

LEMMA FamilyOf15 ==
    ASSUME NEW gate, NEW r1, NEW r2, NEW r3, NEW r4, NEW r5, NEW r6, NEW r7, NEW r8, NEW r9,
           NEW r10, NEW r11, NEW r12, NEW r13, NEW r14, NEW r15,
           IsRule(r1), IsRule(r2), IsRule(r3), IsRule(r4), IsRule(r5), IsRule(r6), IsRule(r7),
           IsRule(r8), IsRule(r9), IsRule(r10), IsRule(r11), IsRule(r12), IsRule(r13),
           IsRule(r14), IsRule(r15)
    PROVE  IsFamily(Family(gate, <<r1, r2, r3, r4, r5, r6, r7, r8, r9, r10,
                                   r11, r12, r13, r14, r15>>))
<1> DEFINE rules == <<r1, r2, r3, r4, r5, r6, r7, r8, r9, r10, r11, r12, r13, r14, r15>>
           all == {r1, r2, r3, r4, r5, r6, r7, r8, r9, r10, r11, r12, r13, r14, r15}
<1>1. rules \in Seq(all) /\ \A r \in all : IsRule(r)
  OBVIOUS
<1> HIDE DEF rules, all
<1>2. List(rules) /\ \A i \in DOMAIN rules : IsRule(rules[i])
  BY <1>1, SeqIsList
<1> QED
  BY <1>2, FamilyOfList DEF rules

LEMMA FamilyOf16 ==
    ASSUME NEW gate, NEW r1, NEW r2, NEW r3, NEW r4, NEW r5, NEW r6, NEW r7, NEW r8, NEW r9,
           NEW r10, NEW r11, NEW r12, NEW r13, NEW r14, NEW r15, NEW r16,
           IsRule(r1), IsRule(r2), IsRule(r3), IsRule(r4), IsRule(r5), IsRule(r6), IsRule(r7),
           IsRule(r8), IsRule(r9), IsRule(r10), IsRule(r11), IsRule(r12), IsRule(r13),
           IsRule(r14), IsRule(r15), IsRule(r16)
    PROVE  IsFamily(Family(gate, <<r1, r2, r3, r4, r5, r6, r7, r8, r9, r10,
                                   r11, r12, r13, r14, r15, r16>>))
<1> DEFINE rules == <<r1, r2, r3, r4, r5, r6, r7, r8, r9, r10, r11, r12, r13, r14, r15, r16>>
           all == {r1, r2, r3, r4, r5, r6, r7, r8, r9, r10, r11, r12, r13, r14, r15, r16}
<1>1. rules \in Seq(all) /\ \A r \in all : IsRule(r)
  OBVIOUS
<1> HIDE DEF rules, all
<1>2. List(rules) /\ \A i \in DOMAIN rules : IsRule(rules[i])
  BY <1>1, SeqIsList
<1> QED
  BY <1>2, FamilyOfList DEF rules

LEMMA FamilyOf19 ==
    ASSUME NEW gate, NEW r1, NEW r2, NEW r3, NEW r4, NEW r5, NEW r6, NEW r7, NEW r8, NEW r9,
           NEW r10, NEW r11, NEW r12, NEW r13, NEW r14, NEW r15, NEW r16, NEW r17, NEW r18,
           NEW r19,
           IsRule(r1), IsRule(r2), IsRule(r3), IsRule(r4), IsRule(r5), IsRule(r6), IsRule(r7),
           IsRule(r8), IsRule(r9), IsRule(r10), IsRule(r11), IsRule(r12), IsRule(r13),
           IsRule(r14), IsRule(r15), IsRule(r16), IsRule(r17), IsRule(r18), IsRule(r19)
    PROVE  IsFamily(Family(gate, <<r1, r2, r3, r4, r5, r6, r7, r8, r9, r10,
                                   r11, r12, r13, r14, r15, r16, r17, r18, r19>>))
<1> DEFINE rules == <<r1, r2, r3, r4, r5, r6, r7, r8, r9, r10,
                      r11, r12, r13, r14, r15, r16, r17, r18, r19>>
           all == {r1, r2, r3, r4, r5, r6, r7, r8, r9, r10,
                   r11, r12, r13, r14, r15, r16, r17, r18, r19}
<1>1. rules \in Seq(all) /\ \A r \in all : IsRule(r)
  OBVIOUS
<1> HIDE DEF rules, all
<1>2. List(rules) /\ \A i \in DOMAIN rules : IsRule(rules[i])
  BY <1>1, SeqIsList
<1> QED
  BY <1>2, FamilyOfList DEF rules

LEMMA UnlessOf4 ==
    ASSUME NEW gate, NEW except, NEW r1, NEW r2, NEW r3, NEW r4,
           IsRule(r1), IsRule(r2), IsRule(r3), IsRule(r4)
    PROVE  IsFamily(FamilyUnless(gate, except, <<r1, r2, r3, r4>>))
<1> DEFINE rules == <<r1, r2, r3, r4>>
           all == {r1, r2, r3, r4}
<1>1. rules \in Seq(all) /\ \A r \in all : IsRule(r)
  OBVIOUS
<1> HIDE DEF rules, all
<1>2. List(rules) /\ \A i \in DOMAIN rules : IsRule(rules[i])
  BY <1>1, SeqIsList
<1> QED
  BY <1>2, FamilyOfList DEF rules

\* The families of the service.
LEMMA ValueAtRiskFamily == IsFamily(ValueAtRisk)
  BY FamilyOf4, RuleOf1, Zenon DEF ValueAtRisk

LEMMA ModernPortfolioFamily == IsFamily(ModernPortfolio)
  BY FamilyOf5, RuleOf1, Zenon DEF ModernPortfolio

LEMMA CapmFamily == IsFamily(Capm)
  BY FamilyOf9, RuleOf1, RuleOf2, Zenon DEF Capm

LEMMA CodeOfConductFamily == IsFamily(CodeOfConduct)
  BY FamilyOf5, RuleOf1, RuleOf2, Zenon DEF CodeOfConduct

LEMMA TimeSeriesFamily == IsFamily(TimeSeries)
  BY FamilyOf9, RuleOf1, Zenon DEF TimeSeries

LEMMA PopulationMomentsFamily == IsFamily(PopulationMoments)
  BY FamilyOf1, RuleOf10, Zenon DEF PopulationMoments

LEMMA CompoundingFamily == IsFamily(Compounding)
  BY FamilyOf1, RuleOf11, Zenon DEF Compounding

LEMMA MutualFundsFamily == IsFamily(MutualFunds)
  BY FamilyOf6, RuleOf1, RuleOf2, Zenon DEF MutualFunds

LEMMA OptionTypesFamily == IsFamily(OptionTypes)
  BY FamilyOf7, RuleOf1, Zenon DEF OptionTypes

LEMMA OptionPricingFactorsFamily == IsFamily(OptionPricingFactors)
  BY FamilyOf7, RuleOf1, RuleOf2, Zenon DEF OptionPricingFactors

LEMMA OptionsMarketsFamily == IsFamily(OptionsMarkets)
  BY FamilyOf7, RuleOf1, RuleOf2, Zenon DEF OptionsMarkets

LEMMA InterestRateSwapsFamily == IsFamily(InterestRateSwaps)
  BY FamilyOf10, RuleOf1, Zenon DEF InterestRateSwaps

LEMMA CcpRisksFamily == IsFamily(CcpRisks)
  BY FamilyOf1, RuleOf10, Zenon DEF CcpRisks

LEMMA FuturesCharacteristicsFamily == IsFamily(FuturesCharacteristics)
  BY FamilyOf1, RuleOf10, Zenon DEF FuturesCharacteristics

LEMMA CommoditiesFamily == IsFamily(Commodities)
  BY FamilyOf1, RuleOf10, Zenon DEF Commodities

LEMMA DayCountsFamily == IsFamily(DayCounts)
  BY FamilyOf1, RuleOf10, Zenon DEF DayCounts

LEMMA DurationHedgingFamily == IsFamily(DurationHedging)
  BY FamilyOf1, RuleOf10, Zenon DEF DurationHedging

LEMMA TreasuryBondFuturesFamily == IsFamily(TreasuryBondFutures)
  BY FamilyOf19, RuleOf1, RuleOf2, Zenon DEF TreasuryBondFutures

LEMMA InsuranceAndPensionsFamily == IsFamily(InsuranceAndPensions)
  BY FamilyOf6, RuleOf1, RuleOf2, Zenon DEF InsuranceAndPensions

LEMMA BankingFamily == IsFamily(Banking)
  BY FamilyOf10, RuleOf1, RuleOf2, Zenon DEF Banking

LEMMA ForeignExchangeFamily == IsFamily(ForeignExchange)
  BY FamilyOf9, RuleOf1, RuleOf3, Zenon DEF ForeignExchange

LEMMA ExchangeRateParityFamily == IsFamily(ExchangeRateParity)
  BY FamilyOf9, RuleOf1, RuleOf2, Zenon DEF ExchangeRateParity

LEMMA MortgageLoansFamily == IsFamily(MortgageLoans)
  BY UnlessOf4, RuleOf1, Zenon DEF MortgageLoans

LEMMA MortgageBackedSecuritiesFamily == IsFamily(MortgageBackedSecurities)
  BY FamilyOf8, RuleOf1, RuleOf2, Zenon DEF MortgageBackedSecurities

LEMMA PrepaymentModelingFamily == IsFamily(PrepaymentModeling)
  BY FamilyOf3, RuleOf1, Zenon DEF PrepaymentModeling

LEMMA SwapValuationFamily == IsFamily(SwapValuation)
  BY FamilyOf8, RuleOf1, RuleOf2, RuleOf3, Zenon DEF SwapValuation

LEMMA InterestRateCurvesFamily == IsFamily(InterestRateCurves)
  BY FamilyOf1, RuleOf10, Zenon DEF InterestRateCurves

LEMMA DurationAndConvexityFamily == IsFamily(DurationAndConvexity)
  BY FamilyOf1, RuleOf10, Zenon DEF DurationAndConvexity

LEMMA CreditAndBondsFamily == IsFamily(CreditAndBonds)
  BY FamilyOf3, RuleOf2, RuleOf10, Zenon DEF CreditAndBonds

LEMMA OptionMarginsFamily == IsFamily(OptionMargins)
  BY FamilyOf5, RuleOf1, RuleOf2, RuleOf3, Zenon DEF OptionMargins

LEMMA OptionStrategiesFamily == IsFamily(OptionStrategies)
  BY FamilyOf1, RuleOf10, Zenon DEF OptionStrategies

LEMMA RiskManagementProcessFamily == IsFamily(RiskManagementProcess)
  BY FamilyOf4, RuleOf1, RuleOf3, RuleOf4, Zenon DEF RiskManagementProcess

LEMMA LearningObjectiveCommandsFamily == IsFamily(LearningObjectiveCommands)
  BY FamilyOf4, RuleOf1, Zenon DEF LearningObjectiveCommands

LEMMA ProbabilityRelationshipsFamily == IsFamily(ProbabilityRelationships)
  BY FamilyOf5, RuleOf1, RuleOf2, Zenon DEF ProbabilityRelationships

LEMMA DiscreteProbabilityFamily == IsFamily(DiscreteProbability)
  BY FamilyOf7, RuleOf1, RuleOf2, RuleOf4, Zenon DEF DiscreteProbability

LEMMA RandomVariablesFamily == IsFamily(RandomVariables)
  BY FamilyOf10, RuleOf1, RuleOf2, Zenon DEF RandomVariables

LEMMA MultipleRegressionFamily == IsFamily(MultipleRegression)
  BY FamilyOf9, RuleOf1, RuleOf2, Zenon DEF MultipleRegression

LEMMA PrincipalComponentsFamily == IsFamily(PrincipalComponents)
  BY FamilyOf8, RuleOf1, RuleOf2, Zenon DEF PrincipalComponents

LEMMA DistributionsFamily == IsFamily(Distributions)
  BY FamilyOf10, RuleOf1, Zenon DEF Distributions

LEMMA EventProbabilityFamily == IsFamily(EventProbability)
  BY FamilyOf8, RuleOf1, RuleOf2, RuleOf3, Zenon DEF EventProbability

LEMMA BivariateDistributionsFamily == IsFamily(BivariateDistributions)
  BY FamilyOf7, RuleOf1, RuleOf2, RuleOf4, Zenon DEF BivariateDistributions

LEMMA RegressionAndTimeSeriesFamily == IsFamily(RegressionAndTimeSeries)
  BY FamilyOf19, RuleOf1, RuleOf2, Zenon DEF RegressionAndTimeSeries

LEMMA CoherentRiskMeasuresFamily == IsFamily(CoherentRiskMeasures)
  BY FamilyOf15, RuleOf1, RuleOf2, Zenon DEF CoherentRiskMeasures

LEMMA HistoricalVarFamily == IsFamily(HistoricalVar)
  BY FamilyOf10, RuleOf1, Zenon DEF HistoricalVar

LEMMA YieldCurveShapesFamily == IsFamily(YieldCurveShapes)
  BY FamilyOf10, RuleOf1, RuleOf2, Zenon DEF YieldCurveShapes

LEMMA HypothesisTestsFamily == IsFamily(HypothesisTests)
  BY FamilyOf6, RuleOf1, Zenon DEF HypothesisTests

LEMMA BlackScholesMertonFamily == IsFamily(BlackScholesMerton)
  BY FamilyOf11, RuleOf1, RuleOf2, RuleOf3, Zenon DEF BlackScholesMerton

LEMMA ModuleAnchorsFamily == IsFamily(ModuleAnchors)
  BY FamilyOf2, RuleOf1, RuleOf3, Zenon DEF ModuleAnchors

LEMMA RegressionAnchorsFamily == IsFamily(RegressionAnchors)
  BY FamilyOf11, RuleOf1, RuleOf2, RuleOf3, Zenon DEF RegressionAnchors

LEMMA ExpectedLossAnchorsFamily == IsFamily(ExpectedLossAnchors)
  BY FamilyOf2, RuleOf3, RuleOf6, Zenon DEF ExpectedLossAnchors

LEMMA InsuranceAnchorsFamily == IsFamily(InsuranceAnchors)
  BY FamilyOf16, RuleOf1, RuleOf2, RuleOf3, Zenon DEF InsuranceAnchors

LEMMA ProviderFamiliesAre == AreFamilies(ProviderFamilies)
<1> DEFINE all == {ValueAtRisk, ModernPortfolio, Capm, CodeOfConduct, TimeSeries,
                  PopulationMoments, Compounding, MutualFunds, OptionTypes, OptionPricingFactors,
                  OptionsMarkets, InterestRateSwaps, CcpRisks, FuturesCharacteristics,
                  Commodities, DayCounts, DurationHedging, TreasuryBondFutures,
                  InsuranceAndPensions, Banking, ForeignExchange, ExchangeRateParity,
                  MortgageLoans, MortgageBackedSecurities, PrepaymentModeling, SwapValuation,
                  InterestRateCurves, DurationAndConvexity, CreditAndBonds, OptionMargins,
                  OptionStrategies}
<1>1. ProviderFamilies \in Seq(all)
  BY DEF ProviderFamilies
<1>2. \A f \in all : IsFamily(f)
  BY ValueAtRiskFamily, ModernPortfolioFamily, CapmFamily, CodeOfConductFamily, TimeSeriesFamily,
     PopulationMomentsFamily, CompoundingFamily, MutualFundsFamily, OptionTypesFamily,
     OptionPricingFactorsFamily, OptionsMarketsFamily, InterestRateSwapsFamily, CcpRisksFamily,
     FuturesCharacteristicsFamily, CommoditiesFamily, DayCountsFamily, DurationHedgingFamily,
     TreasuryBondFuturesFamily, InsuranceAndPensionsFamily, BankingFamily, ForeignExchangeFamily,
     ExchangeRateParityFamily, MortgageLoansFamily, MortgageBackedSecuritiesFamily,
     PrepaymentModelingFamily, SwapValuationFamily, InterestRateCurvesFamily,
     DurationAndConvexityFamily, CreditAndBondsFamily, OptionMarginsFamily,
     OptionStrategiesFamily
<1> HIDE DEF all
<1>3. List(ProviderFamilies) /\ \A i \in DOMAIN ProviderFamilies : ProviderFamilies[i] \in all
  BY <1>1, SeqIsList
<1> QED
  BY <1>2, <1>3 DEF AreFamilies

LEMMA AgnosticFamiliesAre == AreFamilies(AgnosticFamilies)
<1> DEFINE all == {DiscreteProbability, RandomVariables, MultipleRegression, PrincipalComponents,
                  Distributions, EventProbability, BivariateDistributions,
                  RegressionAndTimeSeries, CoherentRiskMeasures, HistoricalVar, YieldCurveShapes,
                  HypothesisTests, BlackScholesMerton}
<1>1. AgnosticFamilies \in Seq(all)
  BY DEF AgnosticFamilies
<1>2. \A f \in all : IsFamily(f)
  BY DiscreteProbabilityFamily, RandomVariablesFamily, MultipleRegressionFamily,
     PrincipalComponentsFamily, DistributionsFamily, EventProbabilityFamily,
     BivariateDistributionsFamily, RegressionAndTimeSeriesFamily, CoherentRiskMeasuresFamily,
     HistoricalVarFamily, YieldCurveShapesFamily, HypothesisTestsFamily,
     BlackScholesMertonFamily
<1> HIDE DEF all
<1>3. List(AgnosticFamilies) /\ \A i \in DOMAIN AgnosticFamilies : AgnosticFamilies[i] \in all
  BY <1>1, SeqIsList
<1> QED
  BY <1>2, <1>3 DEF AreFamilies

---------------------------------------------------------------------------
\* The tables of sentence forms.

\* A form's entries, and the forms of a table, are lists.
IsForm(f) == List(f.entries)
IsTable(t) == List(t) /\ \A i \in DOMAIN t : IsForm(t[i])

LEMMA TupleOf5 ==
    ASSUME NEW a1, NEW a2, NEW a3, NEW a4, NEW a5
    PROVE  List(<<a1, a2, a3, a4, a5>>)
<1>1. <<a1, a2, a3, a4, a5>>
      \in Seq({a1, a2, a3, a4, a5})
  OBVIOUS
<1> QED
  BY <1>1, SeqIsList

LEMMA FormOf0 ==
    ASSUME NEW name
    PROVE  IsForm(Form(name, << >>))
BY EmptyList DEF IsForm, Form

LEMMA FormOf1 ==
    ASSUME NEW name, NEW a1
    PROVE  IsForm(Form(name, <<a1>>))
BY ListOfOne DEF IsForm, Form

LEMMA FormOf2 ==
    ASSUME NEW name, NEW a1, NEW a2
    PROVE  IsForm(Form(name, <<a1, a2>>))
BY TupleOf2 DEF IsForm, Form

LEMMA FormOf3 ==
    ASSUME NEW name, NEW a1, NEW a2, NEW a3
    PROVE  IsForm(Form(name, <<a1, a2, a3>>))
BY TupleOf3 DEF IsForm, Form

LEMMA FormOf4 ==
    ASSUME NEW name, NEW a1, NEW a2, NEW a3, NEW a4
    PROVE  IsForm(Form(name, <<a1, a2, a3, a4>>))
BY TupleOf4 DEF IsForm, Form

LEMMA FormOf5 ==
    ASSUME NEW name, NEW a1, NEW a2, NEW a3, NEW a4, NEW a5
    PROVE  IsForm(Form(name, <<a1, a2, a3, a4, a5>>))
BY TupleOf5 DEF IsForm, Form

LEMMA TableOf1 ==
    ASSUME NEW f1,
           IsForm(f1)
    PROVE  IsTable(<<f1>>)
<1> DEFINE table == <<f1>>
           all == {f1}
<1>1. table \in Seq(all) /\ \A f \in all : IsForm(f)
  OBVIOUS
<1> HIDE DEF table, all
<1>2. List(table) /\ \A i \in DOMAIN table : IsForm(table[i])
  BY <1>1, SeqIsList
<1> QED
  BY <1>2 DEF table, IsTable

LEMMA TableOf2 ==
    ASSUME NEW f1, NEW f2,
           IsForm(f1), IsForm(f2)
    PROVE  IsTable(<<f1, f2>>)
<1> DEFINE table == <<f1, f2>>
           all == {f1, f2}
<1>1. table \in Seq(all) /\ \A f \in all : IsForm(f)
  OBVIOUS
<1> HIDE DEF table, all
<1>2. List(table) /\ \A i \in DOMAIN table : IsForm(table[i])
  BY <1>1, SeqIsList
<1> QED
  BY <1>2 DEF table, IsTable

LEMMA TableOf3 ==
    ASSUME NEW f1, NEW f2, NEW f3,
           IsForm(f1), IsForm(f2), IsForm(f3)
    PROVE  IsTable(<<f1, f2, f3>>)
<1> DEFINE table == <<f1, f2, f3>>
           all == {f1, f2, f3}
<1>1. table \in Seq(all) /\ \A f \in all : IsForm(f)
  OBVIOUS
<1> HIDE DEF table, all
<1>2. List(table) /\ \A i \in DOMAIN table : IsForm(table[i])
  BY <1>1, SeqIsList
<1> QED
  BY <1>2 DEF table, IsTable

LEMMA TableOf4 ==
    ASSUME NEW f1, NEW f2, NEW f3, NEW f4,
           IsForm(f1), IsForm(f2), IsForm(f3), IsForm(f4)
    PROVE  IsTable(<<f1, f2, f3, f4>>)
<1> DEFINE table == <<f1, f2, f3, f4>>
           all == {f1, f2, f3, f4}
<1>1. table \in Seq(all) /\ \A f \in all : IsForm(f)
  OBVIOUS
<1> HIDE DEF table, all
<1>2. List(table) /\ \A i \in DOMAIN table : IsForm(table[i])
  BY <1>1, SeqIsList
<1> QED
  BY <1>2 DEF table, IsTable

LEMMA TableOf5 ==
    ASSUME NEW f1, NEW f2, NEW f3, NEW f4, NEW f5,
           IsForm(f1), IsForm(f2), IsForm(f3), IsForm(f4), IsForm(f5)
    PROVE  IsTable(<<f1, f2, f3, f4, f5>>)
<1> DEFINE table == <<f1, f2, f3, f4, f5>>
           all == {f1, f2, f3, f4, f5}
<1>1. table \in Seq(all) /\ \A f \in all : IsForm(f)
  OBVIOUS
<1> HIDE DEF table, all
<1>2. List(table) /\ \A i \in DOMAIN table : IsForm(table[i])
  BY <1>1, SeqIsList
<1> QED
  BY <1>2 DEF table, IsTable

LEMMA TableConcat == ASSUME NEW a, NEW b, IsTable(a), IsTable(b) PROVE IsTable(a \o b)
<1> DEFINE t == a \o b
<1>1. List(a) /\ List(b)
  BY DEF IsTable
<1>2. List(t)
  BY <1>1, ListConcat
<1>3. FromEither(t, a, b)
  BY <1>1, WithinConcat
<1> HIDE DEF t
<1>4. IsTable(t)
  BY <1>2, <1>3 DEF IsTable, FromEither
<1> QED
  BY <1>4 DEF t

LEMMA DefinitionFormsTable == IsTable(DefinitionForms)
  BY TableOf3, FormOf0, FormOf1, FormOf2, Zenon DEF DefinitionForms

LEMMA PurposeFormsTable == IsTable(PurposeForms)
  BY TableOf3, FormOf1, FormOf2, Zenon DEF PurposeForms

LEMMA UseFormsTable == IsTable(UseForms)
  BY TableOf3, FormOf2, Zenon DEF UseForms

LEMMA ConditionFormsTable == IsTable(ConditionForms)
  BY TableOf2, FormOf1, FormOf2, Zenon DEF ConditionForms

LEMMA VerbFormsTable == IsTable(VerbForms)
  BY TableOf1, FormOf4, Zenon DEF VerbForms

LEMMA MeaningFormsTable == IsTable(MeaningForms)
  BY TableOf4, FormOf1, FormOf2, Zenon DEF MeaningForms

LEMMA LateFormsTable == IsTable(LateForms)
  BY TableOf5, FormOf1, Zenon DEF LateForms

LEMMA LastFormsTable == IsTable(LastForms)
  BY TableOf2, FormOf1, Zenon DEF LastForms

LEMMA FormulaInputFormsTable == IsTable(FormulaInputForms)
  BY TableOf1, FormOf3, Zenon DEF FormulaInputForms

LEMMA PortfolioFormsTable == IsTable(PortfolioForms)
  BY TableOf3, FormOf2, FormOf4, FormOf5, Zenon DEF PortfolioForms

LEMMA RiskFormsTable == IsTable(RiskForms)
  BY TableOf4, FormOf1, FormOf2, FormOf3, Zenon DEF RiskForms

LEMMA SentenceFormsTable == IsTable(SentenceForms)
  BY TableOf2, FormOf1, Zenon DEF SentenceForms

LEMMA TopUpFormsTable == IsTable(TopUpForms)
<1>1. IsTable(DefinitionForms \o PurposeForms)
  BY DefinitionFormsTable, PurposeFormsTable, TableConcat
<1>2. IsTable(DefinitionForms \o PurposeForms \o UseForms)
  BY <1>1, UseFormsTable, TableConcat
<1>3. IsTable(DefinitionForms \o PurposeForms \o UseForms \o ConditionForms)
  BY <1>2, ConditionFormsTable, TableConcat
<1>4. IsTable(DefinitionForms \o PurposeForms \o UseForms \o ConditionForms \o VerbForms)
  BY <1>3, VerbFormsTable, TableConcat
<1>5. IsTable(DefinitionForms \o PurposeForms \o UseForms \o ConditionForms \o VerbForms \o MeaningForms)
  BY <1>4, MeaningFormsTable, TableConcat
<1>6. IsTable(DefinitionForms \o PurposeForms \o UseForms \o ConditionForms \o VerbForms \o MeaningForms
                \o LateForms)
  BY <1>5, LateFormsTable, TableConcat
<1>7. IsTable(DefinitionForms \o PurposeForms \o UseForms \o ConditionForms \o VerbForms \o MeaningForms
                \o LateForms \o LastForms)
  BY <1>6, LastFormsTable, TableConcat
<1> QED
  BY <1>7 DEF TopUpForms

---------------------------------------------------------------------------
\* Cards that ask for no formula, and those made for a concept.
Ordinary(x) == IsCard(x) /\ x.asks.formula = "none"
CardFor(c, x) == Ordinary(x) /\ x.concept = c.id /\ x.outcome = c.outcome
MadeFor(c, s) == List(s) /\ \A i \in DOMAIN s : CardFor(c, s[i])

LEMMA MadeIsDeck == ASSUME NEW c, NEW s, MadeFor(c, s) PROVE IsDeck(s)
BY DEF MadeFor, CardFor, Ordinary, IsDeck

LEMMA MadeNone == ASSUME NEW c PROVE MadeFor(c, << >>)
BY EmptyList DEF MadeFor

LEMMA MadeOne == ASSUME NEW c, NEW x, CardFor(c, x) PROVE MadeFor(c, <<x>>)
<1>1. List(<<x>>) /\ \A i \in DOMAIN <<x>> : <<x>>[i] = x
  BY ListOfOne
<1> QED
  BY <1>1 DEF MadeFor

LEMMA MadeConcat ==
    ASSUME NEW c, NEW a, NEW b, MadeFor(c, a), MadeFor(c, b) PROVE MadeFor(c, a \o b)
<1> DEFINE t == a \o b
<1>1. List(a) /\ List(b)
  BY DEF MadeFor
<1>2. List(t)
  BY <1>1, ListConcat
<1>3. FromEither(t, a, b)
  BY <1>1, WithinConcat
<1> HIDE DEF t
<1>4. MadeFor(c, t)
  BY <1>2, <1>3 DEF MadeFor, FromEither
<1> QED
  BY <1>4 DEF t

LEMMA MadeFlatten ==
    ASSUME NEW c, NEW ss, List(ss), \A i \in DOMAIN ss : MadeFor(c, ss[i])
    PROVE  MadeFor(c, FlattenSeq(ss))
<1> DEFINE t == FlattenSeq(ss)
<1>1. \A i \in DOMAIN ss : List(ss[i])
  BY DEF MadeFor
<1>2. List(t) /\ \A k \in DOMAIN t : \E i \in DOMAIN ss : \E j \in DOMAIN ss[i] : t[k] = ss[i][j]
  BY <1>1, ListFlatten
<1> HIDE DEF t
<1>3. MadeFor(c, t)
  BY <1>2 DEF MadeFor
<1> QED
  BY <1>3 DEF t

LEMMA MadeFirstN ==
    ASSUME NEW c, NEW s, MadeFor(c, s), NEW n \in Nat PROVE MadeFor(c, FirstN(s, n))
BY ListFirstN DEF MadeFor

LEMMA MadeUnique ==
    ASSUME NEW c, NEW s, MadeFor(c, s), NEW limit \in Nat PROVE MadeFor(c, Unique(s, limit))
<1>1. IsDeck(s)
  BY MadeIsDeck
<1> DEFINE t == Unique(s, limit)
<1>2. IsDeck(t) /\ Within(t, s)
  BY <1>1, UniqueCards
<1> HIDE DEF t
<1>3. MadeFor(c, t)
  BY <1>2 DEF MadeFor, IsDeck, Within
<1> QED
  BY <1>3 DEF t

\* One card of a concept.
LEMMA CardMade ==
    ASSUME NEW c, NEW from, NEW kind, NEW n, NEW asks, NEW score \in 0..4,
           asks.formula = "none"
    PROVE  CardFor(c, Card(c, from, kind, n, asks, score))
BY DEF CardFor, Ordinary, IsCard, Card

LEMMA QuestionMade == ASSUME NEW q, NEW about PROVE Question(q, about).formula = "none"
BY DEF Question

LEMMA Asking ==
    ASSUME NEW c, NEW from, NEW kind, NEW n, NEW q, NEW about, NEW score \in 0..4
    PROVE  CardFor(c, Card(c, from, kind, n, Question(q, about), score))
BY CardMade, QuestionMade

LEMMA NotEmpty == ASSUME NEW s, List(s), s # << >> PROVE 1 \in DOMAIN s /\ Len(s) >= 1
<1> DEFINE S == {s[i] : i \in DOMAIN s}
<1>1. s \in Seq(S)
  BY DEF List
<1> HIDE DEF S
<1>2. Len(s) \in Nat /\ Len(s) # 0 /\ DOMAIN s = 1..Len(s)
  BY <1>1
<1> QED
  BY <1>2

---------------------------------------------------------------------------
\* The cards of a family.
LEMMA AskedList == ASSUME NEW f, IsFamily(f), NEW text PROVE List(Asked(f, text))
<1> DEFINE I == {i \in DOMAIN f.rules : Holds(f.rules[i].when, text)}
           given == At(f.rules, I)
           ss == [i \in DOMAIN given |-> given[i].cards]
<1>1. List(given) /\ \A k \in DOMAIN given : \E i \in I : given[k] = f.rules[i]
  <2>1. I \in SUBSET DOMAIN f.rules /\ List(f.rules)
    BY DEF IsFamily
  <2> HIDE DEF I
  <2> QED
    BY <2>1, ListAt
<1>2. Asked(f, text) = IF Holds(f.gate, text) /\ f.except \cap text = {} THEN FlattenSeq(ss) ELSE << >>
  BY DEF Asked, Selected
<1> HIDE DEF given
<1>3. List(ss) /\ DOMAIN ss = DOMAIN given
  <2>1. ss = [i \in DOMAIN given |-> ss[i]]
    OBVIOUS
  <2> HIDE DEF ss
  <2> QED
    BY <1>1, <2>1, ListMapped
<1>4. \A i \in DOMAIN ss : List(ss[i])
  <2>1. TAKE i \in DOMAIN ss
  <2>2. PICK j \in DOMAIN f.rules : given[i] = f.rules[j]
    BY <1>1, <1>3
  <2> QED
    BY <1>3, <2>2 DEF IsFamily, IsRule
<1> HIDE DEF ss
<1>5. List(FlattenSeq(ss))
  BY <1>3, <1>4, ListFlatten
<1> QED
  BY <1>2, <1>5, EmptyList

LEMMA AskedOfAllList == ASSUME NEW fs, AreFamilies(fs), NEW text PROVE List(AskedOfAll(fs, text))
<1> DEFINE ss == [i \in DOMAIN fs |-> Asked(fs[i], text)]
<1>1. AskedOfAll(fs, text) = FlattenSeq(ss)
  BY DEF AskedOfAll
<1>2. List(ss) /\ DOMAIN ss = DOMAIN fs
  <2>1. ss = [i \in DOMAIN fs |-> ss[i]]
    OBVIOUS
  <2> HIDE DEF ss
  <2> QED
    BY <2>1, ListMapped DEF AreFamilies
<1>3. \A i \in DOMAIN ss : List(ss[i])
  BY <1>2, AskedList DEF AreFamilies
<1> HIDE DEF ss
<1> QED
  BY <1>1, <1>2, <1>3, ListFlatten

LEMMA FixedMade == ASSUME NEW c, NEW fs, AreFamilies(fs) PROVE MadeFor(c, FixedCards(c, fs))
<1> DEFINE names == AskedOfAll(fs, c.text)
           t == [i \in DOMAIN names |->
                  Card(c, "fixed", names[i], 0, Question(QuestionOf(names[i]), ""), 0)]
<1>1. List(names)
  BY AskedOfAllList
<1>2. FixedCards(c, fs) = t
  BY DEF FixedCards
<1> HIDE DEF names
<1>3. List(t) /\ DOMAIN t = DOMAIN names
  <2>1. t = [i \in DOMAIN names |-> t[i]]
    OBVIOUS
  <2> HIDE DEF t
  <2> QED
    BY <1>1, <2>1, ListMapped
<1>4. \A i \in DOMAIN t : CardFor(c, t[i])
  <2>1. TAKE i \in DOMAIN t
  <2>2. t[i] = Card(c, "fixed", names[i], 0, Question(QuestionOf(names[i]), ""), 0)
    BY <1>3
  <2>3. 0 \in 0..4
    OBVIOUS
  <2> HIDE DEF t
  <2> QED
    BY <2>2, <2>3, Asking
<1> QED
  BY <1>2, <1>3, <1>4 DEF MadeFor

LEMMA SomeFamilies ==
    /\ AreFamilies(<<ModuleAnchors>>) /\ AreFamilies(<<InsuranceAnchors>>)
    /\ AreFamilies(<<ProbabilityRelationships>>)
    /\ AreFamilies(<<RegressionAnchors, ExpectedLossAnchors>>)
    /\ AreFamilies(<<RiskManagementProcess, LearningObjectiveCommands>>)
<1>1. ASSUME NEW f, IsFamily(f) PROVE AreFamilies(<<f>>)
  <2>1. List(<<f>>) /\ \A i \in DOMAIN <<f>> : <<f>>[i] = f
    BY ListOfOne
  <2> QED
    BY <1>1, <2>1 DEF AreFamilies
<1>2. ASSUME NEW f, NEW g, IsFamily(f), IsFamily(g) PROVE AreFamilies(<<f, g>>)
  <2> DEFINE t == <<f, g>>
  <2>1. t \in Seq({f, g})
    OBVIOUS
  <2> HIDE DEF t
  <2>2. List(t) /\ \A i \in DOMAIN t : t[i] \in {f, g}
    BY <2>1, SeqIsList
  <2>3. AreFamilies(t)
    BY <1>2, <2>2 DEF AreFamilies
  <2> QED
    BY <2>3 DEF t
<1> QED
  BY <1>1, <1>2, ModuleAnchorsFamily, InsuranceAnchorsFamily, ProbabilityRelationshipsFamily,
     RegressionAnchorsFamily, ExpectedLossAnchorsFamily, RiskManagementProcessFamily,
     LearningObjectiveCommandsFamily, Zenon

---------------------------------------------------------------------------
\* The cards of a sentence.
Entries(es) == List(es) /\ \A i \in DOMAIN es : es[i].score \in 0..4

LEMMA CardsOfFormEntries == ASSUME NEW f, IsForm(f), NEW s PROVE Entries(CardsOfForm(f, s))
<1> DEFINE I == {i \in DOMAIN f.entries : /\ f.entries[i].with \subseteq s.has
                                          /\ f.entries[i].without \cap s.has = {}}
           given == At(f.entries, I)
           t == [i \in DOMAIN given |-> FromEntry(given[i], s)]
<1>1. List(given)
  BY ListAt DEF IsForm
<1>2. CardsOfForm(f, s) = IF ~s.usable THEN << >> ELSE t
  BY DEF CardsOfForm, Selected
<1> HIDE DEF given
<1>3. List(t) /\ DOMAIN t = DOMAIN given
  <2>1. t = [i \in DOMAIN given |-> t[i]]
    OBVIOUS
  <2> HIDE DEF t
  <2> QED
    BY <1>1, <2>1, ListMapped
<1>4. \A i \in DOMAIN t : t[i].score \in 0..4
  <2>1. TAKE i \in DOMAIN t
  <2>2. t[i] = FromEntry(given[i], s)
    BY <1>3
  <2>3. FromEntry(given[i], s).score \in {0, 2, 4}
    BY DEF FromEntry
  <2> HIDE DEF t
  <2> QED
    BY <2>2, <2>3
<1> HIDE DEF t
<1> QED
  BY <1>2, <1>3, <1>4, EmptyList DEF Entries

LEMMA MatchedForms ==
    ASSUME NEW table, IsTable(table), NEW s
    PROVE  IsTable(At(table, {i \in DOMAIN table : table[i].name \in s.forms}))
<1> DEFINE I == {i \in DOMAIN table : table[i].name \in s.forms}
           t == At(table, I)
<1>1. I \in SUBSET DOMAIN table /\ List(table)
  BY DEF IsTable
<1> HIDE DEF I
<1>2. List(t) /\ \A k \in DOMAIN t : \E i \in I : t[k] = table[i]
  BY <1>1, ListAt
<1> HIDE DEF t
<1>3. IsTable(t)
  BY <1>1, <1>2 DEF IsTable
<1> QED
  BY <1>3 DEF t, I

LEMMA FirstOfEntries == ASSUME NEW table, IsTable(table), NEW s PROVE Entries(FirstOf(table, s))
<1> DEFINE matched == At(table, {i \in DOMAIN table : table[i].name \in s.forms})
<1>1. IsTable(matched)
  BY MatchedForms
<1>2. FirstOf(table, s) = IF matched = << >> THEN << >> ELSE CardsOfForm(matched[1], s)
  BY DEF FirstOf, Selected
<1> HIDE DEF matched
<1>3. CASE matched = << >>
  BY <1>2, <1>3, EmptyList DEF Entries
<1>4. CASE matched # << >>
  <2>1. IsForm(matched[1])
    BY <1>1, <1>4, NotEmpty DEF IsTable
  <2> QED
    BY <1>2, <1>4, <2>1, CardsOfFormEntries
<1> QED
  BY <1>3, <1>4

LEMMA EachOfEntries == ASSUME NEW table, IsTable(table), NEW s PROVE Entries(EachOf(table, s))
<1> DEFINE matched == At(table, {i \in DOMAIN table : table[i].name \in s.forms})
           ss == [i \in DOMAIN matched |-> CardsOfForm(matched[i], s)]
           t == FlattenSeq(ss)
<1>1. IsTable(matched)
  BY MatchedForms
<1>2. EachOf(table, s) = t
  BY DEF EachOf, Selected
<1> HIDE DEF matched
<1>3. List(ss) /\ DOMAIN ss = DOMAIN matched
  <2>1. ss = [i \in DOMAIN matched |-> ss[i]]
    OBVIOUS
  <2> HIDE DEF ss
  <2> QED
    BY <1>1, <2>1, ListMapped DEF IsTable
<1>4. \A i \in DOMAIN ss : Entries(ss[i])
  BY <1>1, <1>3, CardsOfFormEntries DEF IsTable
<1> HIDE DEF ss
<1>5. List(t) /\ \A k \in DOMAIN t : \E i \in DOMAIN ss : \E j \in DOMAIN ss[i] : t[k] = ss[i][j]
  BY <1>3, <1>4, ListFlatten DEF Entries
<1> HIDE DEF t
<1> QED
  BY <1>2, <1>4, <1>5 DEF Entries

LEMMA SentenceCardsMade ==
    ASSUME NEW c, NEW from, NEW n, NEW entries, Entries(entries)
    PROVE  MadeFor(c, SentenceCards(c, from, n, entries))
<1> DEFINE t == [i \in DOMAIN entries |->
                  Card(c, from, entries[i].kind, n, Question(entries[i].question, entries[i].about),
                       entries[i].score)]
<1>1. SentenceCards(c, from, n, entries) = t
  BY DEF SentenceCards
<1>2. List(t) /\ DOMAIN t = DOMAIN entries
  <2>1. t = [i \in DOMAIN entries |-> t[i]]
    OBVIOUS
  <2> HIDE DEF t
  <2> QED
    BY <2>1, ListMapped DEF Entries
<1>3. \A i \in DOMAIN t : CardFor(c, t[i])
  BY <1>2, Asking DEF Entries
<1> QED
  BY <1>1, <1>2, <1>3 DEF MadeFor

---------------------------------------------------------------------------
\* The generators of a concept make cards for it.
LEMMA MappedMade ==
    ASSUME NEW c, NEW s, List(s), NEW ss, ss = [i \in DOMAIN s |-> ss[i]],
           \A i \in DOMAIN s : MadeFor(c, ss[i])
    PROVE  MadeFor(c, FlattenSeq(ss))
<1>1. List(ss) /\ DOMAIN ss = DOMAIN s
  BY ListMapped
<1> QED
  BY <1>1, MadeFlatten

LEMMA TopUpsMade ==
    ASSUME NEW c, NEW sentences, List(sentences), NEW after
    PROVE  MadeFor(c, TopUps(c, sentences, after))
<1> DEFINE ss == [i \in DOMAIN sentences |->
                   SentenceCards(c, "top-up", after + i, FirstOf(TopUpForms, sentences[i]))]
<1>1. TopUps(c, sentences, after) = FlattenSeq(ss)
  BY DEF TopUps
<1>2. \A i \in DOMAIN sentences : MadeFor(c, ss[i])
  <2>1. TAKE i \in DOMAIN sentences
  <2>2. Entries(FirstOf(TopUpForms, sentences[i]))
    BY TopUpFormsTable, FirstOfEntries
  <2> QED
    BY <2>2, SentenceCardsMade
<1>3. ss = [i \in DOMAIN sentences |-> ss[i]]
  OBVIOUS
<1> HIDE DEF ss
<1> QED
  BY <1>1, <1>2, <1>3, MappedMade

LEMMA AnchorSentencesMade ==
    ASSUME NEW c, List(c.sentences), NEW table, IsTable(table)
    PROVE  MadeFor(c, AnchorSentences(c, table))
<1> DEFINE ss == [i \in DOMAIN c.sentences |->
                   SentenceCards(c, "lo-anchor", i, EachOf(table, c.sentences[i]))]
<1>1. AnchorSentences(c, table) = FlattenSeq(ss)
  BY DEF AnchorSentences
<1>2. \A i \in DOMAIN c.sentences : MadeFor(c, ss[i])
  <2>1. TAKE i \in DOMAIN c.sentences
  <2>2. Entries(EachOf(table, c.sentences[i]))
    BY EachOfEntries
  <2> QED
    BY <2>2, SentenceCardsMade
<1>3. ss = [i \in DOMAIN c.sentences |-> ss[i]]
  OBVIOUS
<1> HIDE DEF ss
<1> QED
  BY <1>1, <1>2, <1>3, MappedMade

LEMMA Limits ==
    /\ MAX_GENERATED = 32 /\ MAX_FLASHCARDS_PER_CONCEPT = 24
    /\ MIN_FLASHCARDS_PER_CONCEPT = 10 /\ MIN_FLASHCARDS_PER_LEARNING_OUTCOME = 10
BY DEF MAX_GENERATED, MAX_FLASHCARDS_PER_CONCEPT, MIN_FLASHCARDS_PER_CONCEPT,
       MIN_FLASHCARDS_PER_LEARNING_OUTCOME

LEMMA AgnosticMade == ASSUME NEW c PROVE MadeFor(c, Agnostic(c))
<1>1. MadeFor(c, FixedCards(c, AgnosticFamilies))
  BY AgnosticFamiliesAre, FixedMade
<1>2. MadeFor(c, Unique(FixedCards(c, AgnosticFamilies), MAX_GENERATED))
  BY <1>1, Limits, MadeUnique
<1> QED
  BY <1>2, MadeNone DEF Agnostic

LEMMA BalancedMade == ASSUME NEW c PROVE MadeFor(c, Balanced(c))
<1>1. MadeFor(c, FixedCards(c, <<InsuranceAnchors>>))
  BY SomeFamilies, FixedMade
<1>2. MadeFor(c, Unique(FixedCards(c, <<InsuranceAnchors>>), MAX_GENERATED))
  BY <1>1, Limits, MadeUnique
<1> QED
  BY <1>2, MadeNone DEF Balanced

LEMMA ModuleAnchorMade == ASSUME NEW c, List(c.sentences) PROVE MadeFor(c, ModuleAnchor(c))
<1> DEFINE a == TopUps(c, FirstN(c.sentences, 16), 0)
           b == FixedCards(c, <<ModuleAnchors>>)
<1>1. MadeFor(c, a)
  BY ListFirstN, TopUpsMade
<1>2. MadeFor(c, b)
  BY SomeFamilies, FixedMade
<1>3. ModuleAnchor(c) = IF c.valid THEN Unique(a \o b, MAX_GENERATED) ELSE << >>
  BY DEF ModuleAnchor
<1> HIDE DEF a, b
<1>4. MadeFor(c, Unique(a \o b, MAX_GENERATED))
  BY <1>1, <1>2, Limits, MadeConcat, MadeUnique
<1> QED
  BY <1>3, <1>4, MadeNone

LEMMA OutcomeAnchorMade == ASSUME NEW c, List(c.sentences) PROVE MadeFor(c, OutcomeAnchor(c))
<1> DEFINE a == AnchorSentences(c, FormulaInputForms)
           b == FixedCards(c, <<RegressionAnchors, ExpectedLossAnchors>>)
           d == AnchorSentences(c, PortfolioForms \o RiskForms)
<1>1. MadeFor(c, a)
  BY FormulaInputFormsTable, AnchorSentencesMade
<1>2. MadeFor(c, b)
  BY SomeFamilies, FixedMade
<1>3. MadeFor(c, d)
  BY PortfolioFormsTable, RiskFormsTable, TableConcat, AnchorSentencesMade
<1>4. OutcomeAnchor(c) = IF c.valid THEN Unique(a \o b \o d, MAX_GENERATED) ELSE << >>
  BY DEF OutcomeAnchor
<1> HIDE DEF a, b, d
<1>5. MadeFor(c, a \o b)
  BY <1>1, <1>2, MadeConcat
<1>6. MadeFor(c, Unique(a \o b \o d, MAX_GENERATED))
  BY <1>3, <1>5, Limits, MadeConcat, MadeUnique
<1> QED
  BY <1>4, <1>6, MadeNone

LEMMA ConceptTopUpsMade == ASSUME NEW c, List(c.sentences) PROVE MadeFor(c, ConceptTopUps(c))
<1>1. MadeFor(c, Agnostic(c) \o ModuleAnchor(c))
  BY AgnosticMade, ModuleAnchorMade, MadeConcat
<1> QED
  BY <1>1, OutcomeAnchorMade, MadeConcat DEF ConceptTopUps

LEMMA MadeSeq ==
    ASSUME NEW c, NEW S, NEW s \in Seq(S), \A x \in S : CardFor(c, x) PROVE MadeFor(c, s)
<1>1. List(s) /\ \A i \in DOMAIN s : s[i] \in S
  BY SeqIsList
<1> QED
  BY <1>1 DEF MadeFor

LEMMA MinimumMade ==
    ASSUME NEW c, List(c.keyTerms), List(c.otherTerms) PROVE MadeFor(c, Minimum(c))
<1> DEFINE found == Deduped(c.keyTerms \o c.otherTerms)
           terms == IF found = << >> /\ c.topic # "" THEN <<c.topic>> ELSE found
           topic == IF c.topic # "" THEN c.topic ELSE terms[1]
           Ask(n, kind, about) == Card(c, "minimum", kind, n, Question(kind, about), 0)
           used == FirstN(terms, 10)
           two == <<Ask(0, "core-point", topic), Ask(0, "exam-use", topic)>>
           four(n) == <<Ask(n, "exam-fact", used[n]), Ask(n, "why-matters", used[n]),
                        Ask(n, "source-description", used[n]), Ask(n, "linked-detail", used[n])>>
           ss == [n \in DOMAIN used |-> four(n)]
<1>1. Minimum(c) = IF ~c.valid \/ terms = << >> THEN << >>
                   ELSE Unique(two \o FlattenSeq(ss), MAX_GENERATED)
  BY DEF Minimum
<1>2. List(used)
  <2>1. List(found)
    BY ListConcat, ListDeduped
  <2> HIDE DEF found
  <2>2. List(terms)
    BY <2>1, ListOfOne
  <2> HIDE DEF terms
  <2> QED
    BY <2>2, ListFirstN
<1>3. \A n, kind, about : CardFor(c, Ask(n, kind, about))
  <2>1. 0 \in 0..4
    OBVIOUS
  <2> QED
    BY <2>1, Asking
<1> HIDE DEF used, topic, terms, Ask
<1>4. MadeFor(c, two)
  <2> DEFINE x == Ask(0, "core-point", topic)
             y == Ask(0, "exam-use", topic)
  <2>1. CardFor(c, x) /\ CardFor(c, y)
    BY <1>3
  <2> HIDE DEF x, y
  <2> DEFINE S == {x, y}
  <2>2. <<x, y>> \in Seq(S) /\ \A v \in S : CardFor(c, v)
    BY <2>1
  <2> HIDE DEF S
  <2>3. MadeFor(c, <<x, y>>)
    BY <2>2, MadeSeq
  <2> QED
    BY <2>3 DEF x, y
<1>5. \A n \in DOMAIN used : MadeFor(c, ss[n])
  <2>1. TAKE n \in DOMAIN used
  <2> DEFINE w == Ask(n, "exam-fact", used[n])
             x == Ask(n, "why-matters", used[n])
             y == Ask(n, "source-description", used[n])
             z == Ask(n, "linked-detail", used[n])
  <2>2. CardFor(c, w) /\ CardFor(c, x) /\ CardFor(c, y) /\ CardFor(c, z)
    BY <1>3
  <2>3. ss[n] = <<w, x, y, z>>
    OBVIOUS
  <2> HIDE DEF ss, w, x, y, z
  <2> DEFINE S == {w, x, y, z}
  <2>4. <<w, x, y, z>> \in Seq(S) /\ \A v \in S : CardFor(c, v)
    BY <2>2
  <2> HIDE DEF S
  <2>5. MadeFor(c, <<w, x, y, z>>)
    BY <2>4, MadeSeq
  <2> QED
    BY <2>3, <2>5
<1>6. ss = [n \in DOMAIN used |-> ss[n]]
  OBVIOUS
<1> HIDE DEF ss, two
<1>7. MadeFor(c, FlattenSeq(ss))
  BY <1>2, <1>5, <1>6, MappedMade
<1>8. MadeFor(c, Unique(two \o FlattenSeq(ss), MAX_GENERATED))
  BY <1>4, <1>7, Limits, MadeConcat, MadeUnique
<1> QED
  BY <1>1, <1>8, MadeNone

---------------------------------------------------------------------------
\* Several concepts read as one.
AreConcepts(cs) == List(cs) /\ \A i \in DOMAIN cs : IsConcept(cs[i])

LEMMA MadeSame ==
    ASSUME NEW c, NEW d, c.id = d.id, c.outcome = d.outcome, NEW s, MadeFor(c, s)
    PROVE  MadeFor(d, s)
BY DEF MadeFor, CardFor

LEMMA ContextOf ==
    ASSUME NEW c, IsConcept(c), NEW v, NEW t, NEW s, NEW k, NEW o, NEW u
    PROVE  LET d == [c EXCEPT !.valid = v, !.text = t, !.sentences = s, !.keyTerms = k,
                              !.otherTerms = o, !.unfit = u]
           IN  /\ d.id = c.id /\ d.outcome = c.outcome
               /\ d.sentences = s /\ d.keyTerms = k /\ d.otherTerms = o
BY DEF IsConcept

LEMMA ListedList == ASSUME List(hashOrder), NEW terms PROVE List(Listed(terms))
<1> DEFINE I == {i \in DOMAIN hashOrder : hashOrder[i] \in terms}
<1>1. Listed(terms) = At(hashOrder, I)
  BY DEF Listed, Selected
<1>2. I \in SUBSET DOMAIN hashOrder
  OBVIOUS
<1> HIDE DEF I
<1> QED
  BY <1>1, <1>2, ListAt

LEMMA WindowLists ==
    ASSUME IsSection(section), NEW outcome
    PROVE  List(Window(outcome).sentences) /\ List(Window(outcome).terms)
<1>1. CASE outcome \in DOMAIN section.windows
  BY <1>1 DEF Window, IsSection
<1>2. CASE outcome \notin DOMAIN section.windows
  BY <1>2, EmptyList DEF Window
<1> QED
  BY <1>1, <1>2

LEMMA FlattenMapped ==
    ASSUME NEW s, List(s), NEW ss, ss = [i \in DOMAIN s |-> ss[i]],
           \A i \in DOMAIN s : List(ss[i])
    PROVE  List(FlattenSeq(ss))
<1>1. List(ss) /\ DOMAIN ss = DOMAIN s
  BY ListMapped
<1> QED
  BY <1>1, ListFlatten

LEMMA AggregateMade ==
    ASSUME IsSection(section), List(hashOrder), NEW outcome,
           NEW cs, AreConcepts(cs), cs # << >>
    PROVE  MadeFor(cs[1], Aggregate(outcome, cs))
<1> DEFINE primary == cs[1]
           v == ~Window(outcome).spoils /\ \A i \in DOMAIN cs : ~cs[i].spoils
           t == UNION {cs[i].text : i \in DOMAIN cs} \cup Window(outcome).text
           sentences == FlattenSeq([i \in DOMAIN cs |-> cs[i].sentences]) \o Window(outcome).sentences
           terms == Deduped(primary.keyTerms \o Listed(AnchorTerms(cs)))
           others == FlattenSeq([i \in DOMAIN cs |-> cs[i].otherTerms]) \o Window(outcome).terms
           context == [primary EXCEPT !.valid = v, !.text = t, !.sentences = sentences,
                                      !.keyTerms = terms, !.otherTerms = others,
                                      !.unfit = JoinedUnfit(cs)]
           Ask(kind) == Card(context, "aggregate", kind, 0, Question(kind, ""), 0)
           keyTerms == Deduped(FlattenSeq([i \in DOMAIN cs |-> cs[i].keyTerms]))
           a == IF {"r-squared", "residual", "outlier"} \subseteq context.text
                THEN <<Ask("r-squared-vs-residuals"), Ask("outliers-after-fitting")>> ELSE << >>
           b == IF Len(keyTerms) >= 4 THEN <<Ask("key-terms-list")>> ELSE << >>
           d == TopUps(context, context.sentences, 200)
<1>1. Aggregate(outcome, cs) =
        IF cs = << >> \/ context.sentences = << >> THEN << >>
        ELSE Unique(a \o b \o OutcomeAnchor(context) \o d \o Minimum(context), MAX_GENERATED)
  BY DEF Aggregate
<1>2. IsConcept(primary)
  BY NotEmpty DEF AreConcepts
<1>3. List(sentences) /\ List(others) /\ List(terms)
  <2>1. List(FlattenSeq([i \in DOMAIN cs |-> cs[i].sentences]))
    <3> DEFINE ss == [i \in DOMAIN cs |-> cs[i].sentences]
    <3>1. ss = [i \in DOMAIN cs |-> ss[i]] /\ \A i \in DOMAIN cs : List(ss[i])
      BY DEF AreConcepts, IsConcept
    <3> HIDE DEF ss
    <3>2. List(FlattenSeq(ss))
      BY <3>1, FlattenMapped DEF AreConcepts
    <3> QED
      BY <3>2 DEF ss
  <2>2. List(FlattenSeq([i \in DOMAIN cs |-> cs[i].otherTerms]))
    <3> DEFINE ss == [i \in DOMAIN cs |-> cs[i].otherTerms]
    <3>1. ss = [i \in DOMAIN cs |-> ss[i]] /\ \A i \in DOMAIN cs : List(ss[i])
      BY DEF AreConcepts, IsConcept
    <3> HIDE DEF ss
    <3>2. List(FlattenSeq(ss))
      BY <3>1, FlattenMapped DEF AreConcepts
    <3> QED
      BY <3>2 DEF ss
  <2>3. List(Window(outcome).sentences) /\ List(Window(outcome).terms)
    BY WindowLists
  <2>4. List(primary.keyTerms \o Listed(AnchorTerms(cs)))
    BY <1>2, ListedList, ListConcat DEF IsConcept
  <2>5. List(terms)
    BY <2>4, ListDeduped
  <2>6. List(sentences)
    BY <2>1, <2>3, ListConcat
  <2>7. List(others)
    BY <2>2, <2>3, ListConcat
  <2> QED
    BY <2>5, <2>6, <2>7
<1> HIDE DEF sentences, others, terms, v, t
<1>4. /\ context.id = primary.id /\ context.outcome = primary.outcome
      /\ context.sentences = sentences /\ context.keyTerms = terms /\ context.otherTerms = others
  BY <1>2, ContextOf
<1> HIDE DEF context, primary, keyTerms
<1>5. \A kind : CardFor(context, Ask(kind))
  <2>1. 0 \in 0..4
    OBVIOUS
  <2> QED
    BY <2>1, Asking
<1>6. MadeFor(context, a)
  <2> DEFINE x == Ask("r-squared-vs-residuals")
             y == Ask("outliers-after-fitting")
             S == {x, y}
  <2>1. CardFor(context, x) /\ CardFor(context, y)
    BY <1>5
  <2>2. a = IF {"r-squared", "residual", "outlier"} \subseteq context.text THEN <<x, y>> ELSE << >>
    OBVIOUS
  <2> HIDE DEF x, y, a
  <2>3. <<x, y>> \in Seq(S) /\ \A z \in S : CardFor(context, z)
    BY <2>1
  <2> HIDE DEF S
  <2>4. MadeFor(context, <<x, y>>)
    BY <2>3, MadeSeq
  <2> QED
    BY <2>2, <2>4, MadeNone
<1>7. MadeFor(context, b)
  <2> DEFINE x == Ask("key-terms-list")
  <2>1. CardFor(context, x)
    BY <1>5
  <2> HIDE DEF x
  <2>2. MadeFor(context, <<x>>)
    BY <2>1, MadeOne
  <2> QED
    BY <2>2, MadeNone DEF x
<1> HIDE DEF a, b
<1>8. MadeFor(context, d)
  BY <1>3, <1>4, TopUpsMade
<1> HIDE DEF d
<1>9. MadeFor(context, OutcomeAnchor(context)) /\ MadeFor(context, Minimum(context))
  BY <1>3, <1>4, OutcomeAnchorMade, MinimumMade
<1>10. MadeFor(context, a \o b)
  BY <1>6, <1>7, MadeConcat
<1>11. MadeFor(context, a \o b \o OutcomeAnchor(context))
  BY <1>9, <1>10, MadeConcat
<1>12. MadeFor(context, a \o b \o OutcomeAnchor(context) \o d)
  BY <1>8, <1>11, MadeConcat
<1>13. MadeFor(context, a \o b \o OutcomeAnchor(context) \o d \o Minimum(context))
  BY <1>9, <1>12, MadeConcat
<1>14. MadeFor(context, Aggregate(outcome, cs))
  BY <1>1, <1>13, Limits, MadeUnique, MadeNone
<1>15. MadeFor(primary, Aggregate(outcome, cs))
  BY <1>4, <1>14, MadeSame
<1> QED
  BY <1>15 DEF primary

---------------------------------------------------------------------------
\* The cards made from one concept alone.
LEMMA DefinitionCardMade == ASSUME NEW c PROVE MadeFor(c, DefinitionCard(c))
<1>1. 2 \in 0..4
  OBVIOUS
<1>2. \A from, about : CardFor(c, WhatIs(c, from, about, 2))
  BY <1>1, Asking DEF WhatIs
<1>3. \A from, about : MadeFor(c, <<WhatIs(c, from, about, 2)>>)
  BY <1>2, MadeOne
<1> QED
  BY <1>3, MadeNone DEF DefinitionCard

LEMMA ListCardMade == ASSUME NEW c PROVE MadeFor(c, ListCard(c))
<1>1. 0 \in 0..4
  OBVIOUS
<1>2. CardFor(c, Card(c, "list", "risk-management-components", 0,
                      Question("what is", "four components"), 0))
  BY <1>1, Asking
<1> QED
  BY <1>2, MadeOne, MadeNone DEF ListCard

LEMMA ComparisonCardMade == ASSUME NEW c PROVE MadeFor(c, ComparisonCard(c))
<1>1. 0 \in 0..4
  OBVIOUS
<1>2. CardFor(c, Card(c, "comparison", "risk-management-vs-taking", 0,
                      Question("difference", "risk taking"), 0))
  BY <1>1, Asking
<1> QED
  BY <1>2, MadeOne, MadeNone DEF ComparisonCard

LEMMA TrapCardMade == ASSUME NEW c PROVE MadeFor(c, TrapCard(c))
<1> DEFINE found == Selected(TrapTopics, LAMBDA t : Holds(t.when, c.text))
           x == Card(c, "trap", "exam-trap", 0, Question("trap", found[1].about), 0)
<1>1. TrapCard(c) = IF ~c.trap \/ found = << >> THEN << >> ELSE <<x>>
  BY DEF TrapCard
<1>2. 0 \in 0..4
  OBVIOUS
<1> HIDE DEF found
<1>3. CardFor(c, x)
  BY <1>2, Asking
<1> HIDE DEF x
<1> QED
  BY <1>1, <1>3, MadeOne, MadeNone

LEMMA StepCardsMade == ASSUME NEW c, c.steps \in Nat PROVE MadeFor(c, StepCards(c))
<1> DEFINE x == Card(c, "process", "steps", 0, Question("steps", c.topic), 0)
           m == IF c.steps < 6 THEN c.steps ELSE 6
           y(i) == Card(c, "process", "step", i, [Question("step", c.topic) EXCEPT !.n = i], 0)
           t == [i \in 1..m |-> y(i)]
<1>1. StepCards(c) = IF c.steps < 2 THEN << >> ELSE <<x>> \o t
  BY DEF StepCards
<1>2. 0 \in 0..4
  OBVIOUS
<1>3. MadeFor(c, <<x>>)
  BY <1>2, Asking, MadeOne
<1>4. m \in Nat
  OBVIOUS
<1>5. \A i : CardFor(c, y(i))
  <2>1. \A i : [Question("step", c.topic) EXCEPT !.n = i].formula = "none"
    BY DEF Question
  <2> QED
    BY <1>2, <2>1, CardMade
<1> HIDE DEF x, m, y
<1>6. List(t) /\ DOMAIN t = 1..m
  BY <1>4, FunctionIsList
<1>7. MadeFor(c, t)
  BY <1>5, <1>6 DEF MadeFor
<1> HIDE DEF t
<1>8. MadeFor(c, <<x>> \o t)
  BY <1>3, <1>7, MadeConcat
<1> QED
  BY <1>1, <1>8, MadeNone

LEMMA SentenceLevelCardsMade ==
    ASSUME NEW c, List(c.sentences) PROVE MadeFor(c, SentenceLevelCards(c))
<1> DEFINE some == FirstN(c.sentences, 8)
           ss == [i \in DOMAIN some |->
                   SentenceCards(c, "sentence", i, FirstOf(SentenceForms, some[i]))]
<1>1. SentenceLevelCards(c) = FirstN(FlattenSeq(ss), 4)
  BY DEF SentenceLevelCards
<1>2. List(some)
  BY ListFirstN
<1> HIDE DEF some
<1>3. \A i \in DOMAIN some : MadeFor(c, ss[i])
  <2>1. TAKE i \in DOMAIN some
  <2>2. Entries(FirstOf(SentenceForms, some[i]))
    BY SentenceFormsTable, FirstOfEntries
  <2> QED
    BY <2>2, SentenceCardsMade
<1>4. ss = [i \in DOMAIN some |-> ss[i]]
  OBVIOUS
<1> HIDE DEF ss
<1>5. MadeFor(c, FlattenSeq(ss))
  BY <1>2, <1>3, <1>4, MappedMade
<1> QED
  BY <1>1, <1>5, MadeFirstN

LEMMA TermCardsMade == ASSUME NEW c, List(c.keyTerms) PROVE MadeFor(c, TermCards(c))
<1> DEFINE used == FirstN(c.keyTerms, 4)
           Defining(t) == {i \in DOMAIN c.sentences :
                             /\ c.sentences[i].about = t
                             /\ "definition" \in c.sentences[i].forms}
           Score(t) == IF \E i \in Defining(t) : "article" \in c.sentences[i].has THEN 3 ELSE 0
           made == [i \in DOMAIN used |->
                     Card(c, "term", "term", i, Question("what is", used[i]), Score(used[i]))]
           I == {i \in DOMAIN used : Defining(used[i]) # {}}
           t == At(made, I)
<1>1. TermCards(c) = t
  BY DEF TermCards
<1>2. \A x : Score(x) \in 0..4
  OBVIOUS
<1>3. List(used)
  BY ListFirstN
<1> HIDE DEF used, Score
<1>4. List(made) /\ DOMAIN made = DOMAIN used
  <2>1. made = [i \in DOMAIN used |-> made[i]]
    OBVIOUS
  <2> HIDE DEF made
  <2> QED
    BY <1>3, <2>1, ListMapped
<1>5. \A i \in DOMAIN made : CardFor(c, made[i])
  <2>1. TAKE i \in DOMAIN made
  <2>2. made[i] = Card(c, "term", "term", i, Question("what is", used[i]), Score(used[i]))
    BY <1>4
  <2> HIDE DEF made
  <2> QED
    BY <1>2, <2>2, Asking
<1>6. I \in SUBSET DOMAIN made
  BY <1>4
<1> HIDE DEF made, I
<1>7. List(t) /\ \A k \in DOMAIN t : \E i \in I : t[k] = made[i]
  BY <1>4, <1>6, ListAt
<1> HIDE DEF t
<1> QED
  BY <1>1, <1>5, <1>6, <1>7 DEF MadeFor

LEMMA AnchorCardMade == ASSUME NEW c PROVE MadeFor(c, AnchorCard(c))
<1> DEFINE about == IF c.keyTerms # << >> THEN c.keyTerms[1] ELSE c.topic
           x == Card(c, "source", "source-anchor", 0, Question("remember", about), 0)
<1>1. AnchorCard(c) = IF c.sentences = << >> \/ (c.keyTerms = << >> /\ c.topic = "")
                      THEN << >> ELSE <<x>>
  BY DEF AnchorCard
<1>2. 0 \in 0..4
  OBVIOUS
<1>3. CardFor(c, x)
  BY <1>2, Asking
<1> HIDE DEF x
<1> QED
  BY <1>1, <1>3, MadeOne, MadeNone

---------------------------------------------------------------------------
\* A concept's own cards, and the section's own top-up.
LEMMA ContentSpecificMade ==
    ASSUME NEW c, IsConcept(c) PROVE MadeFor(c, ContentSpecific(c))
<1> DEFINE a == FixedCards(c, ProviderFamilies)
           b == FixedCards(c, <<RiskManagementProcess, LearningObjectiveCommands>>)
           p == FixedCards(c, <<ProbabilityRelationships>>)
           s1 == a \o DefinitionCard(c)
           s2 == s1 \o ListCard(c)
           s3 == s2 \o ComparisonCard(c)
           s4 == s3 \o TrapCard(c)
           s5 == s4 \o b
           s6 == s5 \o StepCards(c)
           s7 == s6 \o SentenceLevelCards(c)
           s8 == s7 \o TermCards(c)
           m0 == IfNone(s8, AnchorCard(c))
           m1 == m0 \o p
           m2 == m1 \o Agnostic(c)
           m3 == m2 \o ModuleAnchor(c)
<1>1. ContentSpecific(c) = IF c.valid /\ HasAnchors(c)
                           THEN Unique(m3, MAX_FLASHCARDS_PER_CONCEPT) ELSE << >>
  BY DEF ContentSpecific
<1>2. List(c.sentences) /\ List(c.keyTerms) /\ c.steps \in Nat
  BY DEF IsConcept
<1>3. MadeFor(c, a) /\ MadeFor(c, b) /\ MadeFor(c, p)
  BY ProviderFamiliesAre, SomeFamilies, FixedMade
<1> HIDE DEF a, b, p
<1>4. MadeFor(c, s1)
  BY <1>3, DefinitionCardMade, MadeConcat
<1> HIDE DEF s1
<1>5. MadeFor(c, s2)
  BY <1>4, ListCardMade, MadeConcat
<1> HIDE DEF s2
<1>6. MadeFor(c, s3)
  BY <1>5, ComparisonCardMade, MadeConcat
<1> HIDE DEF s3
<1>7. MadeFor(c, s4)
  BY <1>6, TrapCardMade, MadeConcat
<1> HIDE DEF s4
<1>8. MadeFor(c, s5)
  BY <1>3, <1>7, MadeConcat
<1> HIDE DEF s5
<1>9. MadeFor(c, s6)
  BY <1>2, <1>8, StepCardsMade, MadeConcat
<1> HIDE DEF s6
<1>10. MadeFor(c, s7)
  BY <1>2, <1>9, SentenceLevelCardsMade, MadeConcat
<1> HIDE DEF s7
<1>11. MadeFor(c, s8)
  BY <1>2, <1>10, TermCardsMade, MadeConcat
<1> HIDE DEF s8
<1>12. MadeFor(c, m0)
  BY <1>11, AnchorCardMade DEF IfNone
<1> HIDE DEF m0
<1>13. MadeFor(c, m1)
  BY <1>3, <1>12, MadeConcat
<1> HIDE DEF m1
<1>14. MadeFor(c, m2)
  BY <1>13, AgnosticMade, MadeConcat
<1> HIDE DEF m2
<1>15. MadeFor(c, m3)
  BY <1>2, <1>14, ModuleAnchorMade, MadeConcat
<1> HIDE DEF m3
<1>16. MadeFor(c, Unique(m3, MAX_FLASHCARDS_PER_CONCEPT))
  BY <1>15, Limits, MadeUnique
<1> QED
  BY <1>1, <1>16, MadeNone

LEMMA OwnCardsMade == ASSUME NEW c, IsConcept(c) PROVE MadeFor(c, OwnCards(c))
<1> DEFINE a == Unique(ContentSpecific(c), MAX_FLASHCARDS_PER_CONCEPT)
           m == ConceptTopUps(c) \o Minimum(c)
<1>1. MadeFor(c, a)
  BY ContentSpecificMade, Limits, MadeUnique
<1>2. MadeFor(c, m)
  BY ConceptTopUpsMade, MinimumMade, MadeConcat DEF IsConcept
<1>3. OwnCards(c) = ToppedUp(a, m)
  BY DEF OwnCards
<1> HIDE DEF a, m
<1>4. MadeFor(c, Unique(a \o m, MAX_FLASHCARDS_PER_CONCEPT))
  BY <1>1, <1>2, MadeConcat, Limits, MadeUnique
<1> QED
  BY <1>1, <1>3, <1>4 DEF ToppedUp

---------------------------------------------------------------------------
\* Lists of cards that ask for no formula.
Ordinaries(s) == List(s) /\ \A i \in DOMAIN s : Ordinary(s[i])

LEMMA MadeOrdinary == ASSUME NEW c, NEW s, MadeFor(c, s) PROVE Ordinaries(s)
BY DEF MadeFor, CardFor, Ordinaries

LEMMA OrdinaryDeck == ASSUME NEW s, Ordinaries(s) PROVE IsDeck(s)
BY DEF Ordinaries, Ordinary, IsDeck

LEMMA NoOrdinary == Ordinaries(<< >>)
BY EmptyList DEF Ordinaries

LEMMA OrdinaryConcat ==
    ASSUME NEW a, NEW b, Ordinaries(a), Ordinaries(b) PROVE Ordinaries(a \o b)
<1> DEFINE t == a \o b
<1>1. List(a) /\ List(b)
  BY DEF Ordinaries
<1>2. List(t)
  BY <1>1, ListConcat
<1>3. FromEither(t, a, b)
  BY <1>1, WithinConcat
<1> HIDE DEF t
<1>4. Ordinaries(t)
  BY <1>2, <1>3 DEF Ordinaries, FromEither
<1> QED
  BY <1>4 DEF t

LEMMA OrdinaryFlatten ==
    ASSUME NEW ss, List(ss), \A i \in DOMAIN ss : Ordinaries(ss[i])
    PROVE  Ordinaries(FlattenSeq(ss))
<1> DEFINE t == FlattenSeq(ss)
<1>1. \A i \in DOMAIN ss : List(ss[i])
  BY DEF Ordinaries
<1>2. List(t) /\ \A k \in DOMAIN t : \E i \in DOMAIN ss : \E j \in DOMAIN ss[i] : t[k] = ss[i][j]
  BY <1>1, ListFlatten
<1> HIDE DEF t
<1>3. Ordinaries(t)
  BY <1>2 DEF Ordinaries
<1> QED
  BY <1>3 DEF t

LEMMA OrdinaryUnique ==
    ASSUME NEW s, Ordinaries(s), NEW limit \in Nat PROVE Ordinaries(Unique(s, limit))
<1> DEFINE t == Unique(s, limit)
<1>1. IsDeck(t) /\ Within(t, s)
  BY OrdinaryDeck, UniqueCards
<1> HIDE DEF t
<1>2. Ordinaries(t)
  BY <1>1 DEF Ordinaries, IsDeck, Within
<1> QED
  BY <1>2 DEF t

---------------------------------------------------------------------------
\* The section's own cards.
LEMMA AggregateOrdinary ==
    ASSUME IsSection(section), List(hashOrder), NEW outcome, NEW cs, AreConcepts(cs)
    PROVE  Ordinaries(Aggregate(outcome, cs))
<1>1. CASE cs = << >>
  BY <1>1, NoOrdinary DEF Aggregate
<1>2. CASE cs # << >>
  BY <1>2, AggregateMade, MadeOrdinary
<1> QED
  BY <1>1, <1>2

LEMMA SectionTopUpsOrdinary ==
    ASSUME IsSection(section), List(hashOrder), NEW usable, AreConcepts(usable)
    PROVE  Ordinaries(SectionTopUps(usable))
<1> DEFINE first == FirstN(usable, 12)
           I(c) == {i \in DOMAIN usable : usable[i].outcome = c.outcome}
           Siblings(c) == At(usable, I(c))
           added == [i \in DOMAIN first |-> ConceptTopUps(first[i]) \o Balanced(first[i])
                                           \o Aggregate(first[i].outcome, Siblings(first[i]))]
           Before(i) == FlattenSeq([j \in 1..(i - 1) |-> added[j]])
           ss == [i \in DOMAIN first |->
                   IF Len(Before(i)) < 2 * MIN_FLASHCARDS_PER_CONCEPT THEN added[i] ELSE << >>]
<1>1. SectionTopUps(usable) = UniqueAll(FlattenSeq(ss))
  BY DEF SectionTopUps, Selected
<1>2. List(first) /\ \A i \in DOMAIN first : IsConcept(first[i])
  BY ListFirstN DEF AreConcepts
<1> HIDE DEF first
<1>3. \A c : AreConcepts(Siblings(c))
  <2>1. TAKE c
  <2> DEFINE t == Siblings(c)
  <2>2. I(c) \in SUBSET DOMAIN usable /\ List(usable)
    BY DEF AreConcepts
  <2> HIDE DEF I
  <2>3. List(t) /\ \A k \in DOMAIN t : \E i \in I(c) : t[k] = usable[i]
    BY <2>2, ListAt
  <2> HIDE DEF t
  <2>4. AreConcepts(t)
    BY <2>2, <2>3 DEF AreConcepts
  <2> QED
    BY <2>4 DEF t
<1> HIDE DEF Siblings
<1>4. ASSUME NEW i \in DOMAIN first PROVE Ordinaries(added[i])
  <2> DEFINE a == ConceptTopUps(first[i])
             b == Balanced(first[i])
             d == Aggregate(first[i].outcome, Siblings(first[i]))
  <2>1. Ordinaries(a) /\ Ordinaries(b)
    BY <1>2, ConceptTopUpsMade, BalancedMade, MadeOrdinary DEF IsConcept
  <2>2. Ordinaries(d)
    BY <1>3, AggregateOrdinary
  <2>3. added[i] = a \o b \o d
    OBVIOUS
  <2> HIDE DEF a, b, d, added
  <2>4. Ordinaries(a \o b)
    BY <2>1, OrdinaryConcat
  <2>5. Ordinaries(a \o b \o d)
    BY <2>2, <2>4, OrdinaryConcat
  <2> QED
    BY <2>3, <2>5
<1> HIDE DEF added, Before
<1>5. \A i \in DOMAIN first : Ordinaries(ss[i])
  BY <1>4, NoOrdinary
<1>6. List(ss) /\ DOMAIN ss = DOMAIN first
  <2>1. ss = [i \in DOMAIN first |-> ss[i]]
    OBVIOUS
  <2> HIDE DEF ss
  <2> QED
    BY <1>2, <2>1, ListMapped
<1> HIDE DEF ss
<1> DEFINE t == FlattenSeq(ss)
<1>7. Ordinaries(t)
  BY <1>5, <1>6, OrdinaryFlatten
<1> HIDE DEF t
<1>8. Len(t) \in Nat
  BY <1>7, ListLength DEF Ordinaries
<1>9. Ordinaries(UniqueAll(t))
  BY <1>7, <1>8, OrdinaryUnique DEF UniqueAll
<1> QED
  BY <1>1, <1>9 DEF t

LEMMA UsableConcepts == ASSUME IsSection(section) PROVE AreConcepts(Usable)
<1> DEFINE I == {i \in DOMAIN Concepts : Concepts[i].valid}
           t == At(Concepts, I)
           w == IF section.whole.valid THEN <<section.whole>> ELSE << >>
<1>1. Usable = IfNone(t, w)
  BY DEF Usable, Selected
<1>2. AreConcepts(Concepts)
  BY DEF IsSection, AreConcepts, Concepts
<1>3. I \in SUBSET DOMAIN Concepts
  OBVIOUS
<1> HIDE DEF I
<1>4. List(t) /\ \A k \in DOMAIN t : \E i \in I : t[k] = Concepts[i]
  BY <1>2, <1>3, ListAt DEF AreConcepts
<1> HIDE DEF t
<1>5. AreConcepts(t)
  BY <1>2, <1>3, <1>4 DEF AreConcepts
<1>6. AreConcepts(w)
  <2>1. List(<<section.whole>>) /\ \A i \in DOMAIN <<section.whole>> : <<section.whole>>[i] = section.whole
    BY ListOfOne
  <2>2. AreConcepts(<<section.whole>>)
    BY <2>1 DEF AreConcepts, IsSection
  <2> QED
    BY <2>2, EmptyList DEF AreConcepts
<1> QED
  BY <1>1, <1>5, <1>6 DEF IfNone

---------------------------------------------------------------------------
\* The cards of the formulas: each of the first eight that is askable is asked for.
LEMMA FormulaCardsAsk ==
    ASSUME IsSection(section)
    PROVE  /\ IsDeck(FormulaCards) /\ \A k \in DOMAIN FormulaCards : IsValid(FormulaCards[k])
           /\ \A i \in DOMAIN FirstN(section.formulas, 8) :
                Askable(section.formulas[i])
                => \E k \in DOMAIN FormulaCards : FormulaCards[k].asks = FormulaQuestion(section.formulas[i])
<1> DEFINE some == FirstN(section.formulas, 8)
           I == {i \in DOMAIN some : some[i].good}
           good == At(some, I)
           OfFormula(f, kind, asks) ==
             [id |-> [of |-> f.id, from |-> "formula", kind |-> kind, n |-> 0], asks |-> asks,
              score |-> 0, concept |-> f.concept, link |-> f.id, outcome |-> "none",
              generic |-> FALSE, thin |-> FALSE, fit |-> kind \notin f.unfit]
           x(f) == OfFormula(f, "formula", FormulaQuestion(f))
           v(f) == [i \in DOMAIN FirstN(f.variables, 4) |->
                     OfFormula(f, f.variables[i], Question(f.variables[i], f.name))]
           ss == [i \in DOMAIN good |-> <<x(good[i])>> \o v(good[i])]
           t == FlattenSeq(ss)
<1>1. FormulaCards = UniqueAll(t)
  BY DEF FormulaCards, Selected
<1>2. List(some) /\ \A k \in DOMAIN some : k \in DOMAIN section.formulas /\ some[k] = section.formulas[k]
  BY ListFirstN DEF IsSection
<1>3. List(good) /\ (\A k \in DOMAIN good : \E i \in I : good[k] = some[i])
      /\ \A i \in I : \E k \in DOMAIN good : good[k] = some[i]
  <2>1. I \in SUBSET DOMAIN some
    OBVIOUS
  <2> HIDE DEF some, I
  <2> QED
    BY <1>2, <2>1, AtAll
<1>4. \A i \in DOMAIN good : List(good[i].variables) /\ good[i].id # "none"
  <2>1. TAKE i \in DOMAIN good
  <2>2. PICK j \in DOMAIN some : good[i] = some[j]
    BY <1>3
  <2> HIDE DEF some, good
  <2> QED
    BY <1>2, <2>2 DEF IsSection
<1> HIDE DEF some, good
<1>5. ASSUME NEW f, f.id # "none", List(f.variables)
      PROVE  /\ IsCard(x(f)) /\ x(f).asks = FormulaQuestion(f)
             /\ "formula" \notin f.unfit => IsValid(x(f))
             /\ IsDeck(v(f))
  <2>1. FormulaQuestion(f).formula = f.id
    BY DEF FormulaQuestion, Question
  <2>2. IsCard(x(f)) /\ x(f).asks = FormulaQuestion(f)
    BY <2>1 DEF IsCard
  <2>3. x(f).link = f.id /\ x(f).id.kind = "formula" /\ x(f).fit = ("formula" \notin f.unfit)
    OBVIOUS
  <2>4. "formula" \notin Refused
    BY DEF Refused
  <2>5. "formula" \notin f.unfit => IsValid(x(f))
    BY <1>5, <2>3, <2>4 DEF IsValid
  <2> DEFINE u == FirstN(f.variables, 4)
             w == v(f)
  <2>6. List(u)
    BY <1>5, ListFirstN
  <2> HIDE DEF u
  <2>7. w = [i \in DOMAIN u |-> OfFormula(f, f.variables[i], Question(f.variables[i], f.name))]
    BY DEF u
  <2>8. List(w) /\ DOMAIN w = DOMAIN u
    <3>1. w = [i \in DOMAIN u |-> w[i]]
      BY <2>7
    <3> HIDE DEF w
    <3> QED
      BY <2>6, <3>1, ListMapped
  <2>9. \A i \in DOMAIN u : IsCard(w[i])
    <3>1. TAKE i \in DOMAIN u
    <3>2. w[i] = OfFormula(f, f.variables[i], Question(f.variables[i], f.name))
      BY <2>7
    <3>3. Question(f.variables[i], f.name).formula = "none"
      BY QuestionMade
    <3> HIDE DEF w
    <3> QED
      BY <3>2, <3>3 DEF IsCard
  <2>10. IsDeck(w)
    BY <2>8, <2>9 DEF IsDeck
  <2> QED
    BY <2>2, <2>5, <2>10
<1> HIDE DEF x, v
<1>6. ASSUME NEW i \in DOMAIN good
      PROVE  IsDeck(ss[i]) /\ 1 \in DOMAIN ss[i] /\ ss[i][1] = x(good[i])
  <2> DEFINE a == <<x(good[i])>>
             b == v(good[i])
             d == a \o b
  <2>1. ss[i] = d
    OBVIOUS
  <2>2. /\ IsCard(x(good[i])) /\ IsDeck(b)
    BY <1>4, <1>5
  <2>3. List(a) /\ Len(a) = 1 /\ DOMAIN a = {1} /\ a[1] = x(good[i])
    BY ListOfOne
  <2> HIDE DEF a, b
  <2>4. List(b)
    BY <2>2 DEF IsDeck
  <2>5. List(d) /\ Len(d) = Len(a) + Len(b)
    BY <2>3, <2>4, ListConcat
  <2>6. \A k \in DOMAIN d : (\E j \in DOMAIN a : d[k] = a[j]) \/ (\E j \in DOMAIN b : d[k] = b[j])
    BY <2>3, <2>4, ListConcat
  <2>7. \A k \in DOMAIN a : d[k] = a[k]
    BY <2>3, <2>4, ListConcat
  <2>8. 1 \in DOMAIN d
    BY <2>3, <2>4, <2>5, ListLength
  <2> HIDE DEF d
  <2>9. IsDeck(d)
    BY <2>2, <2>3, <2>5, <2>6 DEF IsDeck
  <2> QED
    BY <2>1, <2>3, <2>7, <2>8, <2>9
<1>7. List(ss) /\ DOMAIN ss = DOMAIN good
  <2>1. ss = [i \in DOMAIN good |-> ss[i]]
    OBVIOUS
  <2> HIDE DEF ss
  <2> QED
    BY <1>3, <2>1, ListMapped
<1> HIDE DEF ss
<1>8. /\ List(t) /\ \A k \in DOMAIN t : \E i \in DOMAIN ss : \E j \in DOMAIN ss[i] : t[k] = ss[i][j]
      /\ \A i \in DOMAIN ss : \A j \in DOMAIN ss[i] : \E k \in DOMAIN t : t[k] = ss[i][j]
  <2>1. \A i \in DOMAIN ss : List(ss[i])
    BY <1>6, <1>7 DEF IsDeck
  <2> QED
    BY <1>7, <2>1, ListFlatten
<1> HIDE DEF t
<1>9. IsDeck(t)
  BY <1>6, <1>7, <1>8 DEF IsDeck
<1> DEFINE u == UniqueAll(t)
<1>10. /\ IsDeck(u) /\ \A k \in DOMAIN u : IsValid(u[k])
       /\ \A i \in DOMAIN t : IsValid(t[i]) => \E k \in DOMAIN u : u[k].asks = t[i].asks
  BY <1>9, UniqueAllCards
<1> HIDE DEF u
<1>11. ASSUME NEW i \in DOMAIN some, Askable(section.formulas[i])
       PROVE  \E k \in DOMAIN u : u[k].asks = FormulaQuestion(section.formulas[i])
  <2>1. some[i] = section.formulas[i] /\ i \in I
    BY <1>2, <1>11 DEF Askable
  <2>2. PICK j \in DOMAIN good : good[j] = section.formulas[i]
    BY <1>3, <2>1
  <2>3. PICK m \in DOMAIN t : t[m] = x(good[j])
    BY <1>6, <1>7, <1>8
  <2>4. IsValid(t[m]) /\ t[m].asks = FormulaQuestion(good[j])
    BY <1>4, <1>5, <1>11, <2>2, <2>3 DEF Askable
  <2> QED
    BY <1>10, <2>2, <2>4
<1> QED
  BY <1>1, <1>10, <1>11 DEF u, some

---------------------------------------------------------------------------
\* The concepts of an outcome are listed once each.

\* Numbering some places apart, with as many numbers as places, reaches every number.
LEMMA Numbered ==
    ASSUME NEW I, IsFiniteSet(I), NEW r \in [I -> 1..Cardinality(I)],
           \A i, j \in I : r[i] = r[j] => i = j
    PROVE  \A k \in 1..Cardinality(I) : \E i \in I : r[i] = k
<1> DEFINE c == Cardinality(I)
<1>1. c \in Nat
  BY FS_CardinalityType
<1>2. IsFiniteSet(1..c) /\ Cardinality(1..c) = c
  BY <1>1, FS_Interval
<1>3. r \in Injection(I, 1..c)
  BY DEF Injection, IsInjective
<1> HIDE DEF c
<1>4. r \in Surjection(I, 1..c)
  BY <1>2, <1>3, FS_Injection DEF c
<1> QED
  BY <1>4 DEF Surjection, c

LEMMA ConceptsOfOutcome ==
    ASSUME IsSection(section), NEW o
    PROVE  LET cs == ConceptsOf(o) IN
           /\ AreConcepts(cs)
           /\ \A k \in DOMAIN cs : \E i \in DOMAIN Concepts : Concepts[i].outcome = o /\ cs[k] = Concepts[i]
           /\ \A i \in DOMAIN Concepts : Concepts[i].outcome = o => \E k \in DOMAIN cs : cs[k] = Concepts[i]
           /\ \A k, l \in DOMAIN cs : cs[k].id = cs[l].id => k = l
<1> DEFINE its == {i \in DOMAIN Concepts : Concepts[i].outcome = o}
           Before(j, i) == \/ Concepts[j].length > Concepts[i].length
                           \/ Concepts[j].length = Concepts[i].length /\ j <= i
           Upto(i) == {j \in its : Before(j, i)}
           c == Cardinality(its)
           r == [i \in its |-> Cardinality(Upto(i))]
           place(n) == CHOOSE i \in its : Cardinality(Upto(i)) = n
           cs == [n \in 1..c |-> Concepts[place(n)]]
<1>1. ConceptsOf(o) = cs
  BY DEF ConceptsOf
<1>2. DOMAIN Concepts = 1..Len(Concepts) /\ Len(Concepts) \in Nat
      /\ \A i \in DOMAIN Concepts : IsConcept(Concepts[i]) /\ Concepts[i].length \in Nat
  BY ListLength DEF IsSection, IsConcept, Concepts
<1>3. IsFiniteSet(its) /\ c \in Nat
  <2>1. IsFiniteSet(1..Len(Concepts)) /\ its \in SUBSET (1..Len(Concepts))
    BY <1>2, FS_Interval
  <2> QED
    BY <2>1, FS_Subset, FS_CardinalityType
<1>4. \A i, j \in its : i \in Nat /\ j \in Nat /\ Concepts[i].length \in Nat /\ Concepts[j].length \in Nat
  BY <1>2
<1>5. \A i \in its : Before(i, i)
  BY <1>4
<1>6. \A i, j, k \in its : Before(i, j) /\ Before(j, k) => Before(i, k)
  BY <1>4
<1>7. \A i, j \in its : i # j => (Before(i, j) <=> ~Before(j, i))
  BY <1>4
<1> HIDE DEF Before, its
<1>8. \A i \in its : /\ IsFiniteSet(Upto(i)) /\ Cardinality(Upto(i)) \in Nat /\ Cardinality(Upto(i)) <= c
                     /\ i \in Upto(i)
  <2>1. TAKE i \in its
  <2>2. Upto(i) \in SUBSET its /\ i \in Upto(i)
    BY <1>5
  <2> QED
    BY <1>3, <2>2, FS_Subset, FS_CardinalityType
<1>9. \A i \in its : Cardinality(Upto(i)) \in 1..c
  <2>1. TAKE i \in its
  <2>2. Cardinality(Upto(i)) # 0
    BY <1>8, FS_EmptySet
  <2> QED
    BY <1>3, <1>8, <2>2
<1>10. ASSUME NEW i \in its, NEW j \in its, i # j, Before(i, j)
       PROVE  Cardinality(Upto(i)) # Cardinality(Upto(j))
  <2>1. Upto(i) \in SUBSET Upto(j)
    BY <1>6, <1>10
  <2>2. j \notin Upto(i) /\ j \in Upto(j)
    BY <1>7, <1>8, <1>10
  <2> QED
    BY <1>8, <2>1, <2>2, FS_Subset
<1>11. \A i, j \in its : r[i] = r[j] => i = j
  BY <1>7, <1>10
<1>12. r \in [its -> 1..c]
  BY <1>9
<1>13. \A k \in 1..c : \E i \in its : r[i] = k
  <2> HIDE DEF r
  <2> QED
    BY <1>3, <1>11, <1>12, Numbered
<1>14. \A k \in 1..c : place(k) \in its /\ r[place(k)] = k
  BY <1>13
<1>15. \A i \in its : \E k \in 1..c : place(k) = i
  <2>1. TAKE i \in its
  <2> HIDE DEF r, place, c
  <2>2. r[i] \in 1..c
    BY <1>12
  <2>3. place(r[i]) \in its /\ r[place(r[i])] = r[i]
    BY <1>14, <2>2
  <2>4. place(r[i]) = i
    BY <1>11, <2>3
  <2> QED
    BY <2>2, <2>4
<1> HIDE DEF place, r, c, Upto
<1>16. List(cs) /\ DOMAIN cs = 1..c
  BY <1>3, FunctionIsList
<1>17. \A k \in DOMAIN cs : place(k) \in DOMAIN Concepts /\ Concepts[place(k)].outcome = o /\ cs[k] = Concepts[place(k)]
  BY <1>14, <1>16 DEF its
<1>18. ASSUME NEW i \in DOMAIN Concepts, Concepts[i].outcome = o
       PROVE  \E k \in DOMAIN cs : cs[k] = Concepts[i]
  <2>1. i \in its
    BY <1>18 DEF its
  <2>2. PICK k \in 1..c : place(k) = i
    BY <1>15, <2>1
  <2> QED
    BY <1>16, <1>17, <2>2
<1>19. ASSUME NEW k \in DOMAIN cs, NEW l \in DOMAIN cs, cs[k].id = cs[l].id
       PROVE  k = l
  <2>1. place(k) = place(l)
    BY <1>17, <1>19 DEF IsSection, Concepts
  <2> QED
    BY <1>14, <1>16, <2>1
<1> HIDE DEF cs
<1>20. AreConcepts(cs)
  BY <1>2, <1>16, <1>17 DEF AreConcepts
<1> QED
  BY <1>1, <1>17, <1>18, <1>19, <1>20

---------------------------------------------------------------------------
\* Taking turns and balancing bring no card of their own.
LEMMA TurnsTaken ==
    ASSUME NEW buckets, List(buckets), \A b \in DOMAIN buckets : List(buckets[b])
    PROVE  LET t == RoundRobin(buckets) IN
           List(t) /\ \A k \in DOMAIN t : \E b \in DOMAIN buckets : \E i \in DOMAIN buckets[b] : t[k] = buckets[b][i]
<1> DEFINE all == UNION {DOMAIN buckets[b] : b \in DOMAIN buckets}
           n == Cardinality(all)
           Turn(o) == [b \in DOMAIN buckets |-> IF o <= Len(buckets[b]) THEN <<buckets[b][o]>> ELSE << >>]
           ss == [o \in 1..n |-> FlattenSeq(Turn(o))]
           t == FlattenSeq(ss)
<1>1. RoundRobin(buckets) = t
  BY DEF RoundRobin
<1>2. n \in Nat
  <2>1. IsFiniteSet(DOMAIN buckets)
    BY ListLength, FS_Interval
  <2>2. \A b \in DOMAIN buckets : IsFiniteSet(DOMAIN buckets[b])
    BY ListLength, FS_Interval
  <2> DEFINE D == {DOMAIN buckets[b] : b \in DOMAIN buckets}
  <2>3. IsFiniteSet(D)
    <3> DEFINE f == [b \in DOMAIN buckets |-> DOMAIN buckets[b]]
    <3>1. f \in Surjection(DOMAIN buckets, D)
      BY DEF Surjection
    <3> HIDE DEF f, D
    <3> QED
      BY <2>1, <3>1, FS_Surjection
  <2>4. \A d \in D : IsFiniteSet(d)
    BY <2>2
  <2>5. IsFiniteSet(UNION D)
    <3> HIDE DEF D
    <3> QED
      BY <2>3, <2>4, FS_UNION
  <2> QED
    BY <2>5, FS_CardinalityType
<1>3. \A b \in DOMAIN buckets : Len(buckets[b]) \in Nat /\ DOMAIN buckets[b] = 1..Len(buckets[b])
  BY ListLength
<1> HIDE DEF n
<1>4. ASSUME NEW o \in 1..n
      PROVE  /\ List(ss[o])
             /\ \A k \in DOMAIN ss[o] : \E b \in DOMAIN buckets : \E i \in DOMAIN buckets[b] : ss[o][k] = buckets[b][i]
  <2> DEFINE w == Turn(o)
             u == FlattenSeq(w)
  <2>1. List(w) /\ DOMAIN w = DOMAIN buckets
    <3>1. w = [b \in DOMAIN buckets |-> w[b]]
      OBVIOUS
    <3> HIDE DEF w
    <3> QED
      BY <3>1, ListMapped
  <2>2. ASSUME NEW b \in DOMAIN buckets
        PROVE  List(w[b]) /\ \A j \in DOMAIN w[b] : \E i \in DOMAIN buckets[b] : w[b][j] = buckets[b][i]
    <3>1. CASE o <= Len(buckets[b])
      <4>1. o \in DOMAIN buckets[b]
        BY <1>2, <1>3, <3>1
      <4>2. w[b] = <<buckets[b][o]>>
        BY <3>1
      <4> HIDE DEF w
      <4> QED
        BY <4>1, <4>2, ListOfOne
    <3>2. CASE ~(o <= Len(buckets[b]))
      <4>1. w[b] = << >>
        BY <3>2
      <4> HIDE DEF w
      <4> QED
        BY <4>1, EmptyList
    <3> QED
      BY <3>1, <3>2
  <2>3. ss[o] = u
    OBVIOUS
  <2> HIDE DEF ss, w
  <2>4. List(u) /\ \A k \in DOMAIN u : \E b \in DOMAIN w : \E j \in DOMAIN w[b] : u[k] = w[b][j]
    BY <2>1, <2>2, ListFlatten
  <2> HIDE DEF u
  <2>5. \A k \in DOMAIN u : \E b \in DOMAIN buckets : \E i \in DOMAIN buckets[b] : u[k] = buckets[b][i]
    BY <2>1, <2>2, <2>4
  <2> QED
    BY <2>3, <2>4, <2>5
<1>5. List(ss) /\ DOMAIN ss = 1..n
  BY <1>2, FunctionIsList
<1> HIDE DEF ss
<1>6. List(t) /\ \A k \in DOMAIN t : \E o \in DOMAIN ss : \E j \in DOMAIN ss[o] : t[k] = ss[o][j]
  BY <1>4, <1>5, ListFlatten
<1> HIDE DEF t
<1> QED
  BY <1>1, <1>4, <1>5, <1>6

LEMMA BucketWithin ==
    ASSUME NEW some, List(some), NEW cs, List(cs), NEW buckets,
           buckets = [i \in DOMAIN cs |-> buckets[i]],
           \A i \in DOMAIN cs : List(buckets[i]) /\ Within(buckets[i], some)
    PROVE  List(RoundRobin(buckets)) /\ Within(RoundRobin(buckets), some)
<1>1. List(buckets) /\ DOMAIN buckets = DOMAIN cs
  BY ListMapped
<1> DEFINE t == RoundRobin(buckets)
<1>2. List(t) /\ \A k \in DOMAIN t : \E b \in DOMAIN buckets : \E i \in DOMAIN buckets[b] : t[k] = buckets[b][i]
  BY <1>1, TurnsTaken
<1> HIDE DEF t
<1>3. Within(t, some)
  BY <1>1, <1>2 DEF Within
<1> QED
  BY <1>2, <1>3 DEF t

LEMMA BalanceWithin ==
    ASSUME NEW some, List(some), NEW cs, List(cs)
    PROVE  List(Balance(some, cs)) /\ Within(Balance(some, cs), some)
<1> DEFINE Mine(i, x) == Belongs(x, cs[i]) /\ \A j \in 1..(i - 1) : ~Belongs(x, cs[j])
           I(generic, i) == {k \in DOMAIN some : Mine(i, some[k]) /\ some[k].generic = generic}
           Bucket(generic) == [i \in DOMAIN cs |-> At(some, I(generic, i))]
           R == {k \in DOMAIN some : \A i \in DOMAIN cs : ~Belongs(some[k], cs[i])}
           rest == At(some, R)
           a == RoundRobin(Bucket(FALSE))
           b == RoundRobin(Bucket(TRUE))
<1>1. Balance(some, cs) = IF \A i \in DOMAIN cs : Bucket(FALSE)[i] = << >> THEN some
                          ELSE a \o b \o rest
  BY DEF Balance, Selected
<1>2. ASSUME NEW generic, NEW i
      PROVE  List(At(some, I(generic, i))) /\ Within(At(some, I(generic, i)), some)
  <2>1. I(generic, i) \in SUBSET DOMAIN some
    OBVIOUS
  <2> HIDE DEF I
  <2> QED
    BY <2>1, ListAt DEF Within
<1>3. List(rest) /\ Within(rest, some)
  <2>1. R \in SUBSET DOMAIN some
    OBVIOUS
  <2> HIDE DEF R
  <2> QED
    BY <2>1, ListAt DEF Within
<1> HIDE DEF I, rest
<1>4. ASSUME NEW generic
      PROVE  List(RoundRobin(Bucket(generic))) /\ Within(RoundRobin(Bucket(generic)), some)
  <2> DEFINE u == Bucket(generic)
  <2>1. u = [i \in DOMAIN cs |-> u[i]] /\ \A i \in DOMAIN cs : List(u[i]) /\ Within(u[i], some)
    BY <1>2
  <2> HIDE DEF u
  <2>2. List(RoundRobin(u)) /\ Within(RoundRobin(u), some)
    BY <2>1, BucketWithin
  <2> QED
    BY <2>2 DEF u
<1>5. List(a) /\ Within(a, some) /\ List(b) /\ Within(b, some)
  BY <1>4
<1> HIDE DEF a, b, Bucket
<1>6. ASSUME NEW s, NEW t, List(s), List(t), Within(s, some), Within(t, some)
      PROVE  List(s \o t) /\ Within(s \o t, some)
  <2> DEFINE u == s \o t
  <2>1. List(u)
    BY <1>6, ListConcat
  <2>2. FromEither(u, s, t)
    BY <1>6, WithinConcat
  <2> HIDE DEF u
  <2>3. Within(u, some)
    BY <1>6, <2>2 DEF Within, FromEither
  <2> QED
    BY <2>1, <2>3 DEF u
<1>7. List(a \o b) /\ Within(a \o b, some)
  BY <1>5, <1>6
<1>8. List(a \o b \o rest) /\ Within(a \o b \o rest, some)
  BY <1>3, <1>6, <1>7
<1>9. Within(some, some)
  BY DEF Within
<1> QED
  BY <1>1, <1>8, <1>9

---------------------------------------------------------------------------
\* The cards of a learning outcome are those of its concepts.
InOutcome(o, s) ==
  /\ List(s)
  /\ \A i \in DOMAIN s : \E j \in DOMAIN Concepts : Concepts[j].outcome = o /\ CardFor(Concepts[j], s[i])

LEMMA OutcomeOrdinary ==
    ASSUME NEW o, NEW s, InOutcome(o, s)
    PROVE  Ordinaries(s) /\ IsDeck(s) /\ \A i \in DOMAIN s : s[i].outcome = o
<1>1. Ordinaries(s)
  BY DEF InOutcome, Ordinaries, CardFor
<1> QED
  BY <1>1, OrdinaryDeck DEF InOutcome, CardFor

LEMMA OutcomeWithin ==
    ASSUME NEW o, NEW s, InOutcome(o, s), NEW t, List(t), Within(t, s) PROVE InOutcome(o, t)
BY DEF InOutcome, Within

LEMMA OutcomeMade ==
    ASSUME NEW o, NEW j \in DOMAIN Concepts, Concepts[j].outcome = o, NEW s, MadeFor(Concepts[j], s)
    PROVE  InOutcome(o, s)
BY DEF InOutcome, MadeFor

LEMMA OutcomeConcat ==
    ASSUME NEW o, NEW a, NEW b, InOutcome(o, a), InOutcome(o, b) PROVE InOutcome(o, a \o b)
<1> DEFINE t == a \o b
<1>1. List(a) /\ List(b)
  BY DEF InOutcome
<1>2. List(t)
  BY <1>1, ListConcat
<1>3. FromEither(t, a, b)
  BY <1>1, WithinConcat
<1> HIDE DEF t
<1>4. InOutcome(o, t)
  BY <1>2, <1>3 DEF InOutcome, FromEither
<1> QED
  BY <1>4 DEF t

LEMMA OutcomeFlatten ==
    ASSUME NEW o, NEW s, List(s), NEW ss, ss = [i \in DOMAIN s |-> ss[i]],
           \A i \in DOMAIN s : InOutcome(o, ss[i])
    PROVE  InOutcome(o, FlattenSeq(ss))
<1> DEFINE t == FlattenSeq(ss)
<1>1. List(ss) /\ DOMAIN ss = DOMAIN s
  BY ListMapped
<1>2. \A i \in DOMAIN ss : List(ss[i])
  BY <1>1 DEF InOutcome
<1>3. List(t) /\ \A k \in DOMAIN t : \E i \in DOMAIN ss : \E j \in DOMAIN ss[i] : t[k] = ss[i][j]
  BY <1>1, <1>2, ListFlatten
<1> HIDE DEF t
<1>4. InOutcome(o, t)
  BY <1>1, <1>3 DEF InOutcome
<1> QED
  BY <1>4 DEF t

LEMMA OutcomeUnique ==
    ASSUME NEW o, NEW s, InOutcome(o, s), NEW limit \in Nat PROVE InOutcome(o, Unique(s, limit))
<1> DEFINE t == Unique(s, limit)
<1>1. IsDeck(t) /\ Within(t, s)
  BY OutcomeOrdinary, UniqueCards
<1> HIDE DEF t
<1>2. InOutcome(o, t)
  BY <1>1, OutcomeWithin DEF IsDeck
<1> QED
  BY <1>2 DEF t

---------------------------------------------------------------------------
\* What the cards of a concept ask in a list.
AsksOf(c, s) == {s[k].asks : k \in {k \in DOMAIN s : s[k].concept = c.id}}
Few(S, n) == IsFiniteSet(S) /\ Cardinality(S) <= n

LEMMA FewSubset ==
    ASSUME NEW S, NEW n \in Nat, Few(S, n), NEW T \in SUBSET S PROVE Few(T, n)
<1>1. IsFiniteSet(T) /\ Cardinality(T) <= Cardinality(S)
      /\ Cardinality(T) \in Nat /\ Cardinality(S) \in Nat
  BY FS_Subset, FS_CardinalityType DEF Few
<1> QED
  BY <1>1 DEF Few

LEMMA FewAsks ==
    ASSUME NEW s, List(s), NEW n \in Nat, Len(s) <= n PROVE Few({s[k].asks : k \in DOMAIN s}, n)
<1> DEFINE f == [k \in DOMAIN s |-> s[k].asks]
           S == {s[k].asks : k \in DOMAIN s}
           m == Len(s)
<1>1. DOMAIN s = 1..m /\ m \in Nat /\ m <= n
  BY ListLength
<1> HIDE DEF m
<1>2. IsFiniteSet(DOMAIN s) /\ Cardinality(DOMAIN s) = m
  BY <1>1, FS_Interval
<1>3. f \in Surjection(DOMAIN s, S)
  BY DEF Surjection
<1> HIDE DEF f, S
<1>4. IsFiniteSet(S) /\ Cardinality(S) <= m
  BY <1>2, <1>3, FS_Surjection
<1>5. Few(S, n)
  BY <1>1, <1>4, FS_CardinalityType DEF Few
<1> QED
  BY <1>5 DEF S

LEMMA FewAsksOf ==
    ASSUME NEW s, List(s), NEW n \in Nat, Len(s) <= n, NEW c PROVE Few(AsksOf(c, s), n)
<1> DEFINE S == {s[k].asks : k \in DOMAIN s}
<1>1. AsksOf(c, s) \in SUBSET S
  BY DEF AsksOf
<1>2. Few(S, n)
  BY FewAsks
<1> HIDE DEF S
<1> QED
  BY <1>1, <1>2, FewSubset

---------------------------------------------------------------------------
\* Each concept's own minimum.
LEMMA RecordChanged ==
    ASSUME NEW a, NEW b, NEW d, NEW e, NEW f, NEW g, NEW h, NEW m, NEW n, NEW v, NEW w
    PROVE  [[id |-> a, asks |-> b, score |-> d, concept |-> e, link |-> f, outcome |-> g,
             generic |-> h, thin |-> m, fit |-> n] EXCEPT !.concept = v, !.link = w]
           = [id |-> a, asks |-> b, score |-> d, concept |-> v, link |-> w, outcome |-> g,
              generic |-> h, thin |-> m, fit |-> n]
<1> DEFINE x == [id |-> a, asks |-> b, score |-> d, concept |-> e, link |-> f, outcome |-> g,
                 generic |-> h, thin |-> m, fit |-> n]
           y == [id |-> a, asks |-> b, score |-> d, concept |-> v, link |-> f, outcome |-> g,
                 generic |-> h, thin |-> m, fit |-> n]
           z == [id |-> a, asks |-> b, score |-> d, concept |-> v, link |-> w, outcome |-> g,
                 generic |-> h, thin |-> m, fit |-> n]
<1>1. [x EXCEPT !.concept = v] = y
  OBVIOUS
<1>2. [y EXCEPT !.link = w] = z
  OBVIOUS
<1> QED
  BY <1>1, <1>2

\* A card of the outcome that is given to a concept.
Given(x, c, link) == [x EXCEPT !.concept = c.id, !.link = link]

LEMMA GivenMade ==
    ASSUME NEW x, Ordinary(x), NEW c, c.outcome = x.outcome, NEW link
    PROVE  CardFor(c, Given(x, c, link))
<1> DEFINE y == Given(x, c, link)
<1>1. x = [id |-> x.id, asks |-> x.asks, score |-> x.score, concept |-> x.concept,
           link |-> x.link, outcome |-> x.outcome, generic |-> x.generic, thin |-> x.thin,
           fit |-> x.fit]
  BY DEF Ordinary, IsCard
<1>2. y = [id |-> x.id, asks |-> x.asks, score |-> x.score, concept |-> c.id,
           link |-> link, outcome |-> x.outcome, generic |-> x.generic, thin |-> x.thin,
           fit |-> x.fit]
  <2> DEFINE z == [id |-> x.id, asks |-> x.asks, score |-> x.score, concept |-> x.concept,
                   link |-> x.link, outcome |-> x.outcome, generic |-> x.generic, thin |-> x.thin,
                   fit |-> x.fit]
  <2>1. y = [z EXCEPT !.concept = c.id, !.link = link]
    BY <1>1 DEF Given
  <2> QED
    BY <2>1, RecordChanged
<1> HIDE DEF y
<1>3. /\ y.id = x.id /\ y.asks = x.asks /\ y.score = x.score /\ y.concept = c.id
      /\ y.link = link /\ y.outcome = x.outcome /\ y.generic = x.generic /\ y.thin = x.thin
      /\ y.fit = x.fit
  BY <1>2
<1>4. CardFor(c, y)
  BY <1>2, <1>3 DEF CardFor, Ordinary, IsCard
<1> QED
  BY <1>4 DEF y

LEMMA ConceptCovered ==
    ASSUME IsSection(section), List(hashOrder), NEW o,
           NEW c, IsConcept(c), c.outcome = o, NEW least \in {10, 24},
           NEW some, InOutcome(o, some), Len(some) <= 24
    PROVE  LET t == AtLeast(least, FoundFor(c, some), AddedFor(c, o))
           IN  MadeFor(c, t) /\ Len(t) <= 24
<1> DEFINE I == {k \in DOMAIN some : Belongs(some[k], c)}
           mine == At(some, I)
           found == [i \in DOMAIN mine |-> Own(mine[i], c)]
           more == Aggregate(o, <<c>>) \o ConceptTopUps(c) \o Balanced(c) \o Minimum(c)
           added == [i \in DOMAIN more |-> Linked(more[i], c)]
           t == AtLeast(least, found, added)
<1>0. FoundFor(c, some) = found /\ AddedFor(c, o) = added
  BY DEF FoundFor, AddedFor, Selected
<1>1. List(some) /\ I \in SUBSET DOMAIN some
  BY DEF InOutcome
<1> HIDE DEF I
<1>2. List(mine) /\ Len(mine) <= Len(some) /\ \A k \in DOMAIN mine : \E i \in I : mine[k] = some[i]
  BY <1>1, AtAll
<1> HIDE DEF mine
<1>3. \A k \in DOMAIN mine : Ordinary(mine[k]) /\ mine[k].outcome = o
  BY <1>1, <1>2, OutcomeOrdinary DEF Ordinaries
<1>4. List(found) /\ Len(found) = Len(mine) /\ DOMAIN found = DOMAIN mine
  <2>1. found = [i \in DOMAIN mine |-> found[i]]
    OBVIOUS
  <2> HIDE DEF found
  <2> QED
    BY <1>2, <2>1, ListMapped
<1>5. \A x : /\ Own(x, c) = Given(x, c, IF x.link # "none" THEN x.link ELSE LinkOf(c))
            /\ Linked(x, c) = Given(x, c, LinkOf(c))
  BY DEF Own, Linked, Given
<1>6. MadeFor(c, found)
  <2>1. ASSUME NEW i \in DOMAIN found PROVE CardFor(c, found[i])
    <3>1. Ordinary(mine[i]) /\ mine[i].outcome = o /\ found[i] = Own(mine[i], c)
      BY <1>3, <1>4
    <3> HIDE DEF found
    <3> QED
      BY <1>5, <3>1, GivenMade
  <2> QED
    BY <1>4, <2>1 DEF MadeFor
<1> HIDE DEF found
<1>7. MadeFor(c, more)
  <2> DEFINE a == Aggregate(o, <<c>>)
             b == a \o ConceptTopUps(c)
             d == b \o Balanced(c)
  <2>1. MadeFor(c, a)
    <3> DEFINE cs == <<c>>
    <3>1. List(cs) /\ DOMAIN cs = {1} /\ cs[1] = c /\ Len(cs) = 1
      BY ListOfOne
    <3> HIDE DEF cs
    <3>2. AreConcepts(cs) /\ cs # << >>
      BY <3>1, EmptyList DEF AreConcepts
    <3>3. MadeFor(c, Aggregate(o, cs))
      BY <3>1, <3>2, AggregateMade
    <3> QED
      BY <3>3 DEF cs
  <2> HIDE DEF a
  <2>2. MadeFor(c, b)
    BY <2>1, ConceptTopUpsMade, MadeConcat DEF IsConcept
  <2> HIDE DEF b
  <2>3. MadeFor(c, d)
    BY <2>2, BalancedMade, MadeConcat
  <2> HIDE DEF d
  <2>4. MadeFor(c, d \o Minimum(c))
    BY <2>3, MinimumMade, MadeConcat DEF IsConcept
  <2> QED
    BY <2>4 DEF a, b, d
<1> HIDE DEF more
<1>8. List(added) /\ DOMAIN added = DOMAIN more
  <2>1. added = [i \in DOMAIN more |-> added[i]]
    OBVIOUS
  <2> HIDE DEF added
  <2> QED
    BY <1>7, <2>1, ListMapped DEF MadeFor
<1>9. MadeFor(c, added)
  <2>1. ASSUME NEW i \in DOMAIN added PROVE CardFor(c, added[i])
    <3>1. Ordinary(more[i]) /\ more[i].outcome = o /\ added[i] = Linked(more[i], c)
      BY <1>7, <1>8 DEF MadeFor, CardFor
    <3> HIDE DEF added
    <3> QED
      BY <1>5, <3>1, GivenMade
  <2> QED
    BY <1>8, <2>1 DEF MadeFor
<1> HIDE DEF added
<1> DEFINE u == IF Len(found) < MIN_FLASHCARDS_PER_CONCEPT THEN found \o added ELSE found
           m == IF Len(found) > least THEN Len(found) ELSE least
<1>10. MadeFor(c, u)
  BY <1>6, <1>9, MadeConcat
<1>11. m \in Nat /\ m <= 24
  <2>1. Len(found) \in Nat /\ Len(some) \in Nat
    BY <1>1, <1>4, ListLength
  <2>2. Len(found) <= 24
    BY <1>2, <1>4, <2>1
  <2> QED
    BY <2>1, <2>2
<1>12. t = Unique(u, m)
  BY DEF AtLeast
<1> HIDE DEF u, m, t
<1>13. MadeFor(c, t)
  BY <1>10, <1>11, <1>12, MadeUnique
<1>14. Len(t) <= 24
  <2>1. Len(t) <= m
    BY <1>10, <1>11, <1>12, MadeIsDeck, UniqueCards
  <2>2. Len(t) \in Nat
    BY <1>13, ListLength DEF MadeFor
  <2> QED
    BY <1>11, <2>1, <2>2
<1> QED
  BY <1>0, <1>13, <1>14 DEF t

LEMMA ConceptsCovered ==
    ASSUME IsSection(section), List(hashOrder), NEW o,
           NEW some, InOutcome(o, some), Len(some) <= 24
    PROVE  LET cs == ConceptsOf(o)
               t == CoverConcepts(o, cs, some)
           IN  /\ InOutcome(o, t) /\ Apart(t) /\ \A k \in DOMAIN t : IsValid(t[k])
               /\ \A k \in DOMAIN cs : Few(AsksOf(cs[k], t), 24)
<1> DEFINE cs == ConceptsOf(o)
           least == IF Len(cs) = 1 THEN MAX_FLASHCARDS_PER_CONCEPT ELSE MIN_FLASHCARDS_PER_CONCEPT
           Covered(c) == AtLeast(least, FoundFor(c, some), AddedFor(c, o))
           R == {k \in DOMAIN some : \A i \in DOMAIN cs : ~Belongs(some[k], cs[i])}
           rest == At(some, R)
           ss == [i \in DOMAIN cs |-> Covered(cs[i])]
           flat == FlattenSeq(ss)
           u == flat \o rest
           t == UniqueAll(u)
<1>1. CoverConcepts(o, cs, some) = t
  BY DEF CoverConcepts, Selected
<1>2. /\ AreConcepts(cs)
      /\ \A k \in DOMAIN cs : \E i \in DOMAIN Concepts : Concepts[i].outcome = o /\ cs[k] = Concepts[i]
      /\ \A k, l \in DOMAIN cs : cs[k].id = cs[l].id => k = l
  BY ConceptsOfOutcome
<1> HIDE DEF cs
<1>3. least \in {10, 24}
  BY Limits
<1> HIDE DEF least
<1>4. ASSUME NEW k \in DOMAIN cs PROVE MadeFor(cs[k], ss[k]) /\ Len(ss[k]) <= 24
  <2>1. IsConcept(cs[k]) /\ cs[k].outcome = o
    BY <1>2 DEF AreConcepts
  <2>2. MadeFor(cs[k], Covered(cs[k])) /\ Len(Covered(cs[k])) <= 24
    BY <1>3, <2>1, ConceptCovered
  <2> HIDE DEF Covered
  <2> QED
    BY <2>2
<1> HIDE DEF Covered
<1>5. ss = [i \in DOMAIN cs |-> ss[i]]
  OBVIOUS
<1> HIDE DEF ss
<1>6. List(ss) /\ DOMAIN ss = DOMAIN cs
  BY <1>2, <1>5, ListMapped DEF AreConcepts
<1>7. /\ List(flat)
      /\ \A k \in DOMAIN flat : \E i \in DOMAIN ss : \E j \in DOMAIN ss[i] : flat[k] = ss[i][j]
  BY <1>4, <1>6, ListFlatten DEF MadeFor
<1>8. InOutcome(o, flat)
  <2>1. \A k \in DOMAIN cs : InOutcome(o, ss[k])
    BY <1>2, <1>4, OutcomeMade
  <2> QED
    BY <1>2, <1>5, <2>1, OutcomeFlatten DEF AreConcepts
<1> HIDE DEF flat
<1>9. List(rest) /\ \A k \in DOMAIN rest : \E i \in R : rest[k] = some[i]
  <2>1. R \in SUBSET DOMAIN some /\ List(some)
    BY DEF InOutcome
  <2> HIDE DEF R
  <2> QED
    BY <2>1, ListAt
<1>10. InOutcome(o, rest)
  BY <1>9, OutcomeWithin DEF Within
<1>11. \A i \in DOMAIN rest : \A k \in DOMAIN cs : rest[i].concept # cs[k].id
  <2>1. TAKE i \in DOMAIN rest
  <2>2. TAKE k \in DOMAIN cs
  <2>3. PICK j \in R : rest[i] = some[j]
    BY <1>9
  <2>4. ~Belongs(some[j], cs[k]) /\ cs[k].id # "none"
    BY <1>2 DEF AreConcepts, IsConcept
  <2> HIDE DEF R, rest
  <2> QED
    BY <2>3, <2>4 DEF Belongs, Aliases
<1> HIDE DEF rest, R
<1>12. InOutcome(o, u)
  BY <1>8, <1>10, OutcomeConcat
<1>13. FromEither(u, flat, rest)
  <2>1. List(flat) /\ List(rest)
    BY <1>7, <1>9
  <2> QED
    BY <2>1, WithinConcat
<1> HIDE DEF u
<1>14. IsDeck(t) /\ Within(t, u) /\ Apart(t) /\ \A k \in DOMAIN t : IsValid(t[k])
  BY <1>12, OutcomeOrdinary, UniqueAllCards
<1> HIDE DEF t
<1>15. InOutcome(o, t)
  BY <1>12, <1>14, OutcomeWithin DEF IsDeck
<1>16. ASSUME NEW k \in DOMAIN cs PROVE Few(AsksOf(cs[k], t), 24)
  <2>1. ASSUME NEW j \in DOMAIN t, t[j].concept = cs[k].id
        PROVE  \E m \in DOMAIN ss[k] : t[j] = ss[k][m]
    <3>1. PICK i \in DOMAIN u : t[j] = u[i]
      BY <1>14 DEF Within
    <3>2. PICK l \in DOMAIN flat : u[i] = flat[l]
      BY <1>11, <1>13, <2>1, <3>1 DEF FromEither
    <3>3. PICK p \in DOMAIN ss : \E m \in DOMAIN ss[p] : flat[l] = ss[p][m]
      BY <1>7
    <3>3a. PICK m \in DOMAIN ss[p] : flat[l] = ss[p][m]
      BY <3>3
    <3>4. ss[p][m].concept = cs[p].id
      BY <1>4, <1>6, <3>3 DEF MadeFor, CardFor
    <3>5. p = k
      BY <1>2, <1>6, <2>1, <3>1, <3>2, <3>3a, <3>4
    <3> QED
      BY <3>1, <3>2, <3>3a, <3>5
  <2>2. AsksOf(cs[k], t) \in SUBSET {ss[k][m].asks : m \in DOMAIN ss[k]}
    BY <2>1 DEF AsksOf
  <2>3. List(ss[k]) /\ Len(ss[k]) <= 24
    BY <1>4 DEF MadeFor
  <2>4. Few({ss[k][m].asks : m \in DOMAIN ss[k]}, 24)
    BY <2>3, FewAsks
  <2> QED
    BY <2>2, <2>4, FewSubset
<1> QED
  BY <1>1, <1>14, <1>15, <1>16 DEF cs

---------------------------------------------------------------------------
\* Marking cards changes neither what they ask nor whose they are.
LEMMA RecordMarked ==
    ASSUME NEW a, NEW b, NEW d, NEW e, NEW f, NEW g, NEW h, NEW m, NEW n, NEW v, NEW w
    PROVE  [[id |-> a, asks |-> b, score |-> d, concept |-> e, link |-> f, outcome |-> g,
             generic |-> h, thin |-> m, fit |-> n] EXCEPT !.thin = v, !.outcome = w]
           = [id |-> a, asks |-> b, score |-> d, concept |-> e, link |-> f, outcome |-> w,
              generic |-> h, thin |-> v, fit |-> n]
<1> DEFINE x == [id |-> a, asks |-> b, score |-> d, concept |-> e, link |-> f, outcome |-> g,
                 generic |-> h, thin |-> m, fit |-> n]
           y == [id |-> a, asks |-> b, score |-> d, concept |-> e, link |-> f, outcome |-> g,
                 generic |-> h, thin |-> v, fit |-> n]
           z == [id |-> a, asks |-> b, score |-> d, concept |-> e, link |-> f, outcome |-> w,
                 generic |-> h, thin |-> v, fit |-> n]
<1>1. [x EXCEPT !.thin = v] = y
  OBVIOUS
<1>2. [y EXCEPT !.outcome = w] = z
  OBVIOUS
<1> QED
  BY <1>1, <1>2

LEMMA CardMarked ==
    ASSUME NEW x, IsCard(x), NEW v
    PROVE  LET z == [x EXCEPT !.thin = v]
           IN  /\ IsCard(z) /\ z.asks = x.asks /\ z.id = x.id /\ z.link = x.link /\ z.fit = x.fit
               /\ z.concept = x.concept /\ z.thin = v /\ z.outcome = x.outcome
<1> DEFINE z == [x EXCEPT !.thin = v]
<1>1. x = [id |-> x.id, asks |-> x.asks, score |-> x.score, concept |-> x.concept,
           link |-> x.link, outcome |-> x.outcome, generic |-> x.generic, thin |-> x.thin,
           fit |-> x.fit]
  BY DEF IsCard
<1>2. z = [id |-> x.id, asks |-> x.asks, score |-> x.score, concept |-> x.concept,
           link |-> x.link, outcome |-> x.outcome, generic |-> x.generic, thin |-> v, fit |-> x.fit]
  BY <1>1
<1> HIDE DEF z
<1>3. /\ z.id = x.id /\ z.asks = x.asks /\ z.score = x.score /\ z.concept = x.concept
      /\ z.link = x.link /\ z.outcome = x.outcome /\ z.generic = x.generic /\ z.thin = v /\ z.fit = x.fit
  BY <1>2
<1>4. IsCard(z)
  BY <1>2, <1>3 DEF IsCard
<1> QED
  BY <1>3, <1>4 DEF z

\* A card of an outcome as the outcome delivers it.
Finished(x, v, o) == [x EXCEPT !.thin = v, !.outcome = o]

LEMMA CardFinished ==
    ASSUME NEW x, IsCard(x), NEW v, NEW o
    PROVE  LET y == Finished(x, v, o)
           IN  /\ IsCard(y) /\ y.asks = x.asks /\ y.id = x.id /\ y.link = x.link /\ y.fit = x.fit
               /\ y.concept = x.concept /\ y.thin = v /\ y.outcome = o
<1> DEFINE y == Finished(x, v, o)
<1>1. x = [id |-> x.id, asks |-> x.asks, score |-> x.score, concept |-> x.concept,
           link |-> x.link, outcome |-> x.outcome, generic |-> x.generic, thin |-> x.thin,
           fit |-> x.fit]
  BY DEF IsCard
<1>2. y = [id |-> x.id, asks |-> x.asks, score |-> x.score, concept |-> x.concept,
           link |-> x.link, outcome |-> o, generic |-> x.generic, thin |-> v, fit |-> x.fit]
  <2> DEFINE z == [id |-> x.id, asks |-> x.asks, score |-> x.score, concept |-> x.concept,
                   link |-> x.link, outcome |-> x.outcome, generic |-> x.generic, thin |-> x.thin,
                   fit |-> x.fit]
  <2>1. y = [z EXCEPT !.thin = v, !.outcome = o]
    BY <1>1 DEF Finished
  <2> QED
    BY <2>1, RecordMarked
<1> HIDE DEF y
<1>3. /\ y.id = x.id /\ y.asks = x.asks /\ y.score = x.score /\ y.concept = x.concept
      /\ y.link = x.link /\ y.outcome = o /\ y.generic = x.generic /\ y.thin = v /\ y.fit = x.fit
  BY <1>2
<1>4. IsCard(y)
  BY <1>2, <1>3 DEF IsCard
<1> QED
  BY <1>3, <1>4 DEF y

---------------------------------------------------------------------------
\* The cards of a list, each made for a concept of the section.
OfConcepts(s) ==
  List(s) /\ \A i \in DOMAIN s : \E j \in DOMAIN Concepts : CardFor(Concepts[j], s[i])

LEMMA OutcomeOfConcepts == ASSUME NEW o, NEW s, InOutcome(o, s) PROVE OfConcepts(s)
BY DEF InOutcome, OfConcepts

LEMMA ConceptsDeck == ASSUME NEW s, OfConcepts(s) PROVE IsDeck(s) /\ Ordinaries(s) /\ List(s)
<1>1. Ordinaries(s) /\ List(s)
  BY DEF OfConcepts, Ordinaries, CardFor
<1> QED
  BY <1>1, OrdinaryDeck

LEMMA ConceptsConcat ==
    ASSUME NEW a, NEW b, OfConcepts(a), OfConcepts(b) PROVE OfConcepts(a \o b)
<1> DEFINE t == a \o b
<1>1. List(a) /\ List(b)
  BY DEF OfConcepts
<1>2. List(t)
  BY <1>1, ListConcat
<1>3. FromEither(t, a, b)
  BY <1>1, WithinConcat
<1> HIDE DEF t
<1>4. OfConcepts(t)
  BY <1>2, <1>3 DEF OfConcepts, FromEither
<1> QED
  BY <1>4 DEF t

\* A concept's own cards, marked or not, are made for it.
LEMMA MarkedMade == ASSUME NEW c, NEW s, MadeFor(c, s) PROVE MadeFor(c, Marked(s))
<1> DEFINE v == Len(s) < MIN_FLASHCARDS_PER_LEARNING_OUTCOME
           t == [i \in DOMAIN s |-> [s[i] EXCEPT !.thin = v]]
<1>1. Marked(s) = t
  BY DEF Marked
<1> HIDE DEF v
<1>2. List(t) /\ DOMAIN t = DOMAIN s
  <2>1. t = [i \in DOMAIN s |-> t[i]]
    OBVIOUS
  <2> HIDE DEF t
  <2> QED
    BY <2>1, ListMapped DEF MadeFor
<1>3. ASSUME NEW i \in DOMAIN t PROVE CardFor(c, t[i])
  <2> DEFINE x == s[i]
             y == [x EXCEPT !.thin = v]
  <2>1. t[i] = y
    BY <1>2
  <2>2. CardFor(c, x) /\ IsCard(x)
    BY <1>2 DEF MadeFor, CardFor, Ordinary
  <2> HIDE DEF x
  <2>3. IsCard(y) /\ y.asks = x.asks /\ y.concept = x.concept /\ y.outcome = x.outcome
    BY <2>2, CardMarked
  <2> HIDE DEF y, t
  <2> QED
    BY <2>1, <2>2, <2>3 DEF CardFor, Ordinary
<1> QED
  BY <1>1, <1>2, <1>3 DEF MadeFor

---------------------------------------------------------------------------
\* A learning outcome: its cards, what they ask, and whether they are marked.
LEMMA OutcomeFilled ==
    ASSUME IsSection(section), List(hashOrder), NEW o, NEW made, OfConcepts(made)
    PROVE  LET cs == ConceptsOf(o)
               t == Filled(o, cs, made)
           IN  /\ InOutcome(o, t) /\ Apart(t) /\ \A k \in DOMAIN t : IsValid(t[k])
               /\ \A k \in DOMAIN cs : Few(AsksOf(cs[k], t), 24)
<1> DEFINE cs == ConceptsOf(o)
           I == {k \in DOMAIN made : made[k].outcome = o}
           its == At(made, I)
           some == Unique(Balance(its, cs), MAX_FLASHCARDS_PER_CONCEPT)
           covered == CoverConcepts(o, cs, some)
           sa == [i \in DOMAIN cs |-> ConceptTopUps(cs[i]) \o Balanced(cs[i])]
           sb == [i \in DOMAIN cs |-> Minimum(cs[i])]
           a == FlattenSeq(sa)
           b == a \o Aggregate(o, cs)
           topUps == b \o FlattenSeq(sb)
           t == ToppedUp(covered, topUps)
<1>1. Filled(o, cs, made) = t
  BY DEF Filled, Selected
<1>2. InOutcome(o, its)
  <2>1. I \in SUBSET DOMAIN made /\ List(made)
    BY DEF OfConcepts
  <2> HIDE DEF I
  <2>2. List(its) /\ \A k \in DOMAIN its : \E i \in I : its[k] = made[i]
    BY <2>1, ListAt
  <2> HIDE DEF its
  <2>3. ASSUME NEW k \in DOMAIN its
        PROVE  \E j \in DOMAIN Concepts : Concepts[j].outcome = o /\ CardFor(Concepts[j], its[k])
    <3>1. PICK i \in I : its[k] = made[i]
      BY <2>2
    <3>2. i \in DOMAIN made /\ made[i].outcome = o
      BY DEF I
    <3>3. PICK j \in DOMAIN Concepts : CardFor(Concepts[j], made[i])
      BY <3>2 DEF OfConcepts
    <3> QED
      BY <3>1, <3>2, <3>3 DEF CardFor
  <2> QED
    BY <2>2, <2>3 DEF InOutcome
<1> HIDE DEF its
<1>3. /\ AreConcepts(cs)
      /\ \A k \in DOMAIN cs : \E i \in DOMAIN Concepts : Concepts[i].outcome = o /\ cs[k] = Concepts[i]
  BY ConceptsOfOutcome
<1>4. InOutcome(o, some) /\ Len(some) <= 24
  <2> DEFINE u == Balance(its, cs)
  <2>1. List(u) /\ Within(u, its)
    BY <1>2, <1>3, BalanceWithin DEF InOutcome, AreConcepts
  <2> HIDE DEF u
  <2>2. InOutcome(o, u)
    BY <1>2, <2>1, OutcomeWithin
  <2>3. InOutcome(o, Unique(u, 24)) /\ Len(Unique(u, 24)) <= 24
    BY <2>2, OutcomeOrdinary, OutcomeUnique, UniqueCards
  <2> QED
    BY <2>3, Limits DEF u
<1> HIDE DEF some
<1>5. /\ InOutcome(o, covered) /\ Apart(covered) /\ \A k \in DOMAIN covered : IsValid(covered[k])
      /\ \A k \in DOMAIN cs : Few(AsksOf(cs[k], covered), 24)
  BY <1>4, ConceptsCovered
<1> HIDE DEF covered, cs
<1>6. InOutcome(o, topUps)
  <2>1. ASSUME NEW i \in DOMAIN cs PROVE InOutcome(o, sa[i]) /\ InOutcome(o, sb[i])
    <3>1. IsConcept(cs[i])
      BY <1>3 DEF AreConcepts
    <3>2. MadeFor(cs[i], sa[i]) /\ MadeFor(cs[i], sb[i])
      BY <3>1, ConceptTopUpsMade, BalancedMade, MadeConcat, MinimumMade DEF IsConcept
    <3> HIDE DEF sa, sb
    <3> QED
      BY <1>3, <3>2, OutcomeMade
  <2>2. sa = [i \in DOMAIN cs |-> sa[i]] /\ sb = [i \in DOMAIN cs |-> sb[i]]
    OBVIOUS
  <2> HIDE DEF sa, sb
  <2>3. InOutcome(o, a) /\ InOutcome(o, FlattenSeq(sb))
    BY <1>3, <2>1, <2>2, OutcomeFlatten DEF AreConcepts
  <2> HIDE DEF a
  <2>4. InOutcome(o, Aggregate(o, cs))
    <3>1. CASE cs = << >>
      <4>1. Aggregate(o, cs) = << >>
        BY <3>1 DEF Aggregate
      <4> QED
        BY <4>1, EmptyList DEF InOutcome
    <3>2. CASE cs # << >>
      <4>1. 1 \in DOMAIN cs
        BY <1>3, <3>2, NotEmpty DEF AreConcepts
      <4>2. MadeFor(cs[1], Aggregate(o, cs))
        BY <1>3, <3>2, AggregateMade
      <4> QED
        BY <1>3, <4>1, <4>2, OutcomeMade
    <3> QED
      BY <3>1, <3>2
  <2>5. InOutcome(o, b)
    BY <2>3, <2>4, OutcomeConcat
  <2> HIDE DEF b
  <2> QED
    BY <2>3, <2>5, OutcomeConcat
<1> HIDE DEF topUps
<1>7. CASE Len(covered) < MIN_FLASHCARDS_PER_LEARNING_OUTCOME
  <2> DEFINE w == covered \o topUps
             u == Unique(w, 24)
  <2>1. t = u
    BY <1>7, Limits DEF ToppedUp
  <2>2. InOutcome(o, w)
    BY <1>5, <1>6, OutcomeConcat
  <2> HIDE DEF w
  <2>3. InOutcome(o, u) /\ IsDeck(u) /\ Len(u) <= 24 /\ Apart(u) /\ \A k \in DOMAIN u : IsValid(u[k])
    BY <2>2, OutcomeUnique, OutcomeOrdinary, UniqueCards
  <2> HIDE DEF u
  <2>4. \A c : Few(AsksOf(c, u), 24)
    BY <2>3, FewAsksOf DEF IsDeck
  <2> QED
    BY <1>1, <2>1, <2>3, <2>4 DEF cs
<1>8. CASE ~(Len(covered) < MIN_FLASHCARDS_PER_LEARNING_OUTCOME)
  <2>1. t = covered
    BY <1>8 DEF ToppedUp
  <2> QED
    BY <1>1, <1>5, <2>1 DEF cs
<1> QED
  BY <1>7, <1>8

LEMMA OutcomeDelivered ==
    ASSUME IsSection(section), List(hashOrder), NEW o, NEW made, OfConcepts(made)
    PROVE  LET t == OutcomeCards(o, ConceptsOf(o), made)
           IN  /\ InOutcome(o, t) /\ Apart(t) /\ \A k \in DOMAIN t : IsValid(t[k])
               /\ \A j \in DOMAIN Concepts : Concepts[j].outcome = o => Few(AsksOf(Concepts[j], t), 24)
               /\ (\A k \in DOMAIN t : t[k].thin) \/ Len(t) >= 10
<1> DEFINE cs == ConceptsOf(o)
           s == Filled(o, cs, made)
           v == Thin(cs, s)
           t == [i \in DOMAIN s |-> [s[i] EXCEPT !.thin = v, !.outcome = o]]
<1>1. OutcomeCards(o, cs, made) = t
  BY DEF OutcomeCards, Delivered
<1>2. /\ InOutcome(o, s) /\ Apart(s) /\ \A k \in DOMAIN s : IsValid(s[k])
      /\ \A k \in DOMAIN cs : Few(AsksOf(cs[k], s), 24)
  BY OutcomeFilled
<1>3. \A i \in DOMAIN Concepts : Concepts[i].outcome = o => \E k \in DOMAIN cs : cs[k] = Concepts[i]
  BY ConceptsOfOutcome
<1>4. v \/ ~(Len(s) < 10)
  BY Limits DEF Thin
<1> HIDE DEF cs, s, v
<1>5. List(s) /\ IsDeck(s) /\ \A i \in DOMAIN s : s[i].outcome = o
  BY <1>2, OutcomeOrdinary DEF InOutcome
<1>6. List(t) /\ Len(t) = Len(s) /\ DOMAIN t = DOMAIN s
  <2>1. t = [i \in DOMAIN s |-> t[i]]
    OBVIOUS
  <2> HIDE DEF t
  <2> QED
    BY <1>5, <2>1, ListMapped
<1>7. ASSUME NEW i \in DOMAIN s
      PROVE  /\ IsCard(t[i]) /\ t[i].asks = s[i].asks /\ t[i].id = s[i].id
             /\ t[i].link = s[i].link /\ t[i].fit = s[i].fit
             /\ t[i].concept = s[i].concept /\ t[i].thin = v /\ t[i].outcome = s[i].outcome
  <2> DEFINE x == s[i]
             y == Finished(x, v, o)
  <2>1. t[i] = y
    BY <1>7 DEF Finished
  <2>2. IsCard(x) /\ x.outcome = o
    BY <1>5, <1>7 DEF IsDeck
  <2> HIDE DEF x, t
  <2>3. /\ IsCard(y) /\ y.asks = x.asks /\ y.id = x.id /\ y.link = x.link /\ y.fit = x.fit
        /\ y.concept = x.concept /\ y.thin = v /\ y.outcome = o
    BY <2>2, CardFinished
  <2> HIDE DEF y
  <2> QED
    BY <2>1, <2>2, <2>3 DEF x
<1> HIDE DEF t
<1>8. InOutcome(o, t)
  BY <1>2, <1>6, <1>7 DEF InOutcome, CardFor, Ordinary
<1>9. Apart(t)
  BY <1>2, <1>6, <1>7 DEF Apart
<1>10. \A k \in DOMAIN t : IsValid(t[k])
  BY <1>2, <1>6, <1>7 DEF IsValid
<1>11. ASSUME NEW j \in DOMAIN Concepts, Concepts[j].outcome = o PROVE Few(AsksOf(Concepts[j], t), 24)
  <2>1. PICK k \in DOMAIN cs : cs[k] = Concepts[j]
    BY <1>3, <1>11
  <2>2. AsksOf(Concepts[j], t) = AsksOf(cs[k], s)
    BY <1>6, <1>7, <2>1 DEF AsksOf
  <2> QED
    BY <1>2, <2>2
<1>12. (\A k \in DOMAIN t : t[k].thin) \/ Len(t) >= 10
  <2>1. CASE v
    BY <1>6, <1>7, <2>1
  <2>2. CASE ~v
    <3>1. Len(s) \in Nat
      BY <1>5, ListLength
    <3> QED
      BY <1>4, <1>6, <2>2, <3>1
  <2> QED
    BY <2>1, <2>2
<1> QED
  BY <1>1, <1>8, <1>9, <1>10, <1>11, <1>12 DEF cs

---------------------------------------------------------------------------
\* The invariant, part by part.
Sectioned ==
  /\ section \in Sections /\ hashOrder \in HashOrders
  /\ pc \in {"concepts", "outcomes", "top_up", "done"} /\ turn \in Nat \ {0}

\* Every card was made for a concept of the section; what is repaired is valid.
CardsOfConcepts ==
  /\ OfConcepts(cards) /\ OfConcepts(repaired)
  /\ \A k \in DOMAIN repaired : IsValid(repaired[k])
  /\ pc = "concepts" => repaired = << >>

\* Only the outcomes that had their turn have repaired cards.
OutcomesInTurn ==
  pc = "outcomes" => \A k \in DOMAIN repaired :
    \E m \in DOMAIN Outcomes : m < turn /\ repaired[k].outcome = Outcomes[m]

\* An outcome has ten questions, or all its cards are marked.
AsksIn(o, s) == {s[k].asks : k \in {k \in DOMAIN s : s[k].outcome = o}}
AtLeastTen(S) == IsFiniteSet(S) /\ Cardinality(S) >= 10
MarkedIn(o, s) ==
  \/ \A k \in DOMAIN s : s[k].outcome = o => s[k].thin
  \/ AtLeastTen(AsksIn(o, s))
OutcomesMarked == \A m \in DOMAIN Outcomes : MarkedIn(Outcomes[m], repaired)

ConceptsLimited == \A j \in DOMAIN Concepts : Few(AsksOf(Concepts[j], repaired), 24)

\* A deck of valid cards asks nothing twice, all that is repaired, and every
\* askable formula.
Complete(d) ==
  /\ IsDeck(d) /\ Apart(d) /\ \A k \in DOMAIN d : IsValid(d[k])
  /\ \A k \in DOMAIN repaired : \E j \in DOMAIN d : d[j].asks = repaired[k].asks
  /\ \A i \in DOMAIN FirstN(section.formulas, 8) :
       Askable(section.formulas[i])
       => \E j \in DOMAIN d : d[j].asks = FormulaQuestion(section.formulas[i])

IInv ==
  /\ Sectioned /\ CardsOfConcepts /\ OutcomesInTurn /\ OutcomesMarked /\ ConceptsLimited
  /\ pc \in {"top_up", "done"} => Complete(deck)

---------------------------------------------------------------------------
LEMMA Assumed == ASSUME Sectioned PROVE IsSection(section) /\ List(hashOrder)
BY SectionsAssumption, HashOrdersAssumption DEF Sectioned

LEMMA OutcomesApart ==
    ASSUME IsSection(section)
    PROVE  List(Outcomes) /\ \A k, l \in DOMAIN Outcomes : Outcomes[k] = Outcomes[l] => k = l
<1> DEFINE f == [i \in DOMAIN Concepts |-> Concepts[i].outcome]
<1>1. List(Concepts)
  BY DEF IsSection, Concepts
<1>2. f = [i \in DOMAIN Concepts |-> f[i]]
  OBVIOUS
<1>3. Outcomes = Deduped(f)
  BY DEF Outcomes
<1> HIDE DEF f
<1>4. List(f)
  BY <1>1, <1>2, ListMapped
<1> QED
  BY <1>3, <1>4, ListDeduped

\* A deck of ten cards that asks nothing twice has ten questions.
LEMMA TenAsks ==
    ASSUME NEW s, List(s), Apart(s), Len(s) >= 10
    PROVE  AtLeastTen({s[k].asks : k \in DOMAIN s})
<1> DEFINE f == [k \in DOMAIN s |-> s[k].asks]
           S == {s[k].asks : k \in DOMAIN s}
           m == Len(s)
<1>1. DOMAIN s = 1..m /\ m \in Nat /\ m >= 10
  BY ListLength
<1> HIDE DEF m
<1>2. IsFiniteSet(DOMAIN s) /\ Cardinality(DOMAIN s) = m
  BY <1>1, FS_Interval
<1>3. f \in Surjection(DOMAIN s, S)
  BY DEF Surjection
<1>4. f \in Injection(DOMAIN s, S)
  BY DEF Injection, IsInjective, Apart
<1> HIDE DEF f, S
<1>5. IsFiniteSet(S)
  BY <1>2, <1>3, FS_Surjection
<1>6. Cardinality(DOMAIN s) <= Cardinality(S)
  BY <1>4, <1>5, FS_Injection
<1>7. AtLeastTen(S)
  BY <1>1, <1>2, <1>5, <1>6, FS_CardinalityType DEF AtLeastTen
<1> QED
  BY <1>7 DEF S

\* While the section and the repaired cards stay, so does what is said of them.
LEMMA RepairedStays ==
    ASSUME section' = section, repaired' = repaired, OutcomesMarked, ConceptsLimited
    PROVE  OutcomesMarked' /\ ConceptsLimited'
<1>1. Concepts' = Concepts /\ Outcomes' = Outcomes
  BY DEF Concepts, Outcomes
<1> QED
  BY <1>1 DEF OutcomesMarked, ConceptsLimited

---------------------------------------------------------------------------
LEMMA InitInv == Init => IInv
<1> SUFFICES ASSUME Init PROVE IInv
  OBVIOUS
<1>1. /\ section \in Sections /\ hashOrder \in HashOrders /\ pc = "concepts" /\ turn = 1
      /\ cards = << >> /\ repaired = << >>
  BY DEF Init
<1>2. Sectioned
  BY <1>1 DEF Sectioned
<1>3. CardsOfConcepts
  BY <1>1, EmptyList DEF CardsOfConcepts, OfConcepts
<1>4. OutcomesInTurn
  BY <1>1 DEF OutcomesInTurn
<1>5. OutcomesMarked
  BY <1>1, EmptyList DEF OutcomesMarked, MarkedIn
<1>6. ConceptsLimited
  <2>1. \A c : Few(AsksOf(c, repaired), 24)
    BY <1>1, EmptyList, FewAsksOf
  <2> QED
    BY <2>1 DEF ConceptsLimited
<1> QED
  BY <1>1, <1>2, <1>3, <1>4, <1>5, <1>6 DEF IInv

LEMMA ConceptStep == ASSUME IInv, CardsForConcept PROVE IInv'
<1> DEFINE c == Concepts[turn]
           own == OwnCards(c)
           m == Marked(own)
           t == cards \o m
<1>1. /\ section' = section /\ hashOrder' = hashOrder /\ pc = "concepts" /\ pc' = pc
      /\ repaired' = repaired /\ turn' = turn + 1 /\ cards' = t /\ turn <= Len(Concepts)
  BY DEF CardsForConcept
<1>2. Concepts' = Concepts
  BY <1>1 DEF Concepts
<1>3. /\ Sectioned /\ OfConcepts(cards) /\ OfConcepts(repaired) /\ repaired = << >>
      /\ OutcomesMarked /\ ConceptsLimited /\ turn \in Nat \ {0}
      /\ \A k \in DOMAIN repaired : IsValid(repaired[k])
  BY <1>1 DEF IInv, CardsOfConcepts, Sectioned
<1>4. IsSection(section)
  BY <1>3, Assumed
<1>5. turn \in DOMAIN Concepts /\ IsConcept(Concepts[turn])
  <2>1. List(Concepts) /\ \A i \in DOMAIN Concepts : IsConcept(Concepts[i])
    BY <1>4 DEF IsSection, Concepts
  <2>2. DOMAIN Concepts = 1..Len(Concepts) /\ Len(Concepts) \in Nat
    BY <2>1, ListLength
  <2> QED
    BY <1>1, <1>3, <2>1, <2>2
<1>6. MadeFor(c, m)
  <2>1. IsConcept(c)
    BY <1>5
  <2> HIDE DEF c
  <2>2. MadeFor(c, own)
    BY <2>1, OwnCardsMade
  <2> HIDE DEF own
  <2> QED
    BY <2>2, MarkedMade
<1> HIDE DEF m
<1>7. OfConcepts(t)
  <2>1. OfConcepts(m)
    BY <1>5, <1>6 DEF OfConcepts, MadeFor
  <2> QED
    BY <1>3, <2>1, ConceptsConcat
<1> HIDE DEF t, c
<1>8. Sectioned'
  BY <1>1, <1>3 DEF Sectioned
<1>9. CardsOfConcepts'
  BY <1>1, <1>2, <1>3, <1>7 DEF CardsOfConcepts, OfConcepts
<1>10. OutcomesMarked' /\ ConceptsLimited'
  BY <1>1, <1>3, RepairedStays
<1>11. OutcomesInTurn'
  BY <1>1 DEF OutcomesInTurn
<1> QED
  BY <1>1, <1>8, <1>9, <1>10, <1>11 DEF IInv

LEMMA ConceptsDoneStep == ASSUME IInv, ConceptsDone PROVE IInv'
<1> DEFINE t == UniqueAll(cards)
<1>1. /\ section' = section /\ hashOrder' = hashOrder /\ pc = "concepts" /\ pc' = "outcomes"
      /\ repaired' = repaired /\ turn' = 1 /\ cards' = t
  BY DEF ConceptsDone
<1>2. Concepts' = Concepts
  BY <1>1 DEF Concepts
<1>3. /\ Sectioned /\ OfConcepts(cards) /\ repaired = << >> /\ OutcomesMarked /\ ConceptsLimited
  BY <1>1 DEF IInv, CardsOfConcepts
<1>4. OfConcepts(t)
  <2>1. IsDeck(t) /\ Within(t, cards)
    BY <1>3, ConceptsDeck, UniqueAllCards
  <2> HIDE DEF t
  <2> QED
    BY <1>3, <2>1 DEF OfConcepts, Within, IsDeck
<1> HIDE DEF t
<1>5. Sectioned'
  BY <1>1, <1>3 DEF Sectioned
<1>6. CardsOfConcepts' /\ OutcomesInTurn'
  BY <1>1, <1>2, <1>3, <1>4, EmptyList DEF CardsOfConcepts, OfConcepts, OutcomesInTurn
<1>7. OutcomesMarked' /\ ConceptsLimited'
  BY <1>1, <1>3, RepairedStays
<1> QED
  BY <1>1, <1>5, <1>6, <1>7 DEF IInv

---------------------------------------------------------------------------
\* An outcome is covered.

\* An outcome's cards are joined to those of the outcomes before it.
LEMMA OutcomeJoined ==
    ASSUME NEW o, NEW r, NEW s, List(r), List(s),
           \A k \in DOMAIN r : r[k].outcome # o,
           \A k \in DOMAIN s : s[k].outcome = o,
           Apart(s), (\A k \in DOMAIN s : s[k].thin) \/ Len(s) >= 10
    PROVE  /\ MarkedIn(o, r \o s)
           /\ \A p : p # o /\ MarkedIn(p, r) => MarkedIn(p, r \o s)
<1> DEFINE t == r \o s
<1>1. List(t) /\ Len(t) = Len(r) + Len(s)
  BY ListConcat
<1>2. FromEither(t, r, s)
  BY WithinConcat
<1>3. (\A k \in DOMAIN r : t[k] = r[k]) /\ (\A k \in DOMAIN s : t[Len(r) + k] = s[k])
  BY ListConcat
<1> HIDE DEF t
<1>4. (\A k \in DOMAIN r : k \in DOMAIN t) /\ (\A k \in DOMAIN s : Len(r) + k \in DOMAIN t)
  <2>1. /\ DOMAIN r = 1..Len(r) /\ Len(r) \in Nat /\ DOMAIN s = 1..Len(s) /\ Len(s) \in Nat
        /\ DOMAIN t = 1..Len(t)
    BY <1>1, ListLength
  <2> QED
    BY <1>1, <2>1
<1>5. MarkedIn(o, t)
  <2>1. CASE \A k \in DOMAIN s : s[k].thin
    BY <1>2, <2>1 DEF MarkedIn, FromEither
  <2>2. CASE Len(s) >= 10
    <3>1. AtLeastTen({s[k].asks : k \in DOMAIN s})
      BY <2>2, TenAsks
    <3>2. AsksIn(o, t) = {s[k].asks : k \in DOMAIN s}
      <4>1. ASSUME NEW k \in DOMAIN t, t[k].outcome = o PROVE \E i \in DOMAIN s : t[k].asks = s[i].asks
        BY <1>2, <4>1 DEF FromEither
      <4>2. ASSUME NEW i \in DOMAIN s
            PROVE  \E k \in DOMAIN t : t[k].outcome = o /\ s[i].asks = t[k].asks
        BY <1>3, <1>4
      <4> QED
        BY <4>1, <4>2 DEF AsksIn
    <3> QED
      BY <3>1, <3>2 DEF MarkedIn
  <2> QED
    BY <2>1, <2>2
<1>6. ASSUME NEW p, p # o, MarkedIn(p, r) PROVE MarkedIn(p, t)
  <2>1. ASSUME NEW k \in DOMAIN t, t[k].outcome = p
        PROVE  \E i \in DOMAIN r : r[i].outcome = p /\ t[k] = r[i]
    BY <1>2, <1>6, <2>1 DEF FromEither
  <2>2. ASSUME NEW i \in DOMAIN r, r[i].outcome = p
        PROVE  \E k \in DOMAIN t : t[k].outcome = p /\ t[k] = r[i]
    BY <1>3, <1>4, <2>2
  <2>3. AsksIn(p, t) = AsksIn(p, r)
    BY <2>1, <2>2 DEF AsksIn
  <2>4. CASE \A k \in DOMAIN r : r[k].outcome = p => r[k].thin
    BY <2>1, <2>4 DEF MarkedIn
  <2>5. CASE AtLeastTen(AsksIn(p, r))
    BY <2>3, <2>5 DEF MarkedIn
  <2> QED
    BY <1>6, <2>4, <2>5 DEF MarkedIn
<1> QED
  BY <1>5, <1>6 DEF t

\* What a concept's cards ask comes from one of the two lists only.
LEMMA AsksJoined ==
    ASSUME NEW c, NEW r, NEW s, List(r), List(s)
    PROVE  /\ (\A k \in DOMAIN s : s[k].concept # c.id) => AsksOf(c, r \o s) \in SUBSET AsksOf(c, r)
           /\ (\A k \in DOMAIN r : r[k].concept # c.id) => AsksOf(c, r \o s) \in SUBSET AsksOf(c, s)
<1> DEFINE t == r \o s
<1>1. FromEither(t, r, s)
  BY WithinConcat
<1> HIDE DEF t
<1>2. ASSUME \A k \in DOMAIN s : s[k].concept # c.id PROVE AsksOf(c, t) \in SUBSET AsksOf(c, r)
  <2>1. \A k \in DOMAIN t : t[k].concept = c.id
                            => \E i \in DOMAIN r : r[i].concept = c.id /\ t[k] = r[i]
    BY <1>1, <1>2 DEF FromEither
  <2> QED
    BY <2>1 DEF AsksOf
<1>3. ASSUME \A k \in DOMAIN r : r[k].concept # c.id PROVE AsksOf(c, t) \in SUBSET AsksOf(c, s)
  <2>1. \A k \in DOMAIN t : t[k].concept = c.id
                            => \E i \in DOMAIN s : s[i].concept = c.id /\ t[k] = s[i]
    BY <1>1, <1>3 DEF FromEither
  <2> QED
    BY <2>1 DEF AsksOf
<1> QED
  BY <1>2, <1>3 DEF t

LEMMA OutcomeStep == ASSUME IInv, CoverOutcome PROVE IInv'
<1> DEFINE o == Outcomes[turn]
           s == OutcomeCards(o, ConceptsOf(o), cards)
           t == repaired \o s
<1>1. /\ section' = section /\ hashOrder' = hashOrder /\ pc = "outcomes" /\ pc' = pc
      /\ cards' = cards /\ turn' = turn + 1 /\ repaired' = t /\ turn <= Len(Outcomes)
  BY DEF CoverOutcome
<1>2. Concepts' = Concepts /\ Outcomes' = Outcomes
  BY <1>1 DEF Concepts, Outcomes
<1>3. /\ Sectioned /\ OfConcepts(cards) /\ OfConcepts(repaired) /\ OutcomesInTurn
      /\ OutcomesMarked /\ ConceptsLimited /\ turn \in Nat \ {0}
      /\ \A k \in DOMAIN repaired : IsValid(repaired[k])
  BY DEF IInv, CardsOfConcepts, Sectioned
<1>4. IsSection(section) /\ List(hashOrder)
  BY <1>3, Assumed
<1>5. /\ List(Outcomes) /\ turn \in DOMAIN Outcomes
      /\ \A k, l \in DOMAIN Outcomes : Outcomes[k] = Outcomes[l] => k = l
  <2>1. List(Outcomes) /\ \A k, l \in DOMAIN Outcomes : Outcomes[k] = Outcomes[l] => k = l
    BY <1>4, OutcomesApart
  <2>2. DOMAIN Outcomes = 1..Len(Outcomes) /\ Len(Outcomes) \in Nat
    BY <2>1, ListLength
  <2> QED
    BY <1>1, <1>3, <2>1, <2>2
<1>6. o = Outcomes[turn]
  OBVIOUS
<1> HIDE DEF o
<1>7. /\ InOutcome(o, s) /\ Apart(s) /\ \A k \in DOMAIN s : IsValid(s[k])
      /\ \A j \in DOMAIN Concepts : Concepts[j].outcome = o => Few(AsksOf(Concepts[j], s), 24)
      /\ (\A k \in DOMAIN s : s[k].thin) \/ Len(s) >= 10
  BY <1>3, <1>4, OutcomeDelivered
<1> HIDE DEF s
<1>8. /\ List(s) /\ List(repaired) /\ OfConcepts(s)
      /\ \A k \in DOMAIN s : s[k].outcome = o
  BY <1>3, <1>7, OutcomeOrdinary, OutcomeOfConcepts DEF InOutcome, OfConcepts
<1>9. \A k \in DOMAIN repaired : repaired[k].outcome # o
  <2>1. TAKE k \in DOMAIN repaired
  <2>2. PICK m \in DOMAIN Outcomes : m < turn /\ repaired[k].outcome = Outcomes[m]
    BY <1>1, <1>3 DEF OutcomesInTurn
  <2>3. m # turn
    BY <1>3, <2>2
  <2> QED
    BY <1>5, <1>6, <2>2, <2>3
<1>10. List(t)
  BY <1>8, ListConcat
<1>11. FromEither(t, repaired, s)
  BY <1>8, WithinConcat
<1>12. OfConcepts(t)
  BY <1>3, <1>8, ConceptsConcat
<1>13. /\ MarkedIn(o, t)
       /\ \A p : p # o /\ MarkedIn(p, repaired) => MarkedIn(p, t)
  BY <1>7, <1>8, <1>9, OutcomeJoined
<1>14. ASSUME NEW j \in DOMAIN Concepts PROVE Few(AsksOf(Concepts[j], t), 24)
  <2> DEFINE c == Concepts[j]
  <2>1. \A i, l \in DOMAIN Concepts : Concepts[i].id = Concepts[l].id => i = l
    BY <1>4 DEF IsSection, Concepts
  <2>2. CASE c.outcome = o
    <3>1. \A k \in DOMAIN repaired : repaired[k].concept # c.id
      <4>1. TAKE k \in DOMAIN repaired
      <4>2. PICK l \in DOMAIN Concepts : CardFor(Concepts[l], repaired[k])
        BY <1>3 DEF OfConcepts
      <4>3. Concepts[l].outcome # o /\ repaired[k].concept = Concepts[l].id
        BY <1>9, <4>2 DEF CardFor
      <4> QED
        BY <1>14, <2>1, <2>2, <4>3
    <3>2. AsksOf(c, t) \in SUBSET AsksOf(c, s)
      BY <1>8, <3>1, AsksJoined
    <3>3. Few(AsksOf(c, s), 24)
      BY <1>7, <1>14, <2>2
    <3> QED
      BY <3>2, <3>3, FewSubset
  <2>3. CASE c.outcome # o
    <3>1. \A k \in DOMAIN s : s[k].concept # c.id
      <4>1. TAKE k \in DOMAIN s
      <4>2. PICK l \in DOMAIN Concepts : Concepts[l].outcome = o /\ CardFor(Concepts[l], s[k])
        BY <1>7 DEF InOutcome
      <4>3. s[k].concept = Concepts[l].id
        BY <4>2 DEF CardFor
      <4> QED
        BY <1>14, <2>1, <2>3, <4>2, <4>3
    <3>2. AsksOf(c, t) \in SUBSET AsksOf(c, repaired)
      BY <1>8, <3>1, AsksJoined
    <3>3. Few(AsksOf(c, repaired), 24)
      BY <1>3, <1>14 DEF ConceptsLimited
    <3> QED
      BY <3>2, <3>3, FewSubset
  <2> QED
    BY <2>2, <2>3
<1> HIDE DEF t
<1>15. Sectioned'
  BY <1>1, <1>3 DEF Sectioned
<1>16. CardsOfConcepts'
  <2>1. \A k \in DOMAIN t : IsValid(t[k])
    BY <1>3, <1>7, <1>11 DEF FromEither
  <2>2. OfConcepts(cards)' /\ OfConcepts(repaired)'
    BY <1>1, <1>2, <1>3, <1>12 DEF OfConcepts
  <2> QED
    BY <1>1, <2>1, <2>2 DEF CardsOfConcepts
<1>17. OutcomesInTurn'
  <2>1. ASSUME NEW k \in DOMAIN t
        PROVE  \E m \in DOMAIN Outcomes : m < turn + 1 /\ t[k].outcome = Outcomes[m]
    <3>1. CASE \E i \in DOMAIN repaired : t[k] = repaired[i]
      <4>1. PICK i \in DOMAIN repaired : t[k] = repaired[i]
        BY <3>1
      <4>2. PICK m \in DOMAIN Outcomes : m < turn /\ repaired[i].outcome = Outcomes[m]
        BY <1>1, <1>3 DEF OutcomesInTurn
      <4>3. m \in Nat
        BY <1>5, ListLength
      <4>4. m < turn + 1
        BY <1>3, <4>2, <4>3
      <4> QED
        BY <4>1, <4>2, <4>4
    <3>2. CASE \E i \in DOMAIN s : t[k] = s[i]
      <4>1. t[k].outcome = Outcomes[turn]
        BY <1>6, <1>8, <3>2
      <4>2. turn < turn + 1
        BY <1>3
      <4> QED
        BY <1>5, <4>1, <4>2
    <3> QED
      BY <1>11, <3>1, <3>2 DEF FromEither
  <2> QED
    BY <1>1, <1>2, <2>1 DEF OutcomesInTurn
<1>18. OutcomesMarked'
  <2>1. \A m \in DOMAIN Outcomes : MarkedIn(Outcomes[m], t)
    BY <1>3, <1>13 DEF OutcomesMarked
  <2> QED
    BY <1>1, <1>2, <2>1 DEF OutcomesMarked
<1>19. ConceptsLimited'
  BY <1>1, <1>2, <1>14 DEF ConceptsLimited
<1> QED
  BY <1>1, <1>15, <1>16, <1>17, <1>18, <1>19 DEF IInv

---------------------------------------------------------------------------
\* The deck is put together.
LEMMA DeckConcat ==
    ASSUME NEW a, NEW b, IsDeck(a), IsDeck(b), NEW t, t = a \o b
    PROVE  IsDeck(t) /\ Within(a, t) /\ Within(b, t)
<1>1. List(a) /\ List(b)
  BY DEF IsDeck
<1>2. List(t) /\ Len(t) = Len(a) + Len(b)
  BY <1>1, ListConcat
<1>3. FromEither(t, a, b)
  BY <1>1, WithinConcat
<1>4. (\A k \in DOMAIN a : t[k] = a[k]) /\ (\A k \in DOMAIN b : t[Len(a) + k] = b[k])
  BY <1>1, ListConcat
<1>5. (\A k \in DOMAIN a : k \in DOMAIN t) /\ (\A k \in DOMAIN b : Len(a) + k \in DOMAIN t)
  <2>1. /\ DOMAIN a = 1..Len(a) /\ Len(a) \in Nat /\ DOMAIN b = 1..Len(b) /\ Len(b) \in Nat
        /\ DOMAIN t = 1..Len(t)
    BY <1>1, <1>2, ListLength
  <2> QED
    BY <1>2, <2>1
<1>6. IsDeck(t)
  BY <1>2, <1>3 DEF IsDeck, FromEither
<1> QED
  BY <1>4, <1>5, <1>6 DEF Within

\* Marking the formulas' cards leaves a deck what it was but for the marks.
LEMMA FormulasMarkedDeck ==
    ASSUME NEW s, IsDeck(s)
    PROVE  LET t == FormulasMarked(s) IN
           /\ IsDeck(t) /\ DOMAIN t = DOMAIN s
           /\ \A k \in DOMAIN s : t[k].asks = s[k].asks /\ (IsValid(s[k]) => IsValid(t[k]))
<1> DEFINE M(x) == [x EXCEPT !.thin = TRUE]
           t == [i \in DOMAIN s |-> IF s[i].id.from = "formula" THEN M(s[i]) ELSE s[i]]
<1>1. CASE Len(s) >= MIN_FLASHCARDS_PER_CONCEPT
  <2>1. FormulasMarked(s) = s
    BY <1>1 DEF FormulasMarked
  <2> QED
    BY <2>1
<1>2. CASE ~(Len(s) >= MIN_FLASHCARDS_PER_CONCEPT)
  <2>1. FormulasMarked(s) = t
    BY <1>2 DEF FormulasMarked
  <2>2. List(s) /\ \A k \in DOMAIN s : IsCard(s[k])
    BY DEF IsDeck
  <2>3. List(t) /\ DOMAIN t = DOMAIN s
    <3>1. t = [i \in DOMAIN s |-> t[i]]
      OBVIOUS
    <3> HIDE DEF t
    <3> QED
      BY <2>2, <3>1, ListMapped
  <2>4. ASSUME NEW x, IsCard(x)
        PROVE  /\ IsCard(M(x)) /\ M(x).asks = x.asks /\ M(x).id = x.id
               /\ M(x).link = x.link /\ M(x).fit = x.fit
    BY <2>4, CardMarked
  <2>5. \A k \in DOMAIN s : t[k] = s[k] \/ t[k] = M(s[k])
    OBVIOUS
  <2> HIDE DEF M, t
  <2>6. ASSUME NEW k \in DOMAIN s
        PROVE  IsCard(t[k]) /\ t[k].asks = s[k].asks /\ (IsValid(s[k]) => IsValid(t[k]))
    <3>1. CASE t[k] = s[k]
      BY <2>2, <3>1
    <3>2. CASE t[k] = M(s[k])
      BY <2>2, <2>4, <3>2 DEF IsValid
    <3> QED
      BY <2>5, <3>1, <3>2
  <2> QED
    BY <2>1, <2>3, <2>6 DEF IsDeck
<1> QED
  BY <1>1, <1>2

LEMMA FormulasStep == ASSUME IInv, AddFormulas PROVE IInv'
<1> DEFINE a == UniqueAll(repaired)
           b == a \o FormulaCards
           d == UniqueAll(b)
<1>1. /\ section' = section /\ hashOrder' = hashOrder /\ pc = "outcomes" /\ pc' = "top_up"
      /\ cards' = cards /\ repaired' = repaired /\ turn' = 1 /\ deck' = d
  BY DEF AddFormulas
<1>2. Concepts' = Concepts
  BY <1>1 DEF Concepts
<1>3. /\ Sectioned /\ OfConcepts(cards) /\ OfConcepts(repaired)
      /\ OutcomesMarked /\ ConceptsLimited
      /\ \A k \in DOMAIN repaired : IsValid(repaired[k])
  BY DEF IInv, CardsOfConcepts
<1>4. IsSection(section)
  BY <1>3, Assumed
<1>5. /\ IsDeck(a) /\ \A k \in DOMAIN a : IsValid(a[k])
      /\ \A k \in DOMAIN repaired : \E j \in DOMAIN a : a[j].asks = repaired[k].asks
  BY <1>3, ConceptsDeck, UniqueAllCards
<1>6. /\ IsDeck(FormulaCards) /\ \A k \in DOMAIN FormulaCards : IsValid(FormulaCards[k])
      /\ \A i \in DOMAIN FirstN(section.formulas, 8) :
           Askable(section.formulas[i])
           => \E k \in DOMAIN FormulaCards : FormulaCards[k].asks = FormulaQuestion(section.formulas[i])
  BY <1>4, FormulaCardsAsk
<1> DEFINE f == FormulaCards
<1>7. b = a \o f
  OBVIOUS
<1>8. f = FormulaCards
  OBVIOUS
<1> HIDE DEF a, b, f
<1>9. IsDeck(b) /\ Within(a, b) /\ Within(f, b)
  BY <1>5, <1>6, <1>7, <1>8, DeckConcat
<1>10. /\ IsDeck(d) /\ Apart(d) /\ \A k \in DOMAIN d : IsValid(d[k])
       /\ \A i \in DOMAIN b : IsValid(b[i]) => \E k \in DOMAIN d : d[k].asks = b[i].asks
  BY <1>9, UniqueAllCards
<1> HIDE DEF d
<1>11. \A k \in DOMAIN a : \E j \in DOMAIN d : d[j].asks = a[k].asks
  BY <1>5, <1>9, <1>10 DEF Within
<1>12. \A k \in DOMAIN f : \E j \in DOMAIN d : d[j].asks = f[k].asks
  BY <1>6, <1>8, <1>9, <1>10 DEF Within
<1>13. \A k \in DOMAIN repaired : \E j \in DOMAIN d : d[j].asks = repaired[k].asks
  BY <1>5, <1>11
<1>14. ASSUME NEW i \in DOMAIN FirstN(section.formulas, 8), Askable(section.formulas[i])
       PROVE  \E j \in DOMAIN d : d[j].asks = FormulaQuestion(section.formulas[i])
  <2>1. PICK k \in DOMAIN f : f[k].asks = FormulaQuestion(section.formulas[i])
    BY <1>6, <1>8, <1>14
  <2>2. PICK j \in DOMAIN d : d[j].asks = f[k].asks
    BY <1>12
  <2> QED
    BY <2>1, <2>2
<1>15. Complete(d)
  BY <1>10, <1>13, <1>14 DEF Complete
<1>16. Complete(deck)'
  BY <1>1, <1>15 DEF Complete
<1>17. Sectioned'
  BY <1>1, <1>3 DEF Sectioned
<1>18. CardsOfConcepts'
  BY <1>1, <1>2, <1>3 DEF CardsOfConcepts, OfConcepts
<1>19. OutcomesMarked' /\ ConceptsLimited'
  BY <1>1, <1>3, RepairedStays
<1>20. OutcomesInTurn'
  BY <1>1 DEF OutcomesInTurn
<1> QED
  BY <1>16, <1>17, <1>18, <1>19, <1>20 DEF IInv

LEMMA TopUpStep == ASSUME IInv, TopUpSection PROVE IInv'
<1> DEFINE a == deck \o SectionTopUps(Usable)
           u == UniqueAll(a)
           e == IF Len(deck) < MIN_FLASHCARDS_PER_CONCEPT THEN u ELSE deck
           d == FormulasMarked(e)
<1>1. /\ section' = section /\ hashOrder' = hashOrder /\ pc = "top_up" /\ pc' = "done"
      /\ cards' = cards /\ repaired' = repaired /\ turn' = turn /\ deck' = d
  BY DEF TopUpSection
<1>2. Concepts' = Concepts
  BY <1>1 DEF Concepts
<1>3. /\ Sectioned /\ OfConcepts(cards) /\ OfConcepts(repaired)
      /\ OutcomesMarked /\ ConceptsLimited /\ Complete(deck)
      /\ \A k \in DOMAIN repaired : IsValid(repaired[k])
  BY <1>1 DEF IInv, CardsOfConcepts
<1>4. IsSection(section) /\ List(hashOrder)
  BY <1>3, Assumed
<1>5. IsDeck(deck) /\ Apart(deck) /\ \A k \in DOMAIN deck : IsValid(deck[k])
  BY <1>3 DEF Complete
<1>6. IsDeck(a) /\ Within(deck, a)
  <2> DEFINE m == SectionTopUps(Usable)
  <2>1. AreConcepts(Usable)
    BY <1>4, UsableConcepts
  <2>2. IsDeck(m) /\ a = deck \o m
    BY <1>4, <2>1, SectionTopUpsOrdinary, OrdinaryDeck
  <2> HIDE DEF m, a
  <2> QED
    BY <1>5, <2>2, DeckConcat
<1> HIDE DEF a
<1>7. /\ IsDeck(u) /\ Apart(u) /\ \A k \in DOMAIN u : IsValid(u[k])
      /\ \A i \in DOMAIN a : IsValid(a[i]) => \E k \in DOMAIN u : u[k].asks = a[i].asks
  BY <1>6, UniqueAllCards
<1> HIDE DEF u
<1>8. \A k \in DOMAIN deck : \E j \in DOMAIN u : u[j].asks = deck[k].asks
  BY <1>5, <1>6, <1>7 DEF Within
<1>9. /\ IsDeck(e) /\ Apart(e) /\ \A k \in DOMAIN e : IsValid(e[k])
      /\ \A k \in DOMAIN deck : \E j \in DOMAIN e : e[j].asks = deck[k].asks
  BY <1>5, <1>7, <1>8
<1> HIDE DEF e
<1>10. /\ IsDeck(d) /\ DOMAIN d = DOMAIN e
       /\ \A k \in DOMAIN e : d[k].asks = e[k].asks /\ (IsValid(e[k]) => IsValid(d[k]))
  BY <1>9, FormulasMarkedDeck
<1> HIDE DEF d
<1>11. Apart(d) /\ \A k \in DOMAIN d : IsValid(d[k])
  BY <1>9, <1>10 DEF Apart
<1>12. \A k \in DOMAIN deck : \E j \in DOMAIN d : d[j].asks = deck[k].asks
  BY <1>9, <1>10
<1>13. \A k \in DOMAIN repaired : \E j \in DOMAIN d : d[j].asks = repaired[k].asks
  <2>1. TAKE k \in DOMAIN repaired
  <2>2. PICK j \in DOMAIN deck : deck[j].asks = repaired[k].asks
    BY <1>3 DEF Complete
  <2> QED
    BY <1>12, <2>2
<1>14. ASSUME NEW i \in DOMAIN FirstN(section.formulas, 8), Askable(section.formulas[i])
       PROVE  \E j \in DOMAIN d : d[j].asks = FormulaQuestion(section.formulas[i])
  <2>1. PICK j \in DOMAIN deck : deck[j].asks = FormulaQuestion(section.formulas[i])
    BY <1>3, <1>14 DEF Complete
  <2> QED
    BY <1>12, <2>1
<1>15. Complete(d)
  BY <1>10, <1>11, <1>13, <1>14 DEF Complete
<1>16. Complete(deck)'
  BY <1>1, <1>15 DEF Complete
<1>17. Sectioned'
  BY <1>1, <1>3 DEF Sectioned
<1>18. CardsOfConcepts'
  BY <1>1, <1>2, <1>3 DEF CardsOfConcepts, OfConcepts
<1>19. OutcomesMarked' /\ ConceptsLimited'
  BY <1>1, <1>3, RepairedStays
<1>20. OutcomesInTurn'
  BY <1>1 DEF OutcomesInTurn
<1> QED
  BY <1>16, <1>17, <1>18, <1>19, <1>20 DEF IInv

LEMMA StutterStep == ASSUME IInv, UNCHANGED vars PROVE IInv'
<1>1. /\ section' = section /\ hashOrder' = hashOrder /\ pc' = pc /\ turn' = turn
      /\ cards' = cards /\ repaired' = repaired /\ deck' = deck
  BY DEF vars
<1>2. Concepts' = Concepts /\ Outcomes' = Outcomes
  BY <1>1 DEF Concepts, Outcomes
<1>3. /\ Sectioned /\ CardsOfConcepts /\ OutcomesInTurn /\ OutcomesMarked /\ ConceptsLimited
      /\ pc \in {"top_up", "done"} => Complete(deck)
  BY DEF IInv
<1>4. Sectioned' /\ OutcomesInTurn'
  BY <1>1, <1>2, <1>3 DEF Sectioned, OutcomesInTurn
<1>5. CardsOfConcepts'
  BY <1>1, <1>2, <1>3 DEF CardsOfConcepts, OfConcepts
<1>6. OutcomesMarked' /\ ConceptsLimited'
  BY <1>1, <1>3, RepairedStays
<1>7. (pc \in {"top_up", "done"} => Complete(deck))'
  BY <1>1, <1>3 DEF Complete
<1> QED
  BY <1>4, <1>5, <1>6, <1>7 DEF IInv

---------------------------------------------------------------------------
\* Whatever the section and the order of the hashes, the invariant holds.
THEOREM DecksGrowRight == Spec => []IInv
<1>1. Init => IInv
  BY InitInv
<1>2. IInv /\ [Next]_vars => IInv'
  <2> SUFFICES ASSUME IInv, [Next]_vars PROVE IInv'
    OBVIOUS
  <2>1. CASE CardsForConcept
    BY <2>1, ConceptStep
  <2>2. CASE ConceptsDone
    BY <2>2, ConceptsDoneStep
  <2>3. CASE CoverOutcome
    BY <2>3, OutcomeStep
  <2>4. CASE AddFormulas
    BY <2>4, FormulasStep
  <2>5. CASE TopUpSection
    BY <2>5, TopUpStep
  <2>6. CASE UNCHANGED vars
    BY <2>6, StutterStep
  <2> QED
    BY <2>1, <2>2, <2>3, <2>4, <2>5, <2>6 DEF Next
<1> QED
  BY <1>1, <1>2, PTL DEF Spec

\* No delivered deck asks a question twice.
THEOREM DecksAskNothingTwice == Spec => []NothingAskedTwice
<1>1. IInv => NothingAskedTwice
  BY DEF IInv, Complete, Apart, NothingAskedTwice
<1> QED
  BY <1>1, DecksGrowRight, PTL

\* Every formula worth a card is asked in the delivered deck.
THEOREM DecksAskEveryFormula == Spec => []EveryFormulaAsked
<1>1. IInv => EveryFormulaAsked
  <2> SUFFICES ASSUME IInv, pc = "done",
                      NEW i \in DOMAIN FirstN(section.formulas, 8), Askable(section.formulas[i])
               PROVE  \E j \in DOMAIN deck : /\ deck[j].id.of = section.formulas[i].id
                                             /\ deck[j].id.kind = "formula"
    BY DEF EveryFormulaAsked
  <2> DEFINE f == section.formulas[i]
             q == FormulaQuestion(f)
  <2>1. IsSection(section) /\ Complete(deck)
    BY Assumed DEF IInv
  <2>2. List(section.formulas) /\ \A k \in DOMAIN section.formulas : section.formulas[k].id # "none"
    BY <2>1 DEF IsSection
  <2>3. i \in DOMAIN section.formulas
    BY <2>2, ListFirstN
  <2>4. f.id # "none"
    BY <2>2, <2>3
  <2>5. q.formula = f.id
    BY DEF FormulaQuestion, Question
  <2>6. PICK j \in DOMAIN deck : deck[j].asks = q
    BY <2>1 DEF Complete
  <2>7. IsCard(deck[j])
    BY <2>1, <2>6 DEF Complete, IsDeck
  <2> HIDE DEF f, q
  <2>8. deck[j].id.of = f.id /\ deck[j].id.kind = "formula"
    BY <2>4, <2>5, <2>6, <2>7 DEF IsCard
  <2> QED
    BY <2>6, <2>8 DEF f
<1> QED
  BY <1>1, DecksGrowRight, PTL

\* Its outcome brings no concept more than 24 cards to a delivered deck.
THEOREM DecksCapConcepts == Spec => []ConceptCapped
<1>1. IInv => ConceptCapped
  <2> SUFFICES ASSUME IInv, pc = "done", NEW c \in ToSet(Concepts)
               PROVE  Cardinality({i \in DOMAIN deck : /\ deck[i].concept = c.id
                                                      /\ deck[i] \in ToSet(repaired)}) <= 24
    BY Limits DEF ConceptCapped
  <2> DEFINE I == {i \in DOMAIN deck : deck[i].concept = c.id /\ deck[i] \in ToSet(repaired)}
             S == AsksOf(c, repaired)
             f == [i \in I |-> deck[i].asks]
  <2>1. PICK j \in DOMAIN Concepts : c = Concepts[j]
    BY DEF ToSet
  <2>2. Few(S, 24) /\ Complete(deck)
    BY <2>1 DEF IInv, ConceptsLimited
  <2>3. \A i \in I : deck[i].asks \in S
    <3>1. TAKE i \in I
    <3>2. PICK k \in DOMAIN repaired : deck[i] = repaired[k]
      BY DEF ToSet
    <3> QED
      BY <3>2 DEF AsksOf
  <2>4. \A k, l \in I : deck[k].asks = deck[l].asks => k = l
    BY <2>2 DEF Complete, Apart
  <2> HIDE DEF I, S
  <2>5. f \in Injection(I, S)
    BY <2>3, <2>4 DEF Injection, IsInjective
  <2> HIDE DEF f
  <2>6. IsFiniteSet(S) /\ Cardinality(S) <= 24
    BY <2>2 DEF Few
  <2>7. IsFiniteSet(I) /\ Cardinality(I) <= Cardinality(S)
    BY <2>5, <2>6, FS_Injection
  <2>8. Cardinality(I) \in Nat /\ Cardinality(S) \in Nat
    BY <2>6, <2>7, FS_CardinalityType
  <2>9. Cardinality(I) <= 24
    BY <2>6, <2>7, <2>8
  <2> QED
    BY <2>9 DEF I
<1> QED
  BY <1>1, DecksGrowRight, PTL

\* The cards of an outcome in a deck.
LEMMA CardsOfOutcome ==
    ASSUME NEW s, List(s), NEW o
    PROVE  LET t == CardsOf(s, o) IN
           /\ List(t) /\ Within(t, s) /\ \A k \in DOMAIN t : t[k].outcome = o
           /\ \A i \in DOMAIN s : s[i].outcome = o => \E k \in DOMAIN t : t[k] = s[i]
<1> DEFINE I == {i \in DOMAIN s : s[i].outcome = o}
           t == At(s, I)
<1>1. CardsOf(s, o) = t
  BY DEF CardsOf, Selected
<1>2. I \in SUBSET DOMAIN s /\ \A i \in I : s[i].outcome = o
  OBVIOUS
<1>3. \A i \in DOMAIN s : s[i].outcome = o => i \in I
  OBVIOUS
<1> HIDE DEF I
<1>4. /\ List(t) /\ \A k \in DOMAIN t : \E i \in I : t[k] = s[i]
      /\ \A i \in I : \E k \in DOMAIN t : t[k] = s[i]
  BY <1>2, AtAll
<1> HIDE DEF t
<1>5. Within(t, s)
  BY <1>2, <1>4 DEF Within
<1>6. \A k \in DOMAIN t : t[k].outcome = o
  BY <1>2, <1>4
<1> QED
  BY <1>1, <1>3, <1>4, <1>5, <1>6

\* An outcome with less than ten cards in the delivered deck has them marked, or
\* has lost one to an outcome that asks the same.
THEOREM DecksMarkThinOutcomes == Spec => []ThinIsMarkedOrShared
<1>1. IInv => ThinIsMarkedOrShared
  <2> SUFFICES ASSUME IInv, pc = "done", NEW o \in ToSet(Outcomes),
                      Len(CardsOf(deck, o)) < 10
               PROVE  LET its == CardsOf(deck, o) IN
                      \/ \A i \in DOMAIN its : its[i].thin \/ its[i] \notin ToSet(repaired)
                      \/ \E x \in ToSet(CardsOf(repaired, o)) :
                           /\ x.asks \notin Asks(its)
                           /\ \E y \in ToSet(deck) : y.asks = x.asks /\ y.outcome # o
    BY Limits DEF ThinIsMarkedOrShared
  <2> DEFINE its == CardsOf(deck, o)
             rs == CardsOf(repaired, o)
             S == AsksIn(o, repaired)
  <2>1. PICK m \in DOMAIN Outcomes : o = Outcomes[m]
    BY DEF ToSet
  <2>2. MarkedIn(o, repaired) /\ Complete(deck) /\ OfConcepts(repaired)
    BY <2>1 DEF IInv, OutcomesMarked, CardsOfConcepts
  <2>3. List(deck) /\ List(repaired)
    BY <2>2 DEF Complete, IsDeck, OfConcepts
  <2>4. /\ List(its) /\ Within(its, deck) /\ \A k \in DOMAIN its : its[k].outcome = o
        /\ \A i \in DOMAIN deck : deck[i].outcome = o => \E k \in DOMAIN its : its[k] = deck[i]
    BY <2>3, CardsOfOutcome
  <2>5. \A i \in DOMAIN repaired : repaired[i].outcome = o => \E k \in DOMAIN rs : rs[k] = repaired[i]
    BY <2>3, CardsOfOutcome
  <2>6. Len(its) < 10
    OBVIOUS
  <2> HIDE DEF its, rs
  <2>7. CASE \A k \in DOMAIN repaired : repaired[k].outcome = o => repaired[k].thin
    <3>1. ASSUME NEW i \in DOMAIN its, its[i] \in ToSet(repaired) PROVE its[i].thin
      <4>1. PICK k \in DOMAIN repaired : its[i] = repaired[k]
        BY <3>1 DEF ToSet
      <4> QED
        BY <2>4, <2>7, <4>1
    <3> QED
      BY <3>1 DEF its
  <2>8. CASE AtLeastTen(S)
    <3> DEFINE T == {its[k].asks : k \in DOMAIN its}
    <3>1. Few(T, 9)
      <4>1. Len(its) \in Nat
        BY <2>4, ListLength
      <4>2. Len(its) <= 9
        BY <2>6, <4>1
      <4> QED
        BY <2>4, <4>2, FewAsks
    <3> HIDE DEF S, T
    <3>2. ~(S \subseteq T)
      <4>1. SUFFICES ASSUME S \subseteq T PROVE FALSE
        OBVIOUS
      <4>2. Few(S, 9)
        BY <3>1, <4>1, FewSubset
      <4>3. Cardinality(S) <= 9 /\ Cardinality(S) >= 10 /\ Cardinality(S) \in Nat
        BY <2>8, <4>2, FS_CardinalityType DEF Few, AtLeastTen
      <4> QED
        BY <4>3
    <3>3. PICK q \in S : q \notin T
      BY <3>2
    <3>4. PICK i \in DOMAIN repaired : repaired[i].outcome = o /\ repaired[i].asks = q
      BY <3>3 DEF S, AsksIn
    <3>5. PICK k \in DOMAIN rs : rs[k] = repaired[i]
      BY <2>5, <3>4
    <3>6. PICK j \in DOMAIN deck : deck[j].asks = repaired[i].asks
      BY <2>2, <3>4 DEF Complete
    <3>7. deck[j].outcome # o
      <4>1. SUFFICES ASSUME deck[j].outcome = o PROVE FALSE
        OBVIOUS
      <4>2. PICK l \in DOMAIN its : its[l] = deck[j]
        BY <2>4, <3>6, <4>1
      <4>3. q \in T
        BY <3>4, <3>6, <4>2 DEF T
      <4> QED
        BY <3>3, <4>3
    <3>8. rs[k] \in ToSet(rs) /\ deck[j] \in ToSet(deck)
      BY <3>5, <3>6 DEF ToSet
    <3>9. rs[k].asks \notin Asks(its)
      BY <3>3, <3>4, <3>5 DEF Asks, T
    <3> QED
      BY <3>4, <3>5, <3>6, <3>7, <3>8, <3>9 DEF its, rs
  <2> QED
    BY <2>2, <2>7, <2>8 DEF MarkedIn
<1> QED
  BY <1>1, DecksGrowRight, PTL
=============================================================================
