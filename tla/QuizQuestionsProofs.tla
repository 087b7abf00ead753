------------------------ MODULE QuizQuestionsProofs ------------------------
(***************************************************************************)
(* Proofs about QuizQuestions, for every course, request, ranking, answer  *)
(* of the language model and score.                                        *)
(*                                                                         *)
(* Good is the inductive invariant: the questions made so far belong to    *)
(* the selected hits in their order, each with an id that tells its place  *)
(* and its try, and what is remembered are these questions.  A step either *)
(* delivers one more question (DeliverKept), ends the request, or leaves   *)
(* all of this alone.                                                      *)
(*                                                                         *)
(* That a question written without a model marks its own answer is shown   *)
(* of each way a question is made (Keyed), so that it holds of the first   *)
(* one a text gives, whichever that is (FallbackKeyed).                    *)
(***************************************************************************)
EXTENDS QuizQuestions, SelectionsProofs

\* The questions of the request in work: of which hits, and with which ids.
Placed ==
    /\ Len(asked) <= Len(hits)
    /\ \A i \in 1..Len(asked) :
           /\ asked[i].of = hits[i]
           /\ asked[i].try \in 0..3
           /\ asked[i].id = i + asked[i].try * Len(hits)

Good ==
    /\ List(hits) /\ List(asked) /\ List(sessions)
    /\ \A i \in DOMAIN hits : hits[i] \in Chunks
    /\ try \in 0..3
    /\ request = << >> => asked = << >>
    /\ request # << >> => Len(hits) = request[1].count
    /\ Placed
    /\ SeenIsAsked
    /\ SessionsAreWhole
    /\ NothingRepeated
    /\ OnlyTheModelDelivers
    /\ KeyIsTheAnswer

---------------------------------------------------------------------------
\* Sequences and numbers.

\* The ids of a quiz of n questions: the stride of the tries keeps them apart.
LEMMA IdsDiffer ==
    ASSUME NEW n \in Nat, NEW i \in 1..n, NEW j \in 1..n, NEW t \in 0..3, NEW u \in 0..3,
           i + t * n = j + u * n
    PROVE  i = j
<1>1. \A v \in 0..3 : v * n = (CASE v = 0 -> 0 [] v = 1 -> n [] v = 2 -> n + n [] OTHER -> n + n + n)
  OBVIOUS
<1> QED
  BY <1>1

---------------------------------------------------------------------------
\* A question written without a model, and its key.

\* What is to be shown of a question.
Keyed(q) ==
    /\ FourDistinct(q.options) /\ DOMAIN q.options = 1..4
    /\ q.key \in 1..4 /\ q.options[q.key] = q.answer

\* A text of the course: its sentences are a sequence.
IsText(content) == content.sentences \in Seq(ToSet(content.sentences))

LEMMA TextForm == \A form, of : Text(form, of).form = form /\ Text(form, of).of = of
BY DEF Text

LEMMA TurnPlace ==
    ASSUME NEW S, NEW s \in Seq(S), s # << >>, NEW n \in Nat \ {0}
    PROVE  \E i \in DOMAIN s : Turn(s, n) = s[i]
<1> DEFINE m == Len(s)
           r == (n - 1) % m
<1>1. m \in Nat /\ m > 0 /\ DOMAIN s = 1..m
  OBVIOUS
<1> HIDE DEF m
<1>2. r \in 0..(m - 1)
  BY <1>1
<1>3. 1 + r \in 1..m
  <2> HIDE DEF r
  <2> QED
    BY <1>1, <1>2
<1>4. Turn(s, n) = s[1 + r]
  BY DEF Turn, m
<1> QED
  BY <1>1, <1>3, <1>4

\* The place option i is taken from when four are rotated.
Source(n, i) == 1 + ((i + n - 1 - 1) % 4)

LEMMA SourceOfFour ==
    ASSUME NEW n \in Nat \ {0}
    PROVE  /\ \A i \in 1..4 : Source(n, i) \in 1..4
           /\ \A i, j \in 1..4 : Source(n, i) = Source(n, j) => i = j
           /\ \A k \in 1..4 : \E i \in 1..4 : Source(n, i) = k
<1> DEFINE r == (n - 1) % 4
           At4(i) == (i - 1 + r) % 4
<1>1. r \in 0..3
  OBVIOUS
<1>2. \A i \in 1..4 : Source(n, i) = 1 + ((i - 1 + r) % 4)
  BY DEF Source
<1> HIDE DEF r
<1>3. /\ \A i \in 1..4 : 1 + ((i - 1 + r) % 4) \in 1..4
      /\ \A i, j \in 1..4 : 1 + ((i - 1 + r) % 4) = 1 + ((j - 1 + r) % 4) => i = j
      /\ \A k \in 1..4 : \E i \in 1..4 : 1 + ((i - 1 + r) % 4) = k
  <2>1. CASE r = 0
    BY <2>1
  <2>2. CASE r = 1
    BY <2>2
  <2>3. CASE r = 2
    BY <2>3
  <2>4. CASE r = 3
    BY <2>4
  <2> QED
    BY <1>1, <2>1, <2>2, <2>3, <2>4
<1> QED
  BY <1>2, <1>3

LEMMA RotatedFour ==
    ASSUME NEW o, DOMAIN o = 1..4, Len(o) = 4, FourDistinct(o), NEW n \in Nat \ {0}
    PROVE  LET t == Rotated(o, n) IN
           /\ FourDistinct(t) /\ DOMAIN t = 1..4
           /\ \A i \in 1..4 : \E k \in 1..4 : t[i] = o[k]
           /\ \A k \in 1..4 : \E i \in 1..4 : t[i] = o[k]
<1> DEFINE t == Rotated(o, n)
<1>1. t = [i \in 1..4 |-> o[Source(n, i)]]
  BY DEF Rotated, Turn, Source
<1>2. /\ \A i \in 1..4 : Source(n, i) \in 1..4
      /\ \A i, j \in 1..4 : Source(n, i) = Source(n, j) => i = j
      /\ \A k \in 1..4 : \E i \in 1..4 : Source(n, i) = k
  BY SourceOfFour
<1> HIDE DEF t
<1>3. DOMAIN t = 1..4 /\ \A i \in 1..4 : t[i] = o[Source(n, i)]
  BY <1>1
<1>4. Len(t) = 4
  BY <1>1
<1>5. FourDistinct(t)
  BY <1>2, <1>3, <1>4 DEF FourDistinct
<1> QED
  BY <1>2, <1>3, <1>5 DEF t

\* A question made by Mcq from four different options, of which one is the answer.
LEMMA McqKeyed ==
    ASSUME NEW prompt, NEW o, NEW a,
           DOMAIN o = 1..4, FourDistinct(o), \E i \in 1..4 : o[i] = a
    PROVE  Keyed(Mcq(prompt, o, a))
<1> DEFINE p == Position(o, a)
<1>1. PICK i \in 1..4 : o[i] = a
  OBVIOUS
<1>2. \A j \in 1..(i - 1) : o[j] # a
  BY <1>1 DEF FourDistinct
<1>3. p \in 1..4 /\ o[p] = a
  BY <1>1, <1>2 DEF Position
<1> HIDE DEF p
<1>4. Mcq(prompt, o, a) = [prompt |-> prompt, options |-> o, answer |-> a, key |-> p]
  BY DEF Mcq, p
<1> QED
  BY <1>3, <1>4 DEF Keyed

LEMMA PatternedKeyed ==
    ASSUME NEW prompt, NEW o, NEW k \in 1..4, NEW n \in Nat \ {0},
           DOMAIN o = 1..4, Len(o) = 4, FourDistinct(o)
    PROVE  Keyed(PatternedMcq(prompt, o, o[k], n))
<1> DEFINE t == Rotated(o, n)
<1>1. /\ FourDistinct(t) /\ DOMAIN t = 1..4
      /\ \A i \in 1..4 : \E j \in 1..4 : t[i] = o[j]
      /\ \A j \in 1..4 : \E i \in 1..4 : t[i] = o[j]
  BY RotatedFour
<1> HIDE DEF t
<1>2. Keyed(Mcq(prompt, t, o[k]))
  BY <1>1, McqKeyed
<1> QED
  BY <1>2 DEF PatternedMcq, t

\* Four options that differ in a number.
LEMMA FourNumbered ==
    \A a, b \in 1..4 : Numeral(a) = Numeral(b) => a = b
BY DEF Numeral

\* An answer put among three different wrong ones.
LEMMA InsertedFour ==
    ASSUME NEW S, NEW w \in Seq(S), Len(w) = 3, NEW a, NEW p \in 1..4,
           \A i, j \in 1..3 : w[i] = w[j] => i = j,
           \A i \in 1..3 : w[i] # a
    PROVE  LET t == InsertAt(w, p, a) IN
           /\ FourDistinct(t) /\ DOMAIN t = 1..4
           /\ t[p] = a
           /\ \A i \in 1..4 : i # p => \E k \in 1..3 : t[i] = w[k]
<1> DEFINE t == InsertAt(w, p, a)
           before == SubSeq(w, 1, p - 1)
           after == SubSeq(w, p, 3)
           T == S \cup {a}
<1>1. /\ before \in Seq(T) /\ Len(before) = p - 1
      /\ \A i \in 1..(p - 1) : before[i] = w[i]
  OBVIOUS
<1>2. /\ after \in Seq(T) /\ Len(after) = 4 - p
      /\ \A i \in 1..(4 - p) : after[i] = w[p + i - 1]
  OBVIOUS
<1>3. t = (before \o <<a>>) \o after
  BY DEF InsertAt
<1> HIDE DEF t, before, after
<1>4. <<a>> \in Seq(T) /\ Len(<<a>>) = 1 /\ <<a>>[1] = a
  OBVIOUS
<1>5. /\ before \o <<a>> \in Seq(T) /\ Len(before \o <<a>>) = p
      /\ \A i \in 1..(p - 1) : (before \o <<a>>)[i] = w[i]
      /\ (before \o <<a>>)[p] = a
  BY <1>1, <1>4
<1>6. /\ t \in Seq(T) /\ Len(t) = 4
      /\ \A i \in 1..(p - 1) : t[i] = w[i]
      /\ t[p] = a
      /\ \A i \in (p + 1)..4 : t[i] = w[i - 1]
  <2> DEFINE b == before \o <<a>>
  <2>1. b \in Seq(T) /\ Len(b) = p /\ (\A i \in 1..(p - 1) : b[i] = w[i]) /\ b[p] = a
    BY <1>5
  <2> HIDE DEF b
  <2>2. t = b \o after
    BY <1>3 DEF b
  <2>3. t \in Seq(T) /\ Len(t) = 4
    BY <1>2, <2>1, <2>2
  <2>4. \A i \in 1..p : t[i] = b[i]
    BY <1>2, <2>1, <2>2
  <2>5. \A i \in (p + 1)..4 : t[i] = after[i - p]
    BY <1>2, <2>1, <2>2
  <2>6. \A i \in (p + 1)..4 : t[i] = w[i - 1]
    BY <1>2, <2>5
  <2> QED
    BY <2>1, <2>3, <2>4, <2>6
<1>7. DOMAIN t = 1..4
  BY <1>6
<1>8. \A i \in 1..4 : i # p => t[i] = w[IF i < p THEN i ELSE i - 1]
  BY <1>6
<1>9. FourDistinct(t)
  BY <1>6, <1>8 DEF FourDistinct
<1>10. \A i \in 1..4 : i # p => \E k \in 1..3 : t[i] = w[k]
  BY <1>8
<1> QED
  BY <1>6, <1>7, <1>9, <1>10 DEF t

LEMMA ListAtMost ==
    ASSUME NEW s, List(s), NEW n \in Nat
    PROVE  LET t == AtMost(s, n) IN
           /\ List(t) /\ Len(t) <= n
           /\ DOMAIN t \in SUBSET DOMAIN s /\ \A k \in DOMAIN t : t[k] = s[k]
<1> DEFINE m == IF Len(s) < n THEN Len(s) ELSE n
           t == AtMost(s, n)
           S == {s[i] : i \in DOMAIN s}
<1>1. s \in Seq(S) /\ DOMAIN s = 1..Len(s) /\ Len(s) \in Nat
  BY DEF List
<1>2. m \in 0..Len(s) /\ m <= n
  BY <1>1
<1>3. t = SubSeq(s, 1, m)
  BY DEF AtMost
<1> HIDE DEF m, t
<1>4. t \in Seq(S) /\ Len(t) = m /\ \A k \in 1..m : t[k] = s[k]
  BY <1>1, <1>2, <1>3
<1>5. List(t) /\ DOMAIN t = 1..m
  BY <1>4, SeqIsList
<1> QED
  BY <1>1, <1>2, <1>4, <1>5 DEF t

\* A condition gives its result or nothing.
LEMMA ListWhen ==
    ASSUME NEW c \in BOOLEAN, NEW x
    PROVE  List(When(c, x)) /\ \A i \in DOMAIN When(c, x) : c /\ When(c, x)[i] = x
<1>1. CASE c
  <2>1. When(c, x) = <<x>>
    BY <1>1 DEF When
  <2> QED
    BY <1>1, <2>1, ListOfOne
<1>2. CASE ~c
  <2>1. When(c, x) = << >>
    BY <1>2 DEF When
  <2> QED
    BY <2>1, EmptyList
<1> QED
  BY <1>1, <1>2

---------------------------------------------------------------------------
\* A list of questions that may be taken.
AllKeyed(s) == List(s) /\ \A i \in DOMAIN s : Keyed(s[i])

LEMMA KeyedWhen ==
    ASSUME NEW c \in BOOLEAN, NEW q, c => Keyed(q)
    PROVE  AllKeyed(When(c, q))
BY ListWhen DEF AllKeyed

LEMMA KeyedConcat ==
    ASSUME NEW a, NEW b, AllKeyed(a), AllKeyed(b)
    PROVE  AllKeyed(a \o b)
<1> DEFINE t == a \o b
<1>1. List(a) /\ List(b)
  BY DEF AllKeyed
<1>2. /\ List(t)
      /\ \A k \in DOMAIN t : (\E i \in DOMAIN a : t[k] = a[i]) \/ (\E i \in DOMAIN b : t[k] = b[i])
  BY <1>1, ListConcat
<1> HIDE DEF t
<1>3. AllKeyed(t)
  BY <1>2 DEF AllKeyed
<1> QED
  BY <1>3 DEF t

\* The first of a list that ends in a question is one of them.
LEMMA KeyedHead ==
    ASSUME NEW s, NEW q, AllKeyed(s), Keyed(q)
    PROVE  Keyed(Head(s \o <<q>>))
BY HeadOr DEF AllKeyed

---------------------------------------------------------------------------
\* Questions written out in the code.

\* Options that differ in what they are filled with.
Numbered(o) ==
    /\ DOMAIN o = 1..4 /\ Len(o) = 4
    /\ \A i, j \in 1..4 : o[i].of = o[j].of => i = j

LEMMA NumberedKeyed ==
    ASSUME NEW prompt, NEW o, NEW k \in 1..4, NEW n \in Nat \ {0}, Numbered(o)
    PROVE  Keyed(PatternedMcq(prompt, o, o[k], n))
<1>1. DOMAIN o = 1..4 /\ Len(o) = 4 /\ FourDistinct(o)
  BY DEF Numbered, FourDistinct
<1> QED
  BY <1>1, PatternedKeyed

LEMMA NumberedOnly ==
    ASSUME NEW o, NEW form, o = [i \in 1..4 |-> Text(form, <<Numeral(i)>>)]
    PROVE  Numbered(o)
<1>1. DOMAIN o = 1..4 /\ Len(o) = 4
  OBVIOUS
<1>2. ASSUME NEW i \in 1..4 PROVE o[i].form = form /\ o[i].of = <<Numeral(i)>>
  <2>1. o[i] = Text(form, <<Numeral(i)>>)
    OBVIOUS
  <2> QED
    BY <2>1 DEF Text
<1>3. ASSUME NEW i \in 1..4, NEW j \in 1..4, o[i].of = o[j].of PROVE i = j
  <2>1. Numeral(i) = Numeral(j)
    BY <1>2, <1>3
  <2> QED
    BY <2>1, FourNumbered
<1> QED
  BY <1>1, <1>2, <1>3 DEF Numbered

LEMMA NumberedBehind ==
    ASSUME NEW o, NEW form, NEW name, o = [i \in 1..4 |-> Text(form, <<name, Numeral(i)>>)]
    PROVE  Numbered(o)
<1>1. DOMAIN o = 1..4 /\ Len(o) = 4
  OBVIOUS
<1>2. ASSUME NEW i \in 1..4 PROVE o[i].form = form /\ o[i].of = <<name, Numeral(i)>>
  <2>1. o[i] = Text(form, <<name, Numeral(i)>>)
    OBVIOUS
  <2> QED
    BY <2>1 DEF Text
<1>3. ASSUME NEW i \in 1..4, NEW j \in 1..4, o[i].of = o[j].of PROVE i = j
  <2>1. Numeral(i) = Numeral(j)
    BY <1>2, <1>3
  <2> QED
    BY <2>1, FourNumbered
<1> QED
  BY <1>1, <1>2, <1>3 DEF Numbered

\* Four texts of different forms.
LEMMA FourForms ==
    ASSUME NEW o, DOMAIN o = 1..4, Len(o) = 4,
           o[1].form # o[2].form, o[1].form # o[3].form, o[1].form # o[4].form,
           o[2].form # o[3].form, o[2].form # o[4].form, o[3].form # o[4].form
    PROVE  FourDistinct(o)
<1>1. ASSUME NEW i \in 1..4, NEW j \in 1..4, i # j PROVE o[i] # o[j]
  <2>1. (i = 1 \/ i = 2 \/ i = 3 \/ i = 4) /\ (j = 1 \/ j = 2 \/ j = 3 \/ j = 4)
    OBVIOUS
  <2> QED
    BY <1>1, <2>1
<1> QED
  BY <1>1 DEF FourDistinct

LEMMA RomanKeyed == ASSUME NEW prompt PROVE Keyed(RomanMcq(prompt))
<1> DEFINE o == RomanOptions
<1>1. DOMAIN o = 1..4 /\ FourDistinct(o)
  <2> DEFINE a == Fixed("I only")
             b == Fixed("II only")
             c == Fixed("Both I and II")
             d == Fixed("Neither I nor II")
  <2>1. a.form = "I only" /\ b.form = "II only" /\ c.form = "Both I and II" /\ d.form = "Neither I nor II"
    BY DEF Fixed, Text
  <2>2. o = <<a, b, c, d>>
    BY DEF RomanOptions
  <2> HIDE DEF o, a, b, c, d
  <2>3. DOMAIN o = 1..4 /\ Len(o) = 4 /\ List(o) /\ o[1] = a /\ o[2] = b /\ o[3] = c /\ o[4] = d
    BY <2>2, FourOf
  <2> QED
    BY <2>1, <2>3, FourForms
<1> HIDE DEF o
<1>2. Keyed(Mcq(prompt, o, o[1]))
  BY <1>1, McqKeyed
<1> QED
  BY <1>2 DEF RomanMcq, o

LEMMA StrategyKeyed == ASSUME NEW n \in Nat \ {0} PROVE Keyed(StrategyQuestion(n))
<1> DEFINE o == Responses
<1>1. DOMAIN o = 1..4 /\ Len(o) = 4 /\ List(o) /\ FourDistinct(o)
  <2> DEFINE a == Fixed("Accept the exposure")
             b == Fixed("Avoid the exposure")
             c == Fixed("Mitigate the exposure")
             d == Fixed("Transfer the exposure")
  <2>1. /\ a.form = "Accept the exposure" /\ b.form = "Avoid the exposure"
        /\ c.form = "Mitigate the exposure" /\ d.form = "Transfer the exposure"
    BY DEF Fixed, Text
  <2>2. o = <<a, b, c, d>>
    BY DEF Responses
  <2> HIDE DEF o, a, b, c, d
  <2>3. DOMAIN o = 1..4 /\ Len(o) = 4 /\ List(o) /\ o[1] = a /\ o[2] = b /\ o[3] = c /\ o[4] = d
    BY <2>2, FourOf
  <2> QED
    BY <2>1, <2>3, FourForms
<1> HIDE DEF o
<1>2. PICK k \in 1..4 : Turn(o, n) = o[k]
  <2>1. o \in Seq({o[i] : i \in DOMAIN o})
    BY <1>1 DEF List
  <2>2. o # << >>
    BY <1>1
  <2>3. \E k \in DOMAIN o : Turn(o, n) = o[k]
    BY <2>1, <2>2, TurnPlace
  <2> QED
    BY <1>1, <2>3
<1>3. \A prompt : Keyed(PatternedMcq(prompt, o, o[k], n))
  BY <1>1, PatternedKeyed
<1> QED
  BY <1>2, <1>3 DEF StrategyQuestion, o

LEMMA WrittenOutKeyed ==
    ASSUME NEW n \in Nat \ {0}
    PROVE  /\ Keyed(AssetPricingQuestion(n)) /\ Keyed(AppetiteQuestion)
           /\ Keyed(FundQuestion(n)) /\ Keyed(BasisQuestion(n))
           /\ \A group : Keyed(ConceptQuestion(group, n))
<1>1. Keyed(AssetPricingQuestion(n))
  <2> DEFINE variant == Turn(AssetPricing, n)
             o == [i \in 1..4 |-> Text(variant.topic, <<Numeral(i)>>)]
  <2>1. AssetPricingQuestion(n) = PatternedMcq(variant.prompt, o, o[1], n)
    BY DEF AssetPricingQuestion
  <2> HIDE DEF variant
  <2>2. Numbered(o)
    BY NumberedOnly
  <2> HIDE DEF o
  <2>3. Keyed(PatternedMcq(variant.prompt, o, o[1], n))
    BY <2>2, NumberedKeyed
  <2> QED
    BY <2>1, <2>3
<1>3. Keyed(AppetiteQuestion)
  BY RomanKeyed DEF AppetiteQuestion
<1>4. Keyed(FundQuestion(n))
  <2> DEFINE o == [i \in 1..4 |-> Text("fund structures", <<Numeral(i)>>)]
             prompt == Fixed("Which statement is least accurate regarding fund structures?")
  <2>1. FundQuestion(n) = PatternedMcq(prompt, o, o[3], n)
    BY DEF FundQuestion
  <2>2. Numbered(o)
    BY NumberedOnly
  <2> HIDE DEF o, prompt
  <2>3. Keyed(PatternedMcq(prompt, o, o[3], n))
    BY <2>2, NumberedKeyed
  <2> QED
    BY <2>1, <2>3
<1>5. Keyed(BasisQuestion(n))
  <2> DEFINE o == [i \in 1..4 |-> Text("short hedge", <<Numeral(i)>>)]
             prompt == Fixed("Which statement best describes the cost of a short futures hedge?")
             other == Fixed("Which situations describe a hedge with meaningful basis risk? I. II.")
  <2>1. BasisQuestion(n) = IF n % 2 = 0 THEN PatternedMcq(prompt, o, o[1], n) ELSE RomanMcq(other)
    BY DEF BasisQuestion
  <2>2. Numbered(o)
    BY NumberedOnly
  <2> HIDE DEF o, prompt, other
  <2>3. Keyed(PatternedMcq(prompt, o, o[1], n)) /\ Keyed(RomanMcq(other))
    BY <2>2, NumberedKeyed, RomanKeyed
  <2> QED
    BY <2>1, <2>3
<1>6. ASSUME NEW group PROVE Keyed(ConceptQuestion(group, n))
  <2> DEFINE o == [i \in 1..4 |-> Text("concept option", <<group, Numeral(i)>>)]
             prompt == Turn([i \in 1..3 |-> Text("concept stem", <<group, Numeral(i)>>)], n)
  <2>1. ConceptQuestion(group, n) = PatternedMcq(prompt, o, o[1], n)
    BY DEF ConceptQuestion
  <2>2. Numbered(o)
    BY NumberedBehind
  <2> HIDE DEF o, prompt
  <2>3. Keyed(PatternedMcq(prompt, o, o[1], n))
    BY <2>2, NumberedKeyed
  <2> QED
    BY <2>1, <2>3
<1> QED
  BY <1>1, <1>3, <1>4, <1>5, <1>6

---------------------------------------------------------------------------
\* Facts.

LEMMA FactsOfText ==
    ASSUME NEW content, IsText(content)
    PROVE  List(Facts(content))
<1> DEFINE s == content.sentences
           J == {i \in DOMAIN s : s[i].verb \in FactVerbs /\ "in the quiz" \notin s[i].says}
           usable == At(s, J)
           facts == [i \in DOMAIN usable |-> Fact(usable[i])]
           I == {i \in DOMAIN facts : \A j \in 1..(i - 1) : facts[j].prompt # facts[i].prompt}
           t == At(facts, I)
<1>1. Facts(content) = AtMost(t, 12)
  BY DEF Facts, Selected, Firsts
<1>2. List(s) /\ J \in SUBSET DOMAIN s
  BY SeqIsList DEF IsText
<1> HIDE DEF J
<1>3. List(usable)
  BY <1>2, ListAt
<1> HIDE DEF usable
<1>4. List(facts)
  <2>1. Len(usable) \in Nat /\ DOMAIN usable = 1..Len(usable)
    BY <1>3, ListLength
  <2>2. DOMAIN facts = 1..Len(usable) /\ facts = [i \in 1..Len(usable) |-> facts[i]]
    BY <2>1
  <2> HIDE DEF facts
  <2> QED
    BY <2>1, <2>2, FunctionIsList
<1>5. I \in SUBSET DOMAIN facts
  OBVIOUS
<1> HIDE DEF facts, I
<1>6. List(t)
  BY <1>4, <1>5, ListAt
<1> HIDE DEF t
<1> QED
  BY <1>1, <1>6, ListAtMost

\* What fills up distractors.
LEMMA PoolList ==
    ASSUME NEW name
    PROVE  List(Pool(name)) /\ DOMAIN Pool(name) = 1..4 /\ \A i \in 1..4 : Pool(name)[i].form = "pool"
<1> DEFINE o == Pool(name)
<1>1. o = [i \in 1..4 |-> Text("pool", <<name, Numeral(i)>>)]
  BY DEF Pool
<1> HIDE DEF o
<1>2. DOMAIN o = 1..4 /\ o = [i \in 1..4 |-> o[i]]
  BY <1>1
<1>3. List(o)
  BY <1>2, FunctionIsList
<1>4. ASSUME NEW i \in 1..4 PROVE o[i].form = "pool"
  <2>1. o[i] = Text("pool", <<name, Numeral(i)>>)
    BY <1>1
  <2> QED
    BY <2>1 DEF Text
<1> QED
  BY <1>2, <1>3, <1>4 DEF o

\* Different wrong answers, none of them the answer.
WrongFor(a, s) ==
    /\ List(s) /\ Len(s) <= 3
    /\ \A i, j \in DOMAIN s : s[i] = s[j] => i = j
    /\ \A i \in DOMAIN s : s[i] # a

LEMMA FactDistractorsWrong ==
    ASSUME NEW fact, NEW facts, NEW examples, List(facts)
    PROVE  WrongFor(fact.answer, FactDistractors(fact, facts, examples))
<1> DEFINE printed == UNION {examples[i].options : i \in DOMAIN examples}
           answers == [i \in DOMAIN facts |-> facts[i].answer]
           J == {i \in DOMAIN answers : answers[i] \notin printed}
           others == At(answers, J)
           more == FallbackDistractors(fact)
           all == others \o more
           K == {i \in DOMAIN all : all[i] # fact.answer}
           wrong == At(all, K)
           t == At(wrong, FirstPlaces(wrong))
           D == AtMost(t, 3)
<1>1. FactDistractors(fact, facts, examples) = D
  BY DEF FactDistractors, Selected, Firsts, FirstPlaces
<1>2. List(answers)
  <2>1. Len(facts) \in Nat /\ DOMAIN facts = 1..Len(facts)
    BY ListLength
  <2>2. DOMAIN answers = 1..Len(facts) /\ answers = [i \in 1..Len(facts) |-> answers[i]]
    BY <2>1
  <2> HIDE DEF answers
  <2> QED
    BY <2>1, <2>2, FunctionIsList
<1>3. J \in SUBSET DOMAIN answers
  OBVIOUS
<1> HIDE DEF answers, J
<1>4. List(others)
  BY <1>2, <1>3, ListAt
<1>5. List(more)
  BY PoolList DEF FallbackDistractors
<1> HIDE DEF others, more
<1>6. List(all)
  BY <1>4, <1>5, ListConcat
<1>7. K \in SUBSET DOMAIN all /\ \A i \in K : all[i] # fact.answer
  OBVIOUS
<1> HIDE DEF all, K
<1>8. List(wrong) /\ \A k \in DOMAIN wrong : \E i \in K : wrong[k] = all[i]
  BY <1>6, <1>7, ListAt
<1> HIDE DEF wrong
<1>9. /\ List(t) /\ \A k \in DOMAIN t : \E i \in DOMAIN wrong : t[k] = wrong[i]
      /\ \A k, l \in DOMAIN t : t[k] = t[l] => k = l
  BY <1>8, ListFirsts
<1> HIDE DEF t
<1>10. /\ List(D) /\ Len(D) <= 3
       /\ DOMAIN D \in SUBSET DOMAIN t /\ \A k \in DOMAIN D : D[k] = t[k]
  BY <1>9, ListAtMost
<1> HIDE DEF D
<1>11. \A k \in DOMAIN D : D[k] # fact.answer
  BY <1>7, <1>8, <1>9, <1>10
<1>12. \A i, j \in DOMAIN D : D[i] = D[j] => i = j
  BY <1>9, <1>10
<1>13. WrongFor(fact.answer, D)
  BY <1>10, <1>11, <1>12 DEF WrongFor
<1> QED
  BY <1>1, <1>13

---------------------------------------------------------------------------
\* Options of which one is the answer.

LEMMA RotatedThree ==
    ASSUME NEW s, List(s), Len(s) = 3, \A i, j \in DOMAIN s : s[i] = s[j] => i = j, NEW n \in Nat \ {0}
    PROVE  LET t == Rotated(s, n) IN
           /\ List(t) /\ Len(t) = 3
           /\ \A i, j \in 1..3 : t[i] = t[j] => i = j
           /\ \A i \in 1..3 : \E k \in DOMAIN s : t[i] = s[k]
<1> DEFINE source(i) == 1 + ((i + n - 1 - 1) % 3)
           t == Rotated(s, n)
           r == (n - 1) % 3
<1>1. DOMAIN s = 1..3
  BY ListLength
<1>2. t = [i \in 1..3 |-> s[source(i)]]
  BY <1>1 DEF Rotated, Turn
<1>3. r \in 0..2
  OBVIOUS
<1>4. \A i \in 1..3 : source(i) = 1 + ((i - 1 + r) % 3)
  OBVIOUS
<1> HIDE DEF r
<1>5. /\ \A i \in 1..3 : 1 + ((i - 1 + r) % 3) \in 1..3
      /\ \A i, j \in 1..3 : 1 + ((i - 1 + r) % 3) = 1 + ((j - 1 + r) % 3) => i = j
  <2>1. CASE r = 0
    BY <2>1
  <2>2. CASE r = 1
    BY <2>2
  <2>3. CASE r = 2
    BY <2>3
  <2> QED
    BY <1>3, <2>1, <2>2, <2>3
<1>6. /\ \A i \in 1..3 : source(i) \in 1..3
      /\ \A i, j \in 1..3 : source(i) = source(j) => i = j
  BY <1>4, <1>5
<1> HIDE DEF source, t
<1>7. DOMAIN t = 1..3 /\ t = [i \in 1..3 |-> t[i]] /\ \A i \in 1..3 : t[i] = s[source(i)]
  BY <1>2
<1>8. List(t) /\ Len(t) = 3
  BY <1>7, FunctionIsList
<1>9. \A i, j \in 1..3 : t[i] = t[j] => i = j
  BY <1>1, <1>6, <1>7
<1>10. \A i \in 1..3 : \E k \in DOMAIN s : t[i] = s[k]
  BY <1>1, <1>6, <1>7
<1> QED
  BY <1>8, <1>9, <1>10 DEF t

\* The answer among three turned distractors.
LEMMA WorkbookKeyed ==
    ASSUME NEW prompt, NEW a, NEW s, WrongFor(a, s), Len(s) = 3, NEW n \in Nat \ {0}
    PROVE  Keyed([prompt |-> prompt, options |-> WorkbookOptions(a, s, n), answer |-> a,
                           key |-> 1 + ((n - 1) % 4)])
<1> DEFINE w == Rotated(s, n)
           p == 1 + ((n - 1) % 4)
           o == WorkbookOptions(a, s, n)
           q == [prompt |-> prompt, options |-> o, answer |-> a, key |-> p]
<1>1. /\ List(s) /\ \A i, j \in DOMAIN s : s[i] = s[j] => i = j
      /\ \A i \in DOMAIN s : s[i] # a
  BY DEF WrongFor
<1>2. /\ List(w) /\ Len(w) = 3
      /\ \A i, j \in 1..3 : w[i] = w[j] => i = j
      /\ \A i \in 1..3 : \E k \in DOMAIN s : w[i] = s[k]
  BY <1>1, RotatedThree
<1> HIDE DEF w
<1>3. \A i \in 1..3 : w[i] # a
  BY <1>1, <1>2
<1>4. p \in 1..4
  OBVIOUS
<1>5. o = InsertAt(w, p, a)
  BY DEF WorkbookOptions, w
<1> HIDE DEF p, o
<1>6. w \in Seq({w[i] : i \in DOMAIN w})
  BY <1>2 DEF List
<1>7. /\ FourDistinct(o) /\ DOMAIN o = 1..4 /\ o[p] = a
      /\ \A i \in 1..4 : i # p => \E k \in 1..3 : o[i] = w[k]
  BY <1>2, <1>3, <1>4, <1>5, <1>6, InsertedFour
<1>8. q.options = o /\ q.answer = a /\ q.key = p
  OBVIOUS
<1> HIDE DEF q
<1>9. Keyed(q)
  BY <1>4, <1>7, <1>8 DEF Keyed
<1> QED
  BY <1>9 DEF q, o, p

LEMMA PatternedQuestionsKeyed ==
    ASSUME NEW content, NEW facts, NEW example, NEW n \in Nat \ {0}
    PROVE  AllKeyed(Patterned(content, facts, example, n))
<1> DEFINE c1 == IsRoman(example) /\ "risk appetite" \in content.phrases
           c2 == "negative_selection" \in example.style /\ HasFunds(content)
           c3 == IsRoman(example) /\ HasBasis(content)
           c4 == HasStrategy(content)
           c5 == HasBasis(content) /\ \E i \in DOMAIN facts : AboutBasis(facts[i])
           w1 == When(c1, AppetiteQuestion)
           w2 == When(c2, FundQuestion(n))
           w3 == When(c3, BasisQuestion(n))
           w4 == When(c4, StrategyQuestion(n))
           w5 == When(c5, BasisQuestion(n))
<1>1. c1 \in BOOLEAN /\ c2 \in BOOLEAN /\ c3 \in BOOLEAN /\ c4 \in BOOLEAN /\ c5 \in BOOLEAN
  BY DEF HasStrategy
<1>2. Patterned(content, facts, example, n) = w1 \o w2 \o w3 \o w4 \o w5
  BY DEF Patterned
<1> HIDE DEF c1, c2, c3, c4, c5
<1>3. AllKeyed(w1)
  BY <1>1, WrittenOutKeyed, KeyedWhen
<1>4. AllKeyed(w2)
  BY <1>1, WrittenOutKeyed, KeyedWhen
<1>5. AllKeyed(w3)
  BY <1>1, WrittenOutKeyed, KeyedWhen
<1>6. AllKeyed(w4)
  BY <1>1, StrategyKeyed, KeyedWhen
<1>7. AllKeyed(w5)
  BY <1>1, WrittenOutKeyed, KeyedWhen
<1> HIDE DEF w1, w2, w3, w4, w5
<1>8. AllKeyed(w1 \o w2)
  BY <1>3, <1>4, KeyedConcat
<1>9. AllKeyed(w1 \o w2 \o w3)
  BY <1>5, <1>8, KeyedConcat
<1>10. AllKeyed(w1 \o w2 \o w3 \o w4)
  BY <1>6, <1>9, KeyedConcat
<1>11. AllKeyed(w1 \o w2 \o w3 \o w4 \o w5)
  BY <1>7, <1>10, KeyedConcat
<1> QED
  BY <1>2, <1>11

LEMMA NoneKeyed == AllKeyed(<< >>)
BY EmptyList DEF AllKeyed

LEMMA FactQuestionKeyed ==
    ASSUME NEW content, IsText(content), NEW n \in Nat \ {0}
    PROVE  AllKeyed(FactQuestion(content, n))
<1> DEFINE facts == Facts(content)
           example == Turn(content.examples, n)
           fact == Turn(facts, n)
           distractors == FactDistractors(fact, facts, content.examples)
           c2 == Len(distractors) = 3
           q == [prompt |-> FactPrompt(fact, example, n), options |-> WorkbookOptions(fact.answer, distractors, n),
                 answer |-> fact.answer, key |-> 1 + ((n - 1) % 4)]
           w1 == IF IsRoman(example) /\ Len(facts) >= 2 THEN RomanFactQuestion(content, facts, n) ELSE << >>
           w2 == When(c2, q)
<1>1. List(facts)
  BY FactsOfText
<1>2. CASE facts = << >>
  BY <1>2, NoneKeyed DEF FactQuestion
<1>3. CASE facts # << >>
  <2>1. FactQuestion(content, n) = Patterned(content, facts, example, n) \o (w1 \o w2)
    BY <1>3 DEF FactQuestion
  <2>2. WrongFor(fact.answer, distractors)
    BY <1>1, FactDistractorsWrong
  <2>3. AllKeyed(Patterned(content, facts, example, n))
    BY PatternedQuestionsKeyed
  <2>4. AllKeyed(RomanFactQuestion(content, facts, n))
    <3> DEFINE told == <<TrueStatement(Turn(facts, n)), FalseStatement(Turn(facts, n + 1))>>
               c == told \notin content.alike
               roman == RomanMcq(Text("Which of the following statements is correct?", told[1] \o told[2]))
    <3>1. RomanFactQuestion(content, facts, n) = When(c, roman)
      BY DEF RomanFactQuestion
    <3>2. c \in BOOLEAN /\ Keyed(roman)
      BY RomanKeyed
    <3> HIDE DEF c, roman
    <3> QED
      BY <3>1, <3>2, KeyedWhen
  <2>5. AllKeyed(w1)
    BY <2>4, NoneKeyed
  <2>6. c2 \in BOOLEAN
    OBVIOUS
  <2> HIDE DEF facts, example, fact, distractors, w1
  <2>7. c2 => Keyed(q)
    BY <2>2, WorkbookKeyed
  <2> HIDE DEF c2, q
  <2>8. AllKeyed(w2)
    BY <2>6, <2>7, KeyedWhen
  <2> HIDE DEF w2
  <2>9. AllKeyed(w1 \o w2)
    BY <2>5, <2>8, KeyedConcat
  <2>10. AllKeyed(Patterned(content, facts, example, n) \o (w1 \o w2))
    BY <2>3, <2>9, KeyedConcat
  <2> QED
    BY <2>1, <2>10
<1> QED
  BY <1>2, <1>3

LEMMA WorkbookQuestionKeyed ==
    ASSUME NEW content, IsText(content), NEW n \in Nat \ {0}
    PROVE  AllKeyed(WorkbookQuestion(content, n))
<1> DEFINE groups == ConceptGroups(content)
           c == content.phrases \cap {"capm", "apt"} # {}
           w == When(c, AssetPricingQuestion(n))
           f == FactQuestion(content, n)
           concepts == [i \in DOMAIN groups |-> ConceptQuestion(groups[i], n)]
<1>1. CASE content.examples = << >>
  BY <1>1, NoneKeyed DEF WorkbookQuestion
<1>2. CASE content.examples # << >>
  <2>1. WorkbookQuestion(content, n) = w \o f \o concepts
    BY <1>2 DEF WorkbookQuestion
  <2>2. AllKeyed(f)
    BY FactQuestionKeyed
  <2>3. AllKeyed(w)
    <3>1. c \in BOOLEAN
      OBVIOUS
    <3> HIDE DEF c
    <3> QED
      BY <3>1, WrittenOutKeyed, KeyedWhen
  <2>4. List(groups)
    <3> DEFINE b1 == {"short hedge", "basis risk"} \subseteq content.phrases /\ content.phrases \cap {"cross hedge", "futures"} # {}
               b2 == HasStrategy(content)
               b3 == content.phrases \cap {"forward contracts", "futures contracts", "options", "swaps"} # {}
               g1 == When(b1, "basis")
               g2 == When(b2, "responses")
               g3 == When(b3, "instruments")
    <3>1. groups = g1 \o g2 \o g3
      BY DEF ConceptGroups
    <3>2. b1 \in BOOLEAN /\ b2 \in BOOLEAN /\ b3 \in BOOLEAN
      BY DEF HasStrategy
    <3> HIDE DEF b1, b2, b3, groups
    <3>3. List(g1) /\ List(g2) /\ List(g3)
      BY <3>2, ListWhen
    <3> HIDE DEF g1, g2, g3
    <3>4. List(g1 \o g2)
      BY <3>3, ListConcat
    <3>5. List(g1 \o g2 \o g3)
      BY <3>3, <3>4, ListConcat
    <3> QED
      BY <3>1, <3>5
  <2> HIDE DEF groups
  <2>5. AllKeyed(concepts)
    <3>1. Len(groups) \in Nat /\ DOMAIN groups = 1..Len(groups)
      BY <2>4, ListLength
    <3>2. DOMAIN concepts = 1..Len(groups) /\ concepts = [i \in 1..Len(groups) |-> concepts[i]]
      BY <3>1
    <3>3. ASSUME NEW i \in DOMAIN concepts PROVE Keyed(concepts[i])
      <4>1. concepts[i] = ConceptQuestion(groups[i], n)
        OBVIOUS
      <4> QED
        BY <4>1, WrittenOutKeyed
    <3> HIDE DEF concepts
    <3>4. List(concepts)
      BY <3>1, <3>2, FunctionIsList
    <3> QED
      BY <3>3, <3>4 DEF AllKeyed
  <2> HIDE DEF w, f, concepts
  <2>6. AllKeyed(w \o f)
    BY <2>2, <2>3, KeyedConcat
  <2>7. AllKeyed(w \o f \o concepts)
    BY <2>5, <2>6, KeyedConcat
  <2> QED
    BY <2>1, <2>7
<1> QED
  BY <1>1, <1>2

---------------------------------------------------------------------------
\* What the knowledge of a text gives.

LEMMA ConfusionsList == ASSUME NEW content, IsText(content) PROVE List(Confusions(content))
<1> DEFINE s == content.sentences
           J == {i \in DOMAIN s : s[i].says \cap {"not", "versus"} # {} \/ (~Names(s[i]) /\ "statement" \in s[i].says)}
           u == At(s, J)
           t == At(u, FirstPlaces(u))
<1>1. Confusions(content) = AtMost(t, 3)
  BY DEF Confusions, UniqueTrimmed, Selected, Firsts, FirstPlaces
<1>2. List(s) /\ J \in SUBSET DOMAIN s
  BY SeqIsList DEF IsText
<1> HIDE DEF J
<1>3. List(u)
  BY <1>2, ListAt
<1> HIDE DEF u
<1>4. List(t)
  BY <1>3, ListFirsts
<1> HIDE DEF t
<1> QED
  BY <1>1, <1>4, ListAtMost

LEMMA KeyPointsList == ASSUME NEW content, IsText(content) PROVE List(KeyPoints(content))
<1> DEFINE s == content.sentences
           J == {i \in DOMAIN s : s[i] # Definition(content)}
           others == At(s, J)
           K == {i \in DOMAIN others : "because" \in others[i].says}
           reasons == At(others, K)
           u == IF reasons = << >> THEN others ELSE reasons
           t == At(u, FirstPlaces(u))
           c == AtMost(t, 4)
<1>1. KeyPoints(content) = IF s = << >> THEN <<NoSentence(content)>> ELSE c
  BY DEF KeyPoints, UniqueTrimmed, Selected, Firsts, FirstPlaces
<1>2. List(s) /\ J \in SUBSET DOMAIN s
  BY SeqIsList DEF IsText
<1> HIDE DEF J
<1>3. List(others)
  BY <1>2, ListAt
<1>4. K \in SUBSET DOMAIN others
  OBVIOUS
<1> HIDE DEF others, K
<1>5. List(reasons)
  BY <1>3, <1>4, ListAt
<1>6. List(u)
  BY <1>3, <1>5
<1> HIDE DEF u
<1>7. List(t)
  BY <1>6, ListFirsts
<1> HIDE DEF t
<1>8. List(c)
  BY <1>7, ListAtMost
<1> QED
  BY <1>1, <1>8, ListOfOne

\* What may be offered as a wrong option of a question from the knowledge.
Offered(w) == w.form # "Incorrect interpretation"
AllOffered(s) == List(s) /\ \A i \in DOMAIN s : Offered(s[i])

LEMMA OfferedConcat ==
    ASSUME NEW a, NEW b, AllOffered(a), AllOffered(b)
    PROVE  AllOffered(a \o b)
<1> DEFINE t == a \o b
<1>1. List(a) /\ List(b)
  BY DEF AllOffered
<1>2. /\ List(t)
      /\ \A k \in DOMAIN t : (\E i \in DOMAIN a : t[k] = a[i]) \/ (\E i \in DOMAIN b : t[k] = b[i])
  BY <1>1, ListConcat
<1> HIDE DEF t
<1>3. AllOffered(t)
  BY <1>2 DEF AllOffered
<1> QED
  BY <1>3 DEF t

LEMMA PoolOffered == ASSUME NEW name PROVE AllOffered(Pool(name))
<1> DEFINE o == Pool(name)
<1>1. List(o) /\ DOMAIN o = 1..4 /\ \A i \in 1..4 : o[i].form = "pool"
  BY PoolList
<1> HIDE DEF o
<1>2. AllOffered(o)
  BY <1>1 DEF AllOffered, Offered
<1> QED
  BY <1>2 DEF o

LEMMA ShiftedOffered ==
    ASSUME NEW content, NEW s, List(s)
    PROVE  AllOffered([i \in DOMAIN s |-> Shifted(content, s[i])])
<1> DEFINE t == [i \in DOMAIN s |-> Shifted(content, s[i])]
<1>1. Len(s) \in Nat /\ DOMAIN s = 1..Len(s)
  BY ListLength
<1>2. DOMAIN t = 1..Len(s) /\ t = [i \in 1..Len(s) |-> t[i]]
  BY <1>1
<1>3. ASSUME NEW k \in DOMAIN t PROVE Offered(t[k])
  <2>1. t[k] = Shifted(content, s[k])
    OBVIOUS
  <2>2. t[k].form \in {"fact", "with a not", "It is not about"}
    BY <2>1 DEF Shifted, Paraphrase, Statement, Text
  <2> QED
    BY <2>2 DEF Offered
<1> HIDE DEF t
<1>4. List(t)
  BY <1>1, <1>2, FunctionIsList
<1>5. AllOffered(t)
  BY <1>3, <1>4 DEF AllOffered
<1> QED
  BY <1>5 DEF t

LEMMA SwappedOffered ==
    ASSUME NEW s, List(s)
    PROVE  AllOffered([i \in DOMAIN s |-> Swapped(s[i])])
<1> DEFINE t == [i \in DOMAIN s |-> Swapped(s[i])]
<1>1. Len(s) \in Nat /\ DOMAIN s = 1..Len(s)
  BY ListLength
<1>2. DOMAIN t = 1..Len(s) /\ t = [i \in 1..Len(s) |-> t[i]]
  BY <1>1
<1>3. ASSUME NEW k \in DOMAIN t PROVE Offered(t[k])
  <2>1. t[k] = Swapped(s[k])
    OBVIOUS
  <2>2. t[k].form \in {"swapped", "It describes a different idea than the concept"}
    BY <2>1 DEF Swapped, Fixed, Text
  <2> QED
    BY <2>2 DEF Offered
<1> HIDE DEF t
<1>4. List(t)
  BY <1>1, <1>2, FunctionIsList
<1>5. AllOffered(t)
  BY <1>3, <1>4 DEF AllOffered
<1> QED
  BY <1>5 DEF t

LEMMA DistractorsOffered ==
    ASSUME NEW content, IsText(content), NEW answer
    PROVE  AllOffered(Distractors(content, answer))
<1> DEFINE confusions == Confusions(content)
           all == KeyPoints(content)
           J == {i \in DOMAIN all : Paraphrase(all[i]) # answer}
           points == At(all, J)
           a == [i \in DOMAIN confusions |-> Shifted(content, confusions[i])]
           b == [i \in DOMAIN points |-> Swapped(points[i])]
           c == Pool("generic")
<1>1. Distractors(content, answer) = a \o b \o c
  BY DEF Distractors, Selected
<1>2. List(confusions) /\ List(all)
  BY ConfusionsList, KeyPointsList
<1> HIDE DEF confusions, all
<1>3. J \in SUBSET DOMAIN all
  OBVIOUS
<1> HIDE DEF J
<1>4. List(points)
  BY <1>2, <1>3, ListAt
<1> HIDE DEF points
<1>5. AllOffered(a)
  BY <1>2, ShiftedOffered
<1>6. AllOffered(b)
  BY <1>4, SwappedOffered
<1>7. AllOffered(c)
  BY PoolOffered
<1> HIDE DEF a, b, c
<1>8. AllOffered(a \o b)
  BY <1>5, <1>6, OfferedConcat
<1>9. AllOffered(a \o b \o c)
  BY <1>7, <1>8, OfferedConcat
<1> QED
  BY <1>1, <1>9

\* A draft that can be assembled.
Drafted(d) == AllOffered(d.wrong) /\ d.answer.form # "Incorrect interpretation"

LEMMA DraftDrafted ==
    ASSUME NEW prompt, NEW answer, NEW wrong,
           AllOffered(wrong), answer.form # "Incorrect interpretation"
    PROVE  Drafted(Draft(prompt, answer, wrong))
<1> DEFINE d == Draft(prompt, answer, wrong)
<1>1. d.wrong = wrong /\ d.answer = answer
  BY DEF Draft
<1> HIDE DEF d
<1>2. Drafted(d)
  BY <1>1 DEF Drafted
<1> QED
  BY <1>2 DEF d

LEMMA AnswerForms ==
    ASSUME NEW q
    PROVE  Object(q).form # "Incorrect interpretation" /\ Paraphrase(q).form # "Incorrect interpretation"
BY DEF Object, Paraphrase, Statement, Text

LEMMA FactDraftDrafted ==
    ASSUME NEW content, IsText(content), NEW q
    PROVE  Drafted(FactDraft(content, q))
<1>1. \A prompt, name : Drafted(Draft(prompt, Object(q), Pool(name)))
  BY AnswerForms, PoolOffered, DraftDrafted
<1>2. \A prompt : Drafted(Draft(prompt, Paraphrase(q), Distractors(content, Paraphrase(q))))
  BY AnswerForms, DistractorsOffered, DraftDrafted
<1>3. CASE q.verb \in {"controls", "produces", "performs", "uses"}
  <2>1. FactDraft(content, q) = Draft(Text("What does it " \o q.verb, <<q.subject>>), Object(q), Pool(q.verb))
    BY <1>3 DEF FactDraft, DefiningVerbs
  <2> QED
    BY <1>1, <2>1
<1>4. CASE q.verb = "updates"
  <2>1. FactDraft(content, q) = Draft(Text("How does it update", <<q.subject, q.object>>), Object(q), Pool("updates"))
    BY <1>4 DEF FactDraft, DefiningVerbs
  <2> QED
    BY <1>1, <2>1
<1>5. CASE q.verb \in DefiningVerbs
  <2>1. FactDraft(content, q) = Draft(Text("Which statement best defines", <<q.subject>>), Object(q), Pool("is"))
    BY <1>5 DEF FactDraft, DefiningVerbs
  <2> QED
    BY <1>1, <2>1
<1>6. CASE q.verb \notin DefiningVerbs \cup {"controls", "produces", "performs", "uses", "updates"}
  <2>1. FactDraft(content, q) = Draft(Text("Which statement is most accurate about", <<content.title>>), Paraphrase(q),
                                      Distractors(content, Paraphrase(q)))
    BY <1>6 DEF FactDraft, DefiningVerbs
  <2> QED
    BY <1>2, <2>1
<1> QED
  BY <1>3, <1>4, <1>5, <1>6

LEMMA ConceptDraftDrafted ==
    ASSUME NEW content, IsText(content), NEW n \in Nat
    PROVE  Drafted(ConceptDraft(content, n))
<1> DEFINE confusions == Confusions(content)
           defined == Paraphrase(Definition(content))
           name == Text("name", <<content.title>>)
           c1 == confusions # << >> /\ n % 3 = 0
           d1 == Draft(Text("Which statement correctly distinguishes", <<content.title>>), defined,
                       [i \in DOMAIN confusions |-> Shifted(content, confusions[i])])
           c2 == Examples(content) # << >> /\ n % 3 = 1
           d2 == Draft(Fixed("Which concept is illustrated by the example?"), name, Distractors(content, name))
           d3 == Draft(Text("Which statement best defines", <<content.title>>), defined, Distractors(content, defined))
           w1 == When(c1, d1)
           w2 == When(c2, d2)
           s == w1 \o w2
<1>1. ConceptDraft(content, n) = Head(s \o <<d3>>)
  BY DEF ConceptDraft
<1>2. Drafted(d1)
  BY ConfusionsList, ShiftedOffered, AnswerForms, DraftDrafted
<1>3. name.form # "Incorrect interpretation"
  BY DEF Text
<1> HIDE DEF name
<1>4. Drafted(d2)
  BY <1>3, DistractorsOffered, DraftDrafted
<1>5. Drafted(d3)
  BY AnswerForms, DistractorsOffered, DraftDrafted
<1>6. c1 \in BOOLEAN /\ c2 \in BOOLEAN
  OBVIOUS
<1> HIDE DEF c1, c2, d1, d2, d3
<1>7. /\ List(w1) /\ \A i \in DOMAIN w1 : w1[i] = d1
      /\ List(w2) /\ \A i \in DOMAIN w2 : w2[i] = d2
  BY <1>6, ListWhen
<1> HIDE DEF w1, w2
<1>8. /\ List(s)
      /\ \A k \in DOMAIN s : (\E i \in DOMAIN w1 : s[k] = w1[i]) \/ (\E i \in DOMAIN w2 : s[k] = w2[i])
  BY <1>7, ListConcat
<1> HIDE DEF s
<1>9. Head(s \o <<d3>>) = d3 \/ \E i \in DOMAIN s : Head(s \o <<d3>>) = s[i]
  BY <1>8, HeadOr
<1>10. Head(s \o <<d3>>) \in {d1, d2, d3}
  BY <1>7, <1>8, <1>9
<1> QED
  BY <1>1, <1>2, <1>4, <1>5, <1>10

\* The wrong options of a draft, filled up to three.
LEMMA AssembledKeyed ==
    ASSUME NEW d, Drafted(d), NEW n \in Nat \ {0}
    PROVE  Keyed(Mcq(d.prompt, AssembledOptions(d, n), d.answer))
<1> DEFINE a == d.answer
           J == {i \in DOMAIN d.wrong : d.wrong[i] # a}
           u == At(d.wrong, J)
           t == At(u, FirstPlaces(u))
           w == AtMost(t, 3)
           m == Len(w)
           f == [i \in 1..(3 - m) |-> Text("Incorrect interpretation", <<Numeral(m + i)>>)]
           all == w \o f
           p == 1 + ((n - 1) % 4)
           o == AssembledOptions(d, n)
<1>1. o = InsertAt(all, p, a)
  BY DEF AssembledOptions, Selected, Firsts, FirstPlaces
<1>2. List(d.wrong) /\ a.form # "Incorrect interpretation"
      /\ \A i \in DOMAIN d.wrong : Offered(d.wrong[i])
  BY DEF Drafted, AllOffered
<1> DEFINE wrong == d.wrong
<1>3. J \in SUBSET DOMAIN wrong /\ \A i \in J : wrong[i] # a
  OBVIOUS
<1> HIDE DEF J, o, a
<1>4. List(u) /\ \A k \in DOMAIN u : \E i \in J : u[k] = wrong[i]
  <2>1. List(wrong) /\ J \in SUBSET DOMAIN wrong
    BY <1>2, <1>3
  <2> HIDE DEF wrong
  <2> QED
    BY <2>1, ListAt DEF wrong
<1>5. \A k \in DOMAIN u : u[k] # a /\ Offered(u[k])
  BY <1>2, <1>3, <1>4
<1> HIDE DEF u
<1>6. /\ List(t) /\ \A k \in DOMAIN t : \E i \in DOMAIN u : t[k] = u[i]
      /\ \A k, l \in DOMAIN t : t[k] = t[l] => k = l
  BY <1>4, ListFirsts
<1> HIDE DEF t
<1>7. List(w) /\ m <= 3 /\ DOMAIN w \in SUBSET DOMAIN t /\ \A k \in DOMAIN w : w[k] = t[k]
  BY <1>6, ListAtMost
<1> HIDE DEF w
<1>8. m \in 0..3 /\ DOMAIN w = 1..m
  <2>1. List(w)
    BY <1>7
  <2>2. m \in Nat /\ DOMAIN w = 1..m
    BY <2>1, ListLength
  <2> QED
    BY <1>7, <2>2
<1>9. /\ \A k \in DOMAIN w : w[k] # a /\ Offered(w[k])
      /\ \A k, l \in DOMAIN w : w[k] = w[l] => k = l
  BY <1>5, <1>6, <1>7
<1> HIDE DEF m, p
<1>10. DOMAIN f = 1..(3 - m) /\ f = [i \in 1..(3 - m) |-> f[i]]
  OBVIOUS
<1>11. ASSUME NEW i \in DOMAIN f
       PROVE  f[i].form = "Incorrect interpretation" /\ f[i].of = <<Numeral(m + i)>>
  <2>1. f[i] = Text("Incorrect interpretation", <<Numeral(m + i)>>)
    OBVIOUS
  <2> QED
    BY <2>1 DEF Text
<1> HIDE DEF f
<1>12. List(f) /\ Len(f) = 3 - m
  <2>1. 3 - m \in Nat
    BY <1>8
  <2> QED
    BY <1>10, <2>1, FunctionIsList
<1>13. ASSUME NEW i \in DOMAIN f, NEW j \in DOMAIN f, f[i] = f[j] PROVE i = j
  <2>1. Numeral(m + i) = Numeral(m + j)
    <3>1. f[i].of = <<Numeral(m + i)>> /\ f[j].of = <<Numeral(m + j)>>
      BY <1>11
    <3>2. <<Numeral(m + i)>> = <<Numeral(m + j)>>
      BY <1>13, <3>1
    <3> QED
      BY <3>2
  <2>2. m + i \in 1..4 /\ m + j \in 1..4 /\ i \in Int /\ j \in Int
    BY <1>8, <1>10
  <2>3. m + i = m + j
    BY <2>1, <2>2, FourNumbered
  <2> QED
    BY <1>8, <2>2, <2>3
<1>14. /\ List(all) /\ Len(all) = 3
       /\ \A k \in 1..m : all[k] = w[k]
       /\ \A k \in DOMAIN f : all[m + k] = f[k]
  <2>1. List(w) /\ List(f)
    BY <1>7, <1>12
  <2>2. /\ List(all) /\ Len(all) = m + Len(f)
        /\ \A k \in DOMAIN w : all[k] = w[k]
        /\ \A k \in DOMAIN f : all[m + k] = f[k]
    BY <2>1, ListConcat DEF m
  <2> QED
    BY <1>8, <1>12, <2>2
<1> HIDE DEF all
<1>15. \A k \in (m + 1)..3 : k - m \in DOMAIN f /\ all[k] = f[k - m]
  <2>1. ASSUME NEW k \in (m + 1)..3 PROVE k - m \in DOMAIN f /\ m + (k - m) = k
    BY <1>8, <1>10
  <2> QED
    BY <1>14, <2>1
<1>16. \A k \in 1..3 : all[k] # a
  <2>1. ASSUME NEW k \in 1..m PROVE all[k] # a
    BY <1>8, <1>9, <1>14
  <2>2. ASSUME NEW k \in (m + 1)..3 PROVE all[k] # a
    <3>1. all[k].form = "Incorrect interpretation"
      BY <1>11, <1>15
    <3> QED
      BY <1>2, <3>1
  <2>3. \A k \in 1..3 : k \in 1..m \/ k \in (m + 1)..3
    BY <1>8
  <2> QED
    BY <2>1, <2>2, <2>3
<1>17. \A k, l \in 1..3 : all[k] = all[l] => k = l
  <2>1. \A k \in 1..m : all[k].form # "Incorrect interpretation"
    BY <1>8, <1>9, <1>14 DEF Offered
  <2>2. \A k \in (m + 1)..3 : all[k].form = "Incorrect interpretation"
    BY <1>11, <1>15
  <2>3. \A k, l \in 1..m : all[k] = all[l] => k = l
    BY <1>8, <1>9, <1>14
  <2>4. ASSUME NEW k \in (m + 1)..3, NEW l \in (m + 1)..3, all[k] = all[l] PROVE k = l
    <3>1. k - m = l - m
      BY <1>13, <1>15, <2>4
    <3> QED
      BY <1>8, <3>1
  <2>5. \A k \in 1..3 : k \in 1..m \/ k \in (m + 1)..3
    BY <1>8
  <2> QED
    BY <2>1, <2>2, <2>3, <2>4, <2>5
<1>18. p \in 1..4
  BY DEF p
<1>19. all \in Seq({all[i] : i \in DOMAIN all})
  BY <1>14 DEF List
<1>20. /\ FourDistinct(o) /\ DOMAIN o = 1..4 /\ o[p] = a
       /\ \A i \in 1..4 : i # p => \E k \in 1..3 : o[i] = all[k]
  BY <1>1, <1>14, <1>16, <1>17, <1>18, <1>19, InsertedFour
<1>21. Keyed(Mcq(d.prompt, o, a))
  BY <1>18, <1>20, McqKeyed
<1> QED
  BY <1>21 DEF o, a

\* Whatever a text gives, its question is keyed.
LEMMA FallbackKeyed ==
    ASSUME NEW content, IsText(content), NEW n \in Nat \ {0}
    PROVE  Keyed(Fallback(content, n))
<1> DEFINE fact == Turn(TestableFacts(content), n)
           d == IF fact.verb \in ParsedVerbs THEN FactDraft(content, fact) ELSE ConceptDraft(content, n)
           k == KnowledgeQuestion(content, n)
           w == WorkbookQuestion(content, n)
<1>1. k = Mcq(d.prompt, AssembledOptions(d, n), d.answer)
  BY DEF KnowledgeQuestion
<1>2. Drafted(d)
  BY FactDraftDrafted, ConceptDraftDrafted
<1> HIDE DEF d
<1>3. Keyed(k)
  BY <1>1, <1>2, AssembledKeyed
<1>4. AllKeyed(w)
  BY WorkbookQuestionKeyed
<1> HIDE DEF k, w
<1>5. Keyed(Head(w \o <<k>>))
  BY <1>3, <1>4, KeyedHead
<1> QED
  BY <1>5 DEF Fallback, k, w

\* What KeyIsTheAnswer says of a question without a model.
RightlyKeyed(q) == FourDistinct(q.options) /\ q.options[q.key] = q.answer

LEMMA FallbackRightlyKeyed ==
    ASSUME NEW c \in Chunks, NEW content \in {Cut[c], Whole[c]}, NEW n \in Nat \ {0}
    PROVE  RightlyKeyed(Fallback(content, n))
<1>1. IsText(content)
  BY TextsAssumption DEF IsText
<1> QED
  BY <1>1, FallbackKeyed DEF Keyed, RightlyKeyed

---------------------------------------------------------------------------
\* What a try returns, and what the gate lets pass.

LEMMA OutcomeEffect ==
    ASSUME NEW o \in Outcomes
    PROVE  /\ o.id = Index /\ o.of = Hit /\ o.try = try
           /\ \E q, w : o.verdict \in Verdicts(q, w)
           /\ ~o.live => o.question = Fallback(Hydrated(Hit), Index)
<1>1. \A q, live, v : LET p == Outcome(q, live, v) IN
          p.id = Index /\ p.of = Hit /\ p.try = try /\ p.verdict = v
  BY DEF Outcome
<1>2. CASE \E w \in Wordings : o \in FallbackOutcomes(w)
  <2>1. PICK w \in Wordings : o \in FallbackOutcomes(w)
    BY <1>2
  <2> DEFINE q == Fallback(Hydrated(Hit), Index)
  <2>2. PICK v \in Verdicts(q, w) : o = Outcome(q, FALSE, v)
    BY <2>1 DEF FallbackOutcomes
  <2> HIDE DEF q
  <2>3. o.question = q
    BY <2>2 DEF Outcome
  <2>4. o.id = Index /\ o.of = Hit /\ o.try = try /\ o.verdict \in Verdicts(q, w)
    BY <1>1, <2>2
  <2> QED
    BY <2>3, <2>4 DEF q
<1>3. CASE \E p \in Payloads : o \in LiveOutcomes(p)
  <2>1. PICK p \in Payloads : o \in LiveOutcomes(p)
    BY <1>3
  <2> DEFINE q == LiveQuestion(p)
  <2>2. PICK v \in Verdicts(q, p.wording) : o = Outcome(q, TRUE, v)
    BY <2>1 DEF LiveOutcomes
  <2> HIDE DEF q
  <2>3. o.live
    BY <2>2 DEF Outcome
  <2>4. o.id = Index /\ o.of = Hit /\ o.try = try /\ o.verdict \in Verdicts(q, p.wording)
    BY <1>1, <2>2
  <2> QED
    BY <2>3, <2>4
<1>4. (\E w \in Wordings : o \in FallbackOutcomes(w)) \/ \E p \in Payloads : o \in LiveOutcomes(p)
  BY DEF Outcomes
<1> QED
  BY <1>2, <1>3, <1>4

\* A set of strings, counted.
LEMMA PartsAreFinite == IsFiniteSet(Parts)
<1>1. IsFiniteSet({"stem"})
  BY FS_Singleton
<1>2. IsFiniteSet({"stem"} \cup {"A"})
  BY <1>1, FS_AddElement
<1>3. IsFiniteSet({"stem"} \cup {"A"} \cup {"B"})
  BY <1>2, FS_AddElement
<1>4. IsFiniteSet({"stem"} \cup {"A"} \cup {"B"} \cup {"C"})
  BY <1>3, FS_AddElement
<1>5. IsFiniteSet({"stem"} \cup {"A"} \cup {"B"} \cup {"C"} \cup {"D"})
  BY <1>4, FS_AddElement
<1>6. IsFiniteSet({"stem"} \cup {"A"} \cup {"B"} \cup {"C"} \cup {"D"} \cup {"rationale"})
  BY <1>5, FS_AddElement
<1>7. Parts = {"stem"} \cup {"A"} \cup {"B"} \cup {"C"} \cup {"D"} \cup {"rationale"} \cup {"question"}
  BY DEF Parts
<1> QED
  BY <1>6, <1>7, FS_AddElement

LEMMA IssuesAreFew == ASSUME NEW q, NEW c, NEW w PROVE Cardinality(WorkbookIssues(q, c, w)) \in Nat
<1> DEFINE four == {"format"} \cup {"shallow"} \cup {"clipped"} \cup {"terms missing"}
<1>1. IsFiniteSet({"format"})
  BY FS_Singleton
<1>2. IsFiniteSet({"format"} \cup {"shallow"})
  BY <1>1, FS_AddElement
<1>3. IsFiniteSet({"format"} \cup {"shallow"} \cup {"clipped"})
  BY <1>2, FS_AddElement
<1>4. IsFiniteSet(four)
  BY <1>3, FS_AddElement
<1>5. WorkbookIssues(q, c, w) \in SUBSET four
  BY DEF WorkbookIssues
<1> QED
  BY <1>4, <1>5, FS_Subset, FS_CardinalityType

LEMMA MarkType == ASSUME NEW q, NEW c, NEW w PROVE Mark(q, c, w) \in Nat
<1> DEFINE parts(note) == Cardinality({p \in Parts : Note(p, note) \in Worded(q, w)})
           cost(note, points) == IF note \in Notes(q, c, w) THEN points ELSE 0
           issues == Cardinality(WorkbookIssues(q, c, w))
           workbook == IF issues <= 2 THEN 25 * issues ELSE 55
           worded == 50 * parts("administrative") + 45 * parts("copies the quiz") + 40 * parts("filler")
                     + 25 * parts("metadata") + 25 * parts("retrieval check") + 20 * parts("too close")
                     + 20 * parts("option too long") + 18 * parts("copies the source") + 15 * parts("stem too long")
           lost == worded + cost("not four", 40) + cost("weak source", 35) + cost("duplicated", 25) + workbook
<1>1. ASSUME NEW note PROVE parts(note) \in Nat
  <2>1. {p \in Parts : Note(p, note) \in Worded(q, w)} \in SUBSET Parts
    OBVIOUS
  <2> QED
    BY <2>1, PartsAreFinite, FS_Subset, FS_CardinalityType
<1>2. workbook \in Nat
  BY IssuesAreFew
<1>3. \A note : cost(note, 40) \in Nat /\ cost(note, 35) \in Nat /\ cost(note, 25) \in Nat
  OBVIOUS
<1> HIDE DEF parts, cost, issues, workbook
<1>4. worded \in Nat
  <2>1. /\ parts("administrative") \in Nat /\ parts("copies the quiz") \in Nat /\ parts("filler") \in Nat
        /\ parts("metadata") \in Nat /\ parts("retrieval check") \in Nat /\ parts("too close") \in Nat
        /\ parts("option too long") \in Nat /\ parts("copies the source") \in Nat /\ parts("stem too long") \in Nat
    BY <1>1
  <2> DEFINE n1 == parts("administrative")
             n2 == parts("copies the quiz")
             n3 == parts("filler")
             n4 == parts("metadata")
             n5 == parts("retrieval check")
             n6 == parts("too close")
             n7 == parts("option too long")
             n8 == parts("copies the source")
             n9 == parts("stem too long")
  <2>2. worded = 50 * n1 + 45 * n2 + 40 * n3 + 25 * n4 + 25 * n5 + 20 * n6 + 20 * n7 + 18 * n8 + 15 * n9
    OBVIOUS
  <2>3. n1 \in Nat /\ n2 \in Nat /\ n3 \in Nat /\ n4 \in Nat /\ n5 \in Nat /\ n6 \in Nat /\ n7 \in Nat /\ n8 \in Nat /\ n9 \in Nat
    BY <2>1
  <2> HIDE DEF worded, n1, n2, n3, n4, n5, n6, n7, n8, n9
  <2> QED
    BY <2>2, <2>3
<1> HIDE DEF worded
<1>5. lost \in Nat
  <2> DEFINE m1 == cost("not four", 40)
             m2 == cost("weak source", 35)
             m3 == cost("duplicated", 25)
  <2>1. m1 \in Nat /\ m2 \in Nat /\ m3 \in Nat
    BY <1>3
  <2>2. lost = worded + m1 + m2 + m3 + workbook
    OBVIOUS
  <2> HIDE DEF lost, m1, m2, m3
  <2> QED
    BY <1>2, <1>4, <2>1, <2>2
<1> HIDE DEF lost
<1>6. Mark(q, c, w) = IF lost > 100 THEN 0 ELSE 100 - lost
  BY DEF Mark, lost, worded, parts, cost, workbook, issues
<1> QED
  BY <1>5, <1>6

\* A verdict that is not rejected: without a score, or past the gate.
PastTheGate(v) == v.source # "raised" => (v.source = "heuristic" => ~EnableTorch) /\ ~v.low /\ ~v.serious

LEMMA NotRejected ==
    ASSUME NEW q, NEW w, NEW v \in Verdicts(q, w), ~Rejected(v)
    PROVE  PastTheGate(v)
<1>1. PICK s \in Scores : v = Annotated(q, Hydrated(Hit), w, s, EnableTorch)
  BY DEF Verdicts
<1> DEFINE mark == Mark(q, Hydrated(Hit), w)
           doubled == s.points + mark
           gate == IF s.source = "pytorch" THEN s.points >= 45 ELSE ~EnableTorch
           serious == Notes(q, Hydrated(Hit), w) \cap SeriousNotes # {}
           accepted == gate /\ ~serious /\ ((Accepted(q, Hydrated(Hit), w) /\ doubled >= 100) \/ doubled >= 140)
<1>2. CASE s.source = "raised"
  BY <1>1, <1>2 DEF Annotated, Unscored, PastTheGate
<1>3. CASE s.source # "raised"
  <2>1. v = [source |-> s.source, low |-> ~gate \/ doubled < 90, serious |-> serious, accepted |-> accepted]
    BY <1>1, <1>3 DEF Annotated
  <2>2. /\ v.source = s.source
        /\ v.low <=> (~gate \/ doubled < 90)
        /\ v.serious <=> serious
        /\ v.accepted <=> accepted
    BY <2>1
  <2>3. doubled \in Nat
    BY ScoresAssumption, MarkType
  <2>4. CASE accepted
    <3>1. gate /\ ~serious /\ doubled >= 100
      BY <2>3, <2>4
    <3> QED
      BY <2>2, <2>3, <3>1 DEF PastTheGate
  <2>5. CASE ~accepted
    <3>1. ~v.low /\ ~v.serious
      BY <1>3, <2>2, <2>5 DEF Rejected
    <3> QED
      BY <2>2, <3>1 DEF PastTheGate
  <2> QED
    BY <2>4, <2>5
<1> QED
  BY <1>2, <1>3

---------------------------------------------------------------------------
\* What the three properties of every quiz say of one.

KeptApart(quiz) ==
    \A i, j \in DOMAIN quiz :
        i < j /\ Repeats(quiz[j].question, quiz[i].question) => quiz[j].try = 3 /\ ~InWorkbook(quiz[j].of)

Gated(quiz) == \A i \in DOMAIN quiz : PastTheGate(quiz[i].verdict)

WellKeyed(quiz) == \A i \in DOMAIN quiz : ~quiz[i].live => RightlyKeyed(quiz[i].question)

Fine(quiz) == KeptApart(quiz) /\ Gated(quiz) /\ WellKeyed(quiz)
EveryQuizIsFine == NothingRepeated /\ OnlyTheModelDelivers /\ KeyIsTheAnswer

LEMMA OfEveryQuiz == EveryQuizIsFine <=> \A quiz \in Quizzes : Fine(quiz)
<1>1. NothingRepeated <=> \A quiz \in Quizzes : KeptApart(quiz)
  BY DEF NothingRepeated, KeptApart
<1>2. OnlyTheModelDelivers <=> \A quiz \in Quizzes : Gated(quiz)
  BY DEF OnlyTheModelDelivers, Gated, PastTheGate
<1>3. KeyIsTheAnswer <=> \A quiz \in Quizzes : WellKeyed(quiz)
  BY DEF KeyIsTheAnswer, WellKeyed, RightlyKeyed
<1> QED
  BY <1>1, <1>2, <1>3 DEF EveryQuizIsFine, Fine

LEMMA OfEveryQuizNext == EveryQuizIsFine' <=> \A quiz \in Quizzes' : Fine(quiz)
<1>1. NothingRepeated' <=> \A quiz \in Quizzes' : KeptApart(quiz)
  BY DEF NothingRepeated, KeptApart, InWorkbook
<1>2. OnlyTheModelDelivers' <=> \A quiz \in Quizzes' : Gated(quiz)
  BY DEF OnlyTheModelDelivers, Gated, PastTheGate
<1>3. KeyIsTheAnswer' <=> \A quiz \in Quizzes' : WellKeyed(quiz)
  BY DEF KeyIsTheAnswer, WellKeyed, RightlyKeyed
<1> QED
  BY <1>1, <1>2, <1>3 DEF EveryQuizIsFine, Fine

LEMMA NoQuestionsIsAQuiz == Fine(<< >>)
<1>1. DOMAIN << >> = {}
  OBVIOUS
<1> QED
  BY <1>1 DEF Fine, KeptApart, Gated, WellKeyed

\* A question that repeats one of the quiz is recognised by what is remembered.
LEMMA RepeatIsSeen ==
    ASSUME SeenIsAsked, NEW o, NEW i \in DOMAIN asked, Repeats(o.question, asked[i].question)
    PROVE  Repeated(o)
<1>1. /\ asked[i].question.prompt \in seen.prompts
      /\ asked[i].question.options \in seen.options
      /\ ThreeWords(asked[i].question.answer) => asked[i].question.answer \in seen.answers
  BY DEF SeenIsAsked
<1> QED
  BY <1>1 DEF Repeats, Repeated

\* A delivered question is remembered, and nothing else is.
LEMMA DeliveredIsSeen ==
    ASSUME SeenIsAsked, List(asked), NEW o, asked' = Append(asked, o), seen' = Remembered(o)
    PROVE  SeenIsAsked'
<1> DEFINE n == Len(asked)
           t == asked'
<1>1. n \in Nat /\ DOMAIN asked = 1..n
  BY ListLength
<1>2. DOMAIN t = 1..(n + 1) /\ t[n + 1] = o /\ \A i \in 1..n : t[i] = asked[i]
  BY AppendList
<1>3. 1..(n + 1) = (1..n) \cup {n + 1}
  BY <1>1
<1> HIDE DEF n, t
<1>4. {t[i].question.prompt : i \in DOMAIN t} = {asked[i].question.prompt : i \in DOMAIN asked} \cup {o.question.prompt}
  BY <1>1, <1>2, <1>3
<1>5. {t[i].question.options : i \in DOMAIN t} = {asked[i].question.options : i \in DOMAIN asked} \cup {o.question.options}
  BY <1>1, <1>2, <1>3
<1>6. {t[i].question.answer : i \in {j \in DOMAIN t : ThreeWords(t[j].question.answer)}}
        = {asked[i].question.answer : i \in {j \in DOMAIN asked : ThreeWords(asked[j].question.answer)}}
          \cup {a \in {o.question.answer} : ThreeWords(a)}
  BY <1>1, <1>2, <1>3
<1>7. seen' = [prompts |-> seen.prompts \cup {o.question.prompt},
               options |-> seen.options \cup {o.question.options},
               answers |-> seen.answers \cup {a \in {o.question.answer} : ThreeWords(a)}]
  BY DEF Remembered
<1>8. seen' = [prompts |-> {t[i].question.prompt : i \in DOMAIN t},
               options |-> {t[i].question.options : i \in DOMAIN t},
               answers |-> {t[i].question.answer : i \in {j \in DOMAIN t : ThreeWords(t[j].question.answer)}}]
  BY <1>4, <1>5, <1>6, <1>7 DEF SeenIsAsked
<1> QED
  BY <1>8 DEF SeenIsAsked, t, ThreeWords

---------------------------------------------------------------------------
\* A question more.

LEMMA DeliverKept ==
    ASSUME Good, Unasked, NEW o \in Outcomes, ~Rejected(o.verdict),
           Repeated(o) => try = 3 /\ ~InWorkbook(Hit),
           Deliver(o)
    PROVE  Good'
<1> DEFINE n == Len(asked)
           m == Len(hits)
<1>1. /\ n \in Nat /\ DOMAIN asked = 1..n
      /\ m \in Nat /\ n < m
  BY ListLength DEF Good, Unasked
<1>2. /\ asked' = Append(asked, o) /\ seen' = Remembered(o) /\ try' = 0
      /\ request' = request /\ hits' = hits /\ sessions' = sessions
  BY DEF Deliver
<1>3. /\ List(asked') /\ Len(asked') = n + 1 /\ DOMAIN asked' = 1..(n + 1)
      /\ \A i \in 1..n : asked'[i] = asked[i]
      /\ asked'[n + 1] = o
  BY <1>2, AppendList DEF Good
<1>4. /\ o.id = n + 1 + try * m /\ o.of = hits[n + 1] /\ o.try = try
      /\ \E q, w : o.verdict \in Verdicts(q, w)
  BY OutcomeEffect DEF Index, Hit
<1>5. Placed'
  <2>1. Len(asked') <= Len(hits')
    BY <1>1, <1>2, <1>3
  <2>2. ASSUME NEW i \in 1..(n + 1)
        PROVE  /\ asked'[i].of = hits[i] /\ asked'[i].try \in 0..3
               /\ asked'[i].id = i + asked'[i].try * m
    <3>1. CASE i = n + 1
      BY <1>3, <1>4, <3>1 DEF Good
    <3>2. CASE i # n + 1
      <4>1. i \in 1..n
        BY <1>1, <3>2
      <4> QED
        BY <1>3, <4>1 DEF Good, Placed
    <3> QED
      BY <3>1, <3>2
  <2> QED
    BY <1>2, <1>3, <2>1, <2>2 DEF Placed
<1>6. SeenIsAsked'
  BY <1>2, DeliveredIsSeen DEF Good
<1>7. KeptApart(asked')
  <2> SUFFICES ASSUME NEW i \in DOMAIN asked', NEW j \in DOMAIN asked', i < j,
                      Repeats(asked'[j].question, asked'[i].question)
               PROVE  asked'[j].try = 3 /\ ~InWorkbook(asked'[j].of)
    BY DEF KeptApart
  <2>1. i \in 1..n /\ i \in DOMAIN asked /\ asked'[i] = asked[i]
    BY <1>1, <1>3
  <2>2. CASE j = n + 1
    <3>1. Repeats(o.question, asked[i].question)
      BY <1>3, <2>1, <2>2
    <3>2. Repeated(o)
      BY <2>1, <3>1, RepeatIsSeen DEF Good
    <3> QED
      BY <1>3, <1>4, <2>2, <3>2 DEF Hit
  <2>3. CASE j # n + 1
    <3>1. j \in DOMAIN asked /\ asked'[j] = asked[j]
      BY <1>1, <1>3, <2>3
    <3>2. KeptApart(asked)
      BY OfEveryQuiz DEF Good, EveryQuizIsFine, Fine, Quizzes
    <3> QED
      BY <2>1, <3>1, <3>2 DEF KeptApart
  <2> QED
    BY <2>2, <2>3
<1>8. Gated(asked')
  <2>1. PastTheGate(o.verdict)
    BY <1>4, NotRejected
  <2>2. Gated(asked)
    BY OfEveryQuiz DEF Good, EveryQuizIsFine, Fine, Quizzes
  <2>3. ASSUME NEW i \in 1..(n + 1) PROVE PastTheGate(asked'[i].verdict)
    <3>1. CASE i = n + 1
      BY <1>3, <2>1, <3>1
    <3>2. CASE i # n + 1
      <4>1. i \in DOMAIN asked /\ asked'[i] = asked[i]
        BY <1>1, <1>3, <3>2
      <4> QED
        BY <2>2, <4>1 DEF Gated
    <3> QED
      BY <3>1, <3>2
  <2> QED
    BY <1>3, <2>3 DEF Gated
<1>8a. WellKeyed(asked')
  <2>1. ~o.live => RightlyKeyed(o.question)
    <3>1. hits[n + 1] \in Chunks /\ DOMAIN hits = 1..m
      BY <1>1, ListLength DEF Good
    <3>2. Index \in Nat \ {0}
      <4>1. try * m \in Nat
        BY <1>1 DEF Good
      <4> HIDE DEF n, m
      <4> QED
        BY <1>1, <4>1 DEF Index, n, m
    <3>3. Hydrated(Hit) \in {Cut[Hit], Whole[Hit]}
      BY DEF Hydrated
    <3>4. RightlyKeyed(Fallback(Hydrated(Hit), Index))
      BY <3>1, <3>2, <3>3, FallbackRightlyKeyed DEF Hit
    <3> QED
      BY <3>4, OutcomeEffect
  <2>2. WellKeyed(asked)
    BY OfEveryQuiz DEF Good, EveryQuizIsFine, Fine, Quizzes
  <2>3. ASSUME NEW i \in 1..(n + 1) PROVE ~asked'[i].live => RightlyKeyed(asked'[i].question)
    <3>1. CASE i = n + 1
      BY <1>3, <2>1, <3>1
    <3>2. CASE i # n + 1
      <4>1. i \in DOMAIN asked /\ asked'[i] = asked[i]
        BY <1>1, <1>3, <3>2
      <4> QED
        BY <2>2, <4>1 DEF WellKeyed
    <3> QED
      BY <3>1, <3>2
  <2> QED
    BY <1>3, <2>3 DEF WellKeyed
<1>9. EveryQuizIsFine'
  <2>1. \A quiz \in Quizzes' : quiz = asked' \/ quiz \in Quizzes
    BY <1>2 DEF Quizzes
  <2>2. \A quiz \in Quizzes : Fine(quiz)
    BY OfEveryQuiz DEF Good, EveryQuizIsFine
  <2>3. Fine(asked')
    BY <1>7, <1>8, <1>8a DEF Fine
  <2> QED
    BY <2>1, <2>2, <2>3, OfEveryQuizNext
<1>10. SessionsAreWhole'
  BY <1>2 DEF Good, SessionsAreWhole
<1>11. /\ List(hits') /\ List(sessions') /\ try' \in 0..3
       /\ \A i \in DOMAIN hits' : hits'[i] \in Chunks
  BY <1>2 DEF Good
<1>12. /\ request' = << >> => asked' = << >>
       /\ request' # << >> => Len(hits') = request'[1].count
  BY <1>2 DEF Good, Unasked
<1> QED
  BY <1>3, <1>5, <1>6, <1>9, <1>10, <1>11, <1>12 DEF Good, EveryQuizIsFine

---------------------------------------------------------------------------
\* The other steps.

LEMMA InitGood == ASSUME Init PROVE Good
<1>1. /\ hits = << >> /\ asked = << >> /\ sessions = << >> /\ request = << >> /\ try = 0
      /\ seen = NothingSeen
  BY DEF Init
<1>2. DOMAIN << >> = {}
  OBVIOUS
<1>3. Placed
  <2>1. 1..0 = {}
    OBVIOUS
  <2> QED
    BY <1>1, <2>1, EmptyList DEF Placed
<1>4. SeenIsAsked
  BY <1>1, <1>2 DEF SeenIsAsked, NothingSeen
<1>5. SessionsAreWhole
  BY <1>1, <1>2 DEF SessionsAreWhole
<1>6. EveryQuizIsFine
  <2>1. Quizzes = {<< >>}
    BY <1>1, <1>2 DEF Quizzes
  <2> QED
    BY <2>1, OfEveryQuiz, NoQuestionsIsAQuiz
<1>7. /\ List(hits) /\ List(asked) /\ List(sessions) /\ try \in 0..3
      /\ \A i \in DOMAIN hits : hits[i] \in Chunks
  BY <1>1, EmptyList
<1> QED
  BY <1>1, <1>3, <1>4, <1>5, <1>6, <1>7 DEF Good, EveryQuizIsFine

\* What is retrieved and what is selected of it are chunks of the course.
LEMMA SomeOfChunks ==
    ASSUME NEW s \in Seq(Chunks), NEW I \in SUBSET DOMAIN s
    PROVE  At(s, I) \in Seq(Chunks)
<1> DEFINE t == At(s, I)
<1>1. t \in Seq({s[i] : i \in I})
  BY AtPlaces
<1>2. {s[i] : i \in I} \in SUBSET Chunks
  OBVIOUS
<1> HIDE DEF t
<1>3. t \in Seq(Chunks)
  BY <1>1, <1>2
<1> QED
  BY <1>3 DEF t

LEMMA FirstOfChunks ==
    ASSUME NEW s \in Seq(Chunks), NEW n \in Nat
    PROVE  AtMost(s, n) \in Seq(Chunks)
BY DEF AtMost

LEMMA RetrievedChunks ==
    ASSUME NEW r \in Requests, NEW ranking \in Rankings
    PROVE  Retrieved(r, ranking) \in Seq(Chunks)
<1> DEFINE sources == SelectedSources(r)
           I == {i \in DOMAIN ranking : MaterialOf[ranking[i]] \in documents /\ (sources = {} \/ SectionOf[ranking[i]] \in sources)}
           ranked == At(ranking, I)
           best == AtMost(ranked, BoundedRetrievalTopK(r))
           J(label) == {i \in DOMAIN best : Cut[best[i]].label = label}
<1>1. \/ Retrieved(r, ranking) = At(best, J("testable"))
      \/ Retrieved(r, ranking) = At(best, J("weak"))
  BY DEF Retrieved, Selected
<1>2. ranking \in Seq(Chunks) /\ I \in SUBSET DOMAIN ranking
  BY RankingsAssumption
<1> HIDE DEF I
<1>3. ranked \in Seq(Chunks)
  BY <1>2, SomeOfChunks
<1>4. BoundedRetrievalTopK(r) \in Nat
  BY RequestsAssumption, BoundsAssumption DEF BoundedRetrievalTopK
<1> HIDE DEF ranked
<1>5. best \in Seq(Chunks)
  BY <1>3, <1>4, FirstOfChunks
<1> HIDE DEF best
<1>6. J("testable") \in SUBSET DOMAIN best /\ J("weak") \in SUBSET DOMAIN best
  OBVIOUS
<1> HIDE DEF J
<1>7. At(best, J("testable")) \in Seq(Chunks) /\ At(best, J("weak")) \in Seq(Chunks)
  BY <1>5, <1>6, SomeOfChunks
<1> QED
  BY <1>1, <1>7

\* A plan has a hit for each question asked for, and they are chunks of the course.
LEMMA PlannedHits ==
    ASSUME NEW r \in Requests, NEW found \in Seq(Chunks), SelectHits(r, found) # << >>
    PROVE  /\ List(SelectHits(r, found)) /\ Len(SelectHits(r, found)) = r.count
           /\ \A i \in DOMAIN SelectHits(r, found) : SelectHits(r, found)[i] \in Chunks
<1> DEFINE strict == SelectedSources(r) # {}
           I == {i \in DOMAIN found : IF strict THEN Cut[found[i]].label = "testable" ELSE Cut[found[i]].label # "administrative"}
           usable == At(found, I)
           J == {i \in DOMAIN usable : \A j \in 1..(i - 1) : KeyOf[usable[j]] # KeyOf[usable[i]]}
           selected == AtMost(At(usable, J), r.count)
           f == SelectHits(r, found)
<1>1. f = IF selected = << >> THEN << >> ELSE [i \in 1..r.count |-> Turn(selected, i)]
  BY DEF SelectHits, Selected, Firsts
<1>2. r.count \in Nat
  BY RequestsAssumption
<1>3. selected \in Seq(Chunks)
  <2>1. I \in SUBSET DOMAIN found
    OBVIOUS
  <2> HIDE DEF I
  <2>2. usable \in Seq(Chunks)
    BY <2>1, SomeOfChunks
  <2> HIDE DEF usable
  <2>3. J \in SUBSET DOMAIN usable
    OBVIOUS
  <2> HIDE DEF J
  <2>4. At(usable, J) \in Seq(Chunks)
    BY <2>2, <2>3, SomeOfChunks
  <2> QED
    BY <1>2, <2>4, FirstOfChunks
<1> HIDE DEF selected, f
<1>4. selected # << >> /\ f = [i \in 1..r.count |-> Turn(selected, i)]
  BY <1>1 DEF f
<1>5. DOMAIN f = 1..r.count /\ f = [i \in 1..r.count |-> f[i]]
  BY <1>4
<1>6. List(f) /\ Len(f) = r.count
  BY <1>2, <1>5, FunctionIsList
<1>7. ASSUME NEW i \in DOMAIN f PROVE f[i] \in Chunks
  <2>1. i \in Nat \ {0} /\ f[i] = Turn(selected, i)
    BY <1>2, <1>4, <1>5
  <2>2. PICK k \in DOMAIN selected : Turn(selected, i) = selected[k]
    BY <1>3, <1>4, <2>1, TurnPlace
  <2> QED
    BY <1>3, <2>1, <2>2
<1> QED
  BY <1>6, <1>7 DEF f

LEMMA PlanKept ==
    ASSUME Good, NEW r \in Requests, NEW ranking \in Rankings, Plan(r, ranking)
    PROVE  Good'
<1> DEFINE selected == SelectHits(r, Retrieved(r, ranking))
<1>1. /\ request = << >> /\ asked' = asked /\ try' = try /\ seen' = seen /\ sessions' = sessions
      /\ asked = << >>
  BY DEF Plan, Good
<1>2. CASE selected = << >>
  <2>1. request' = request /\ hits' = hits
    BY <1>2 DEF Plan
  <2> QED
    BY <1>1, <2>1, OfEveryQuiz, OfEveryQuizNext
    DEF Good, Placed, SeenIsAsked, SessionsAreWhole, Quizzes, EveryQuizIsFine, ThreeWords
<1>3. CASE selected # << >>
  <2>1. request' = <<r>> /\ hits' = selected
    BY <1>3 DEF Plan
  <2> HIDE DEF selected
  <2>2. /\ List(hits') /\ Len(hits') = r.count /\ r.count \in Nat
        /\ \A i \in DOMAIN hits' : hits'[i] \in Chunks
    BY <1>3, <2>1, RetrievedChunks, PlannedHits, RequestsAssumption DEF selected
  <2>3. Placed'
    <3>1. 1..0 = {}
      OBVIOUS
    <3> QED
      BY <1>1, <2>2, <3>1, EmptyList DEF Placed
  <2>4. SeenIsAsked' /\ SessionsAreWhole'
    BY <1>1 DEF Good, SeenIsAsked, SessionsAreWhole, ThreeWords
  <2>5. EveryQuizIsFine'
    BY <1>1, OfEveryQuiz, OfEveryQuizNext DEF Good, EveryQuizIsFine, Quizzes
  <2> QED
    BY <1>1, <2>1, <2>2, <2>3, <2>4, <2>5 DEF Good, EveryQuizIsFine
<1> QED
  BY <1>2, <1>3

\* The end of a request: nothing of it is left, whatever was stored.
LEMMA EndKept ==
    ASSUME Good, EndRequest, List(sessions'), SessionsAreWhole',
           \A quiz \in Quizzes' : quiz = << >> \/ quiz \in Quizzes
    PROVE  Good'
<1>1. /\ hits' = << >> /\ asked' = << >> /\ request' = << >> /\ try' = 0
      /\ seen' = NothingSeen
  BY DEF EndRequest
<1>2. DOMAIN << >> = {} /\ 1..0 = {}
  OBVIOUS
<1>3. Placed'
  BY <1>1, <1>2, EmptyList DEF Placed
<1>4. SeenIsAsked'
  BY <1>1, <1>2 DEF SeenIsAsked, NothingSeen
<1>5. EveryQuizIsFine'
  <2>1. \A quiz \in Quizzes : Fine(quiz)
    BY OfEveryQuiz DEF Good, EveryQuizIsFine
  <2> QED
    BY <2>1, NoQuestionsIsAQuiz, OfEveryQuizNext
<1> QED
  BY <1>1, <1>3, <1>4, <1>5, EmptyList DEF Good, EveryQuizIsFine

LEMMA GiveUpKept == ASSUME Good, GiveUp PROVE Good'
<1>1. sessions' = sessions /\ EndRequest /\ asked' = << >>
  BY DEF GiveUp, EndRequest
<1>2. List(sessions') /\ SessionsAreWhole'
  BY <1>1 DEF Good, SessionsAreWhole
<1>3. \A quiz \in Quizzes' : quiz = << >> \/ quiz \in Quizzes
  BY <1>1 DEF Quizzes
<1> QED
  BY <1>1, <1>2, <1>3, EndKept

\* What is stored is what the request asked for, whole.
LEMMA SaveKept == ASSUME Good, SaveSession PROVE Good'
<1> DEFINE quiz == [request |-> request[1], hits |-> hits, questions |-> asked]
           n == Len(sessions)
           m == Len(hits)
<1>1. /\ request # << >> /\ Len(asked) = m
      /\ sessions' = Append(sessions, quiz) /\ EndRequest /\ asked' = << >>
  BY DEF SaveSession, EndRequest
<1>2. /\ List(sessions') /\ n \in Nat /\ DOMAIN sessions = 1..n /\ DOMAIN sessions' = 1..(n + 1)
      /\ \A k \in 1..n : sessions'[k] = sessions[k]
      /\ sessions'[n + 1] = quiz
  BY <1>1, ListLength, AppendList DEF Good
<1>3. m \in Nat /\ DOMAIN asked = 1..m
  BY <1>1, ListLength DEF Good
<1>4. /\ quiz.questions = asked /\ quiz.hits = hits /\ quiz.request = request[1]
  OBVIOUS
<1>5. /\ Len(asked) = request[1].count
      /\ \A i \in DOMAIN asked : asked[i].of = hits[i]
      /\ \A i, j \in DOMAIN asked : asked[i].id = asked[j].id => i = j
  <2>1. Len(asked) = request[1].count
    BY <1>1 DEF Good
  <2>2. \A i \in 1..m : asked[i].of = hits[i] /\ asked[i].try \in 0..3 /\ asked[i].id = i + asked[i].try * m
    BY <1>1 DEF Good, Placed
  <2>3. ASSUME NEW i \in 1..m, NEW j \in 1..m, asked[i].id = asked[j].id PROVE i = j
    <3>1. i + asked[i].try * m = j + asked[j].try * m
      BY <2>2, <2>3
    <3>2. asked[i].try \in 0..3 /\ asked[j].try \in 0..3
      BY <2>2
    <3> QED
      BY <1>3, <3>1, <3>2, IdsDiffer
  <2> QED
    BY <1>3, <2>1, <2>2, <2>3
<1> HIDE DEF quiz
<1>6. SessionsAreWhole'
  <2>1. ASSUME NEW k \in 1..(n + 1)
        PROVE  LET q == sessions'[k] IN
               /\ Len(q.questions) = q.request.count
               /\ \A i \in DOMAIN q.questions : q.questions[i].of = q.hits[i]
               /\ \A i, j \in DOMAIN q.questions : q.questions[i].id = q.questions[j].id => i = j
    <3>1. CASE k = n + 1
      BY <1>2, <1>4, <1>5, <3>1
    <3>2. CASE k # n + 1
      <4>1. k \in DOMAIN sessions /\ sessions'[k] = sessions[k]
        BY <1>2, <3>2
      <4> QED
        BY <4>1 DEF Good, SessionsAreWhole
    <3> QED
      BY <3>1, <3>2
  <2> QED
    BY <1>2, <2>1 DEF SessionsAreWhole
<1>7. ASSUME NEW q \in Quizzes' PROVE q = << >> \/ q \in Quizzes
  <2>1. CASE q = asked'
    BY <1>1, <2>1
  <2>2. CASE \E k \in 1..(n + 1) : q = sessions'[k].questions
    <3>1. PICK k \in 1..(n + 1) : q = sessions'[k].questions
      BY <2>2
    <3>2. CASE k = n + 1
      BY <1>2, <1>4, <3>1, <3>2 DEF Quizzes
    <3>3. CASE k # n + 1
      <4>1. k \in DOMAIN sessions /\ sessions'[k] = sessions[k]
        BY <1>2, <3>3
      <4> QED
        BY <3>1, <4>1 DEF Quizzes
    <3> QED
      BY <3>2, <3>3
  <2> QED
    BY <1>2, <2>1, <2>2 DEF Quizzes
<1> QED
  BY <1>1, <1>2, <1>6, <1>7, EndKept

LEMMA NextKept == ASSUME Good, [Next]_vars PROVE Good'
<1>1. ASSUME NEW r \in Requests, NEW ranking \in Rankings, Plan(r, ranking) PROVE Good'
  BY <1>1, PlanKept
<1>2. CASE Take
  <2>1. PICK o \in Outcomes : Unasked /\ ~Rejected(o.verdict) /\ ~Repeated(o) /\ Deliver(o)
    BY <1>2 DEF Take
  <2> QED
    BY <2>1, DeliverKept
<1>3. CASE TakeLast
  <2>1. PICK o \in Outcomes : Unasked /\ try = 3 /\ ~InWorkbook(Hit) /\ ~Rejected(o.verdict) /\ Deliver(o)
    BY <1>3 DEF TakeLast
  <2> QED
    BY <2>1, DeliverKept
<1>4. CASE Retry
  <2>1. /\ try' = try + 1 /\ try < 3
        /\ UNCHANGED <<request, hits, asked, seen, sessions>>
    BY <1>4 DEF Retry
  <2>2. try' \in 0..3
    BY <2>1 DEF Good
  <2> QED
    BY <2>1, <2>2, OfEveryQuiz, OfEveryQuizNext
    DEF Good, Placed, SeenIsAsked, SessionsAreWhole, Quizzes, EveryQuizIsFine, ThreeWords
<1>5. CASE GiveUp
  BY <1>5, GiveUpKept
<1>6. CASE SaveSession
  BY <1>6, SaveKept
<1>7. CASE (\E m \in Materials : DeleteMaterial(m)) \/ UNCHANGED vars
  <2>1. UNCHANGED <<request, hits, asked, try, seen, sessions>>
    BY <1>7 DEF DeleteMaterial, vars
  <2> QED
    BY <2>1, OfEveryQuiz, OfEveryQuizNext
    DEF Good, Placed, SeenIsAsked, SessionsAreWhole, Quizzes, EveryQuizIsFine, ThreeWords
<1> QED
  BY <1>1, <1>2, <1>3, <1>4, <1>5, <1>6, <1>7 DEF Next

LEMMA AlwaysGood == Spec => []Good
BY InitGood, NextKept, PTL DEF Spec

---------------------------------------------------------------------------
\* A stored quiz is whole: the questions asked for, of the selected hits in their
\* order, with an id each, however often a question was tried (the retry loop and the
\* save of generate_quiz).
THEOREM QuizzesAreWhole == Spec => []SessionsAreWhole
<1>1. Good => SessionsAreWhole
  BY DEF Good
<1> QED
  BY <1>1, AlwaysGood, PTL

\* The sets a question is compared with hold the delivered questions and nothing of
\* the candidates that were thrown away (QuizUniquenessState).
THEOREM OnlyDeliveredIsRemembered == Spec => []SeenIsAsked
<1>1. Good => SeenIsAsked
  BY DEF Good
<1> QED
  BY <1>1, AlwaysGood, PTL

\* A question that repeats an earlier one of its quiz was a fourth try, and never one
\* about a workbook.
THEOREM RepeatsAreLastTries == Spec => []NothingRepeated
<1>1. Good => NothingRepeated
  BY DEF Good
<1> QED
  BY <1>1, AlwaysGood, PTL

\* Every delivered question passed the quality gate, or could not be scored; with the
\* PyTorch model required the heuristic delivers none.
THEOREM TheGateHolds == Spec => []OnlyTheModelDelivers
<1>1. Good => OnlyTheModelDelivers
  BY DEF Good
<1> QED
  BY <1>1, AlwaysGood, PTL

\* A question written without a model has four different options, and the one at its key
\* is the answer it was made with: however the index turns the templates, the facts and the
\* distractors of a text, and however few the text gives (_assemble_options,
\* _assemble_workbook_options, _build_patterned_workbook_mcq).
THEOREM KeysMarkTheAnswers == Spec => []KeyIsTheAnswer
<1>1. Good => KeyIsTheAnswer
  BY DEF Good
<1> QED
  BY <1>1, AlwaysGood, PTL

=============================================================================
