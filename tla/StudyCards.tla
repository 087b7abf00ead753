------------------------------ MODULE StudyCards ------------------------------
(***************************************************************************)
(* How section_study_service.py builds the flashcards of a section:        *)
(* _flashcards_from_original_book, the generators it calls and the repairs *)
(* that bring a learning outcome to its minimum.  A concept's cards are    *)
(* made and topped up (CardsForConcept), then gathered by learning outcome,*)
(* balanced, topped up again and marked when still too few (CoverOutcome), *)
(* joined with the cards of the formulas (AddFormulas), and the whole deck *)
(* topped up (TopUpSection).  The set of anchor terms is listed in the     *)
(* order of the process's hashes, chosen at the start.                     *)
(*                                                                         *)
(* A concept is a record: id, outcome, related (the key concept its cards  *)
(* link to, "none" when missing), valid (its text passes                   *)
(* _is_valid_flashcard_source_unit), spoils (its text holds something,     *)
(* like the marker of a cropped image, that makes every text it is part of *)
(* fail), length, text (the phrases of CardFamilies), sentences (records   *)
(* of CardForms), steps (how many numbered steps), trap, topic, keyTerms,  *)
(* otherTerms (good terms of its title and text, in order), unfit.  A      *)
(* card's question is a record too, and its id stands for the string       *)
(* concept-from-n-kind of _build_flashcard.                                *)
(*                                                                         *)
(* _flashcard_quality_flags reads a card's words: a front like "What is    *)
(* residuals?", a word said twice, no page, an answer of one word, or the  *)
(* whole excerpt, or of more than three sentences, a front that shares no  *)
(* word with its source.  What a text's cards say is an input: unfit is    *)
(* the set of the cards (what they ask, and under which id) that these     *)
(* checks refuse when they are made of that text, for a concept's text,    *)
(* for the texts of several concepts joined, and for a formula's cards.    *)
(***************************************************************************)
EXTENDS CardFamilies, CardForms

CONSTANTS Sections,     \* the sections whose decks are built
          HashOrders    \* the orders a set of terms can be listed in, one per process

\* Concepts are records of the fields above, numbered apart by their place in the
\* book (_learning_outcomes_from_original_book); a formula's id is not missing.
IsConcept(c) ==
  /\ c = [id |-> c.id, outcome |-> c.outcome, related |-> c.related, valid |-> c.valid,
          spoils |-> c.spoils, length |-> c.length, text |-> c.text,
          sentences |-> c.sentences, steps |-> c.steps, trap |-> c.trap,
          topic |-> c.topic, keyTerms |-> c.keyTerms, otherTerms |-> c.otherTerms,
          unfit |-> c.unfit]
  /\ List(c.sentences) /\ List(c.keyTerms) /\ List(c.otherTerms)
  /\ c.length \in Nat /\ c.steps \in Nat /\ c.id # "none"

IsSection(s) ==
  /\ List(s.concepts) /\ \A i \in DOMAIN s.concepts : IsConcept(s.concepts[i])
  /\ \A i, j \in DOMAIN s.concepts : s.concepts[i].id = s.concepts[j].id => i = j
  /\ IsConcept(s.whole)
  /\ \A o \in DOMAIN s.windows : List(s.windows[o].sentences) /\ List(s.windows[o].terms)
  /\ List(s.formulas)
  /\ \A i \in DOMAIN s.formulas : List(s.formulas[i].variables) /\ s.formulas[i].id # "none"

ASSUME SectionsAssumption == \A s \in Sections : IsSection(s)
ASSUME HashOrdersAssumption == \A o \in HashOrders : List(o)

MIN_FLASHCARDS_PER_CONCEPT == 10
MIN_FLASHCARDS_PER_LEARNING_OUTCOME == 10
MAX_FLASHCARDS_PER_CONCEPT == 24
MAX_GENERATED == 32

VARIABLES section, hashOrder, pc, turn, cards, repaired, deck
vars == <<section, hashOrder, pc, turn, cards, repaired, deck>>

FirstN(s, n) == SubSeq(s, 1, IF Len(s) < n THEN Len(s) ELSE n)
Deduped(s) == At(s, FirstPlaces(s))
------------------------------------------------------------------------------
\* What a card asks: _flashcard_semantic_key.  The key of a formula's card
\* names the formula too.
Question(question, about) ==
  [question |-> question, about |-> about, n |-> 0, formula |-> "none"]

\* A card made of the text of a concept, or of several concepts read as one.
Card(c, from, kind, n, asks, score) ==
  LET id == [of |-> c.id, from |-> from, kind |-> kind, n |-> n]
  IN  [id |-> id, asks |-> asks, score |-> score,
       concept |-> c.id, link |-> c.related, outcome |-> c.outcome,
       generic |-> from = "minimum", thin |-> FALSE,
       fit |-> [id |-> id, asks |-> asks] \notin c.unfit]

\* Only a card with a link to a key concept or a formula is valid, and only one
\* whose words the checks let pass; the fixed fronts of Refused never do.
IsValid(card) == card.link # "none" /\ card.fit /\ card.id.kind \notin Refused

\* Mutants: questions are not compared; the first card is kept, the limit one too high.
UniqueNotCompared(some, limit) == FirstN(Selected(some, IsValid), limit)
UniqueOneMore(some, limit) ==
  LET valid == Selected(some, IsValid)
  IN  FirstN(At(valid, FirstPlaces([i \in DOMAIN valid |-> valid[i].asks])), limit + 1)

\* _valid_unique_flashcards: one card per question, the most specific one, in the
\* order in which the questions came first.
Best(valid, some) ==
  CHOOSE j \in some : \A k \in some : \/ valid[k].score < valid[j].score
                                      \/ valid[k].score = valid[j].score /\ j <= k
OnePerQuestion(valid) ==
  LET asked == [i \in DOMAIN valid |-> valid[i].asks]
      SameAs(i) == {j \in DOMAIN valid : asked[j] = asked[i]}
  IN  At([i \in DOMAIN valid |-> valid[Best(valid, SameAs(i))]], FirstPlaces(asked))
Unique(some, limit) == FirstN(OnePerQuestion(Selected(some, IsValid)), limit)
UniqueAll(some) == Unique(some, Len(some))

Marked(some) ==
  [i \in DOMAIN some |->
    [some[i] EXCEPT !.thin = Len(some) < MIN_FLASHCARDS_PER_LEARNING_OUTCOME]]
------------------------------------------------------------------------------
\* Generators.
FixedCards(c, families) ==
  LET names == AskedOfAll(families, c.text)
  IN  [i \in DOMAIN names |->
        Card(c, "fixed", names[i], 0, Question(QuestionOf(names[i]), ""), 0)]

SentenceCards(c, from, n, entries) ==
  [i \in DOMAIN entries |->
    Card(c, from, entries[i].kind, n, Question(entries[i].question, entries[i].about),
         entries[i].score)]

\* The cards of each sentence, numbered from a first index on.
TopUps(c, sentences, after) ==
  FlattenSeq([i \in DOMAIN sentences |->
    SentenceCards(c, "top-up", after + i, FirstOf(TopUpForms, sentences[i]))])

AnchorSentences(c, table) ==
  FlattenSeq([i \in DOMAIN c.sentences |->
    SentenceCards(c, "lo-anchor", i, EachOf(table, c.sentences[i]))])

Agnostic(c) ==
  IF c.valid THEN Unique(FixedCards(c, AgnosticFamilies), MAX_GENERATED) ELSE << >>

ModuleAnchor(c) ==
  IF c.valid THEN Unique(TopUps(c, FirstN(c.sentences, 16), 0)
                         \o FixedCards(c, <<ModuleAnchors>>), MAX_GENERATED)
             ELSE << >>

OutcomeAnchor(c) ==
  IF c.valid THEN Unique(AnchorSentences(c, FormulaInputForms)
                         \o FixedCards(c, <<RegressionAnchors, ExpectedLossAnchors>>)
                         \o AnchorSentences(c, PortfolioForms \o RiskForms), MAX_GENERATED)
             ELSE << >>

Balanced(c) ==
  IF c.valid THEN Unique(FixedCards(c, <<InsuranceAnchors>>), MAX_GENERATED) ELSE << >>

\* The generic cards: two on the topic, four on each of the first ten terms.
Minimum(c) ==
  LET terms == LET found == Deduped(c.keyTerms \o c.otherTerms)
               IN  IF found = << >> /\ c.topic # "" THEN <<c.topic>> ELSE found
      topic == IF c.topic # "" THEN c.topic ELSE terms[1]
      Ask(n, kind, about) ==
        Card(c, "minimum", kind, n, Question(kind, about), 0)
      used == FirstN(terms, 10)
  IN  IF ~c.valid \/ terms = << >> THEN << >>
      ELSE Unique(<<Ask(0, "core-point", topic), Ask(0, "exam-use", topic)>>
                  \o FlattenSeq([n \in DOMAIN used |->
                       <<Ask(n, "exam-fact", used[n]), Ask(n, "why-matters", used[n]),
                         Ask(n, "source-description", used[n]),
                         Ask(n, "linked-detail", used[n])>>]), MAX_GENERATED)

\* All the good terms of some concepts, a set listed in the order of its hashes.
AnchorTerms(cs) == UNION {ToSet(cs[i].keyTerms \o cs[i].otherTerms) : i \in DOMAIN cs}
Listed(terms) == Selected(hashOrder, LAMBDA t : t \in terms)

\* The part of the section's text that belongs to an outcome.
Window(outcome) ==
  IF outcome \in DOMAIN section.windows THEN section.windows[outcome]
  ELSE [text |-> {}, sentences |-> << >>, terms |-> << >>, spoils |-> FALSE]

\* The cards refused when they are made of the texts of these concepts, joined.
JoinedUnfit(cs) ==
  LET ids == [i \in DOMAIN cs |-> cs[i].id]
  IN  IF ids \in DOMAIN section.unfit THEN section.unfit[ids] ELSE {}

\* _aggregate_learning_outcome_top_up_flashcards: the generators run on the texts
\* of several concepts, read as one text of the first concept.
Aggregate(outcome, cs) ==
  LET primary == cs[1]
      context == [primary EXCEPT
        !.valid = ~Window(outcome).spoils /\ \A i \in DOMAIN cs : ~cs[i].spoils,
        !.text = UNION {cs[i].text : i \in DOMAIN cs} \cup Window(outcome).text,
        !.sentences = FlattenSeq([i \in DOMAIN cs |-> cs[i].sentences])
                      \o Window(outcome).sentences,
        !.keyTerms = Deduped(@ \o Listed(AnchorTerms(cs))),
        !.otherTerms = FlattenSeq([i \in DOMAIN cs |-> cs[i].otherTerms])
                       \o Window(outcome).terms,
        !.unfit = JoinedUnfit(cs)]
      Ask(kind) == Card(context, "aggregate", kind, 0, Question(kind, ""), 0)
      keyTerms == Deduped(FlattenSeq([i \in DOMAIN cs |-> cs[i].keyTerms]))
  IN  IF cs = << >> \/ context.sentences = << >> THEN << >>
      ELSE Unique((IF {"r-squared", "residual", "outlier"} \subseteq context.text
                   THEN <<Ask("r-squared-vs-residuals"), Ask("outliers-after-fitting")>>
                   ELSE << >>)
                  \o (IF Len(keyTerms) >= 4 THEN <<Ask("key-terms-list")>> ELSE << >>)
                  \o OutcomeAnchor(context)
                  \o TopUps(context, context.sentences, 200)
                  \o Minimum(context), MAX_GENERATED)
------------------------------------------------------------------------------
\* The cards made from one concept alone.
WhatIs(c, from, about, score) ==
  Card(c, from, "definition", 0, Question("what is", about), score)

DefinitionCard(c) ==
  IF "risk is uncertainty surrounding outcomes" \in c.text THEN <<WhatIs(c, "risk", "risk", 2)>>
  ELSE IF c.sentences # << >> /\ c.sentences[1].usable /\ "definition" \in c.sentences[1].forms
       THEN <<WhatIs(c, "first", c.sentences[1].about, 2)>>
       ELSE << >>

ListCard(c) ==
  IF c.steps >= 3 /\ "components of the risk management process" \in c.text
  THEN <<Card(c, "list", "risk-management-components", 0,
              Question("what is", "four components"), 0)>>
  ELSE << >>

ComparisonCard(c) ==
  IF {"risk management", "risk taking"} \subseteq c.text
  THEN <<Card(c, "comparison", "risk-management-vs-taking", 0,
              Question("difference", "risk taking"), 0)>>
  ELSE << >>

\* The first topic found in the concept's text or trap names the question.
TrapTopics == <<
  [when |-> AnyOf({"expected loss", "expected losses"}), about |-> "expected loss"],
  [when |-> AnyOf({"economic capital"}), about |-> "economic capital"],
  [when |-> AnyOf({"tail risk"}), about |-> "tail risk"],
  [when |-> AnyOf({"risk and reward"}), about |-> "risk and reward"],
  [when |-> AllOf({"conflict", "shareholder"}), about |-> "conflict"],
  [when |-> AllOf({"risk management", "eliminat"}), about |-> "elimination"] >>

TrapCard(c) ==
  LET found == Selected(TrapTopics, LAMBDA t : Holds(t.when, c.text))
  IN  IF ~c.trap \/ found = << >> THEN << >>
      ELSE <<Card(c, "trap", "exam-trap", 0, Question("trap", found[1].about), 0)>>

StepCards(c) ==
  IF c.steps < 2 THEN << >>
  ELSE <<Card(c, "process", "steps", 0, Question("steps", c.topic), 0)>>
       \o [i \in 1..(IF c.steps < 6 THEN c.steps ELSE 6) |->
             Card(c, "process", "step", i, [Question("step", c.topic) EXCEPT !.n = i], 0)]

SentenceLevelCards(c) ==
  LET some == FirstN(c.sentences, 8)
  IN  FirstN(FlattenSeq([i \in DOMAIN some |->
               SentenceCards(c, "sentence", i, FirstOf(SentenceForms, some[i]))]), 4)

\* A key term gets a question when a sentence defines it.
TermCards(c) ==
  LET used == FirstN(c.keyTerms, 4)
      Defining(t) == {i \in DOMAIN c.sentences :
                        /\ c.sentences[i].about = t
                        /\ "definition" \in c.sentences[i].forms}
      Score(t) == IF \E i \in Defining(t) : "article" \in c.sentences[i].has THEN 3 ELSE 0
  IN  At([i \in DOMAIN used |->
            Card(c, "term", "term", i, Question("what is", used[i]), Score(used[i]))],
         {i \in DOMAIN used : Defining(used[i]) # {}})

AnchorCard(c) ==
  IF c.sentences = << >> \/ (c.keyTerms = << >> /\ c.topic = "") THEN << >>
  ELSE <<Card(c, "source", "source-anchor", 0,
              Question("remember", IF c.keyTerms # << >> THEN c.keyTerms[1] ELSE c.topic), 0)>>

HasAnchors(c) == c.keyTerms # << >> \/ c.topic # "" \/ c.steps > 0
                 \/ c.text \cap {"lo heading", "formula", "compare", "trap"} # {}

IfNone(some, others) == IF some = << >> THEN others ELSE some

\* _content_specific_flashcards_for_concept.
ContentSpecific(c) ==
  LET specific == FixedCards(c, ProviderFamilies) \o DefinitionCard(c) \o ListCard(c)
                  \o ComparisonCard(c) \o TrapCard(c)
                  \o FixedCards(c, <<RiskManagementProcess, LearningObjectiveCommands>>)
                  \o StepCards(c) \o SentenceLevelCards(c) \o TermCards(c)
      made == Unique(IfNone(specific, AnchorCard(c))
                     \o FixedCards(c, <<ProbabilityRelationships>>)
                     \o Agnostic(c) \o ModuleAnchor(c), MAX_FLASHCARDS_PER_CONCEPT)
  IN  IF c.valid /\ HasAnchors(c) THEN made ELSE << >>
------------------------------------------------------------------------------
Concepts == section.concepts

\* The outcomes of the section, in the order of their first concept.
Outcomes == Deduped([i \in DOMAIN Concepts |-> Concepts[i].outcome])

\* The concepts of an outcome, the longest text first.
ConceptsOf(outcome) ==
  LET its == {i \in DOMAIN Concepts : Concepts[i].outcome = outcome}
      UpTo(i) == {j \in its :
                   \/ Concepts[j].length > Concepts[i].length
                   \/ Concepts[j].length = Concepts[i].length /\ j <= i}
  IN  [n \in 1..Cardinality(its) |->
         Concepts[CHOOSE i \in its : Cardinality(UpTo(i)) = n]]

Aliases(c) == {c.id, c.related} \ {"none"}
Belongs(card, c) == card.concept \in Aliases(c) \/ card.link \in Aliases(c)

\* Mutant: the concepts' cards one concept after the other.
RoundRobinInBlocks(buckets) == FlattenSeq(buckets)

RoundRobin(buckets) ==
  LET rounds == 1..Cardinality(UNION {DOMAIN buckets[b] : b \in DOMAIN buckets})
  IN  FlattenSeq([o \in rounds |->
        FlattenSeq([b \in DOMAIN buckets |->
          IF o <= Len(buckets[b]) THEN <<buckets[b][o]>> ELSE << >>])])

\* balance_lo_cards: one card of each concept in turn, the generic ones last.
Balance(some, cs) ==
  LET Mine(i, x) == Belongs(x, cs[i]) /\ \A j \in 1..(i - 1) : ~Belongs(x, cs[j])
      Bucket(generic) == [i \in DOMAIN cs |->
                            Selected(some, LAMBDA x : Mine(i, x) /\ x.generic = generic)]
      rest == Selected(some, LAMBDA x : \A i \in DOMAIN cs : ~Belongs(x, cs[i]))
  IN  IF \A i \in DOMAIN cs : Bucket(FALSE)[i] = << >> THEN some
      ELSE RoundRobin(Bucket(FALSE)) \o RoundRobin(Bucket(TRUE)) \o rest

ConceptTopUps(c) == Agnostic(c) \o ModuleAnchor(c) \o OutcomeAnchor(c)

\* The cards found, and more when they are under the minimum: no fewer than were
\* found, and up to a limit.
AtLeast(limit, found, more) ==
  Unique(IF Len(found) < MIN_FLASHCARDS_PER_CONCEPT THEN found \o more ELSE found,
         IF Len(found) > limit THEN Len(found) ELSE limit)

\* The cards found for a concept; one found through a shared link becomes its own.
LinkOf(c) == IF c.related # "none" THEN c.related ELSE c.id
Own(x, c) == [x EXCEPT !.concept = c.id, !.link = IF @ # "none" THEN @ ELSE LinkOf(c)]
FoundFor(c, some) ==
  LET mine == Selected(some, LAMBDA x : Belongs(x, c))
  IN  [i \in DOMAIN mine |-> Own(mine[i], c)]

\* The cards its text gives once more, linked to it.
Linked(x, c) == [x EXCEPT !.concept = c.id, !.link = LinkOf(c)]
AddedFor(c, outcome) ==
  LET more == Aggregate(outcome, <<c>>) \o ConceptTopUps(c) \o Balanced(c) \o Minimum(c)
  IN  [i \in DOMAIN more |-> Linked(more[i], c)]

\* _ensure_key_concept_flashcard_coverage: each concept of the outcome gets its
\* own minimum.
CoverConcepts(outcome, cs, some) ==
  LET least == IF Len(cs) = 1 THEN MAX_FLASHCARDS_PER_CONCEPT ELSE MIN_FLASHCARDS_PER_CONCEPT
      Covered(c) == AtLeast(least, FoundFor(c, some), AddedFor(c, outcome))
      rest == Selected(some, LAMBDA x : \A i \in DOMAIN cs : ~Belongs(x, cs[i]))
  IN  UniqueAll(FlattenSeq([i \in DOMAIN cs |-> Covered(cs[i])]) \o rest)

\* Some concept of the outcome still has too few cards.
ConceptShort(cs, some) ==
  \E i \in DOMAIN cs :
    Len(Selected(some, LAMBDA x : Belongs(x, cs[i]))) < MIN_FLASHCARDS_PER_CONCEPT

\* Filled up when there are fewer than an outcome's minimum.
ToppedUp(some, more) ==
  IF Len(some) < MIN_FLASHCARDS_PER_LEARNING_OUTCOME
  THEN Unique(some \o more, MAX_FLASHCARDS_PER_CONCEPT) ELSE some

\* Balanced, covered concept by concept, and filled up from the whole outcome.
Filled(outcome, cs, made) ==
  LET its == Selected(made, LAMBDA x : x.outcome = outcome)
      covered == CoverConcepts(outcome, cs,
                   Unique(Balance(its, cs), MAX_FLASHCARDS_PER_CONCEPT))
      topUps == FlattenSeq([i \in DOMAIN cs |-> ConceptTopUps(cs[i]) \o Balanced(cs[i])])
                \o Aggregate(outcome, cs)
                \o FlattenSeq([i \in DOMAIN cs |-> Minimum(cs[i])])
  IN  ToppedUp(covered, topUps)

\* Mutant: an outcome is marked only when it has no card at all.
ThinUnlessEmpty(cs, some) == some = << >>

Thin(cs, some) ==
  Len(some) < MIN_FLASHCARDS_PER_LEARNING_OUTCOME \/ ConceptShort(cs, some)

Delivered(outcome, cs, some) ==
  [i \in DOMAIN some |-> [some[i] EXCEPT !.thin = Thin(cs, some), !.outcome = outcome]]

OutcomeCards(outcome, cs, made) == Delivered(outcome, cs, Filled(outcome, cs, made))
------------------------------------------------------------------------------
\* Mutant: a formula's question is known by the formula's name alone.
FormulaQuestionByName(f) == Question("formula", f.name)

FormulaQuestion(f) == [Question("formula", f.name) EXCEPT !.formula = f.id]

\* The cards of the first eight formulas: the formula, and four of its variables.
\* The words of each are checked like those of every card.
FormulaCards ==
  LET good == Selected(FirstN(section.formulas, 8), LAMBDA f : f.good)
      OfFormula(f, kind, asks) ==
        [id |-> [of |-> f.id, from |-> "formula", kind |-> kind, n |-> 0], asks |-> asks,
         score |-> 0, concept |-> f.concept, link |-> f.id, outcome |-> "none",
         generic |-> FALSE, thin |-> FALSE, fit |-> kind \notin f.unfit]
      CardsOf(f) ==
        <<OfFormula(f, "formula", FormulaQuestion(f))>>
        \o [i \in DOMAIN FirstN(f.variables, 4) |->
             OfFormula(f, f.variables[i], Question(f.variables[i], f.name))]
  IN  UniqueAll(FlattenSeq([i \in DOMAIN good |-> CardsOf(good[i])]))

\* _module_top_up_flashcards: the generators once more, over the first twelve
\* usable concepts, until there are enough.
SectionTopUps(usable) ==
  LET first == FirstN(usable, 12)
      Siblings(c) == Selected(usable, LAMBDA d : d.outcome = c.outcome)
      added == [i \in DOMAIN first |-> ConceptTopUps(first[i]) \o Balanced(first[i])
                                      \o Aggregate(first[i].outcome, Siblings(first[i]))]
      Before(i) == FlattenSeq([j \in 1..(i - 1) |-> added[j]])
  IN  UniqueAll(FlattenSeq([i \in DOMAIN first |->
        IF Len(Before(i)) < 2 * MIN_FLASHCARDS_PER_CONCEPT THEN added[i] ELSE << >>]))

Usable == IfNone(Selected(Concepts, LAMBDA c : c.valid),
                 IF section.whole.valid THEN <<section.whole>> ELSE << >>)
------------------------------------------------------------------------------
Init ==
  /\ section \in Sections
  /\ hashOrder \in HashOrders
  /\ pc = "concepts" /\ turn = 1
  /\ cards = << >> /\ repaired = << >> /\ deck = << >>

\* A concept's own cards, topped up to the minimum.
OwnCards(c) ==
  ToppedUp(Unique(ContentSpecific(c), MAX_FLASHCARDS_PER_CONCEPT),
           ConceptTopUps(c) \o Minimum(c))

CardsForConcept ==
  /\ pc = "concepts" /\ turn <= Len(Concepts)
  /\ cards' = cards \o Marked(OwnCards(Concepts[turn]))
  /\ turn' = turn + 1
  /\ UNCHANGED <<section, hashOrder, pc, repaired, deck>>

ConceptsDone ==
  /\ pc = "concepts" /\ turn > Len(Concepts)
  /\ cards' = UniqueAll(cards)
  /\ pc' = "outcomes" /\ turn' = 1
  /\ UNCHANGED <<section, hashOrder, repaired, deck>>

\* One learning outcome: _ensure_learning_outcome_flashcard_coverage.
CoverOutcome ==
  /\ pc = "outcomes" /\ turn <= Len(Outcomes)
  /\ repaired' = repaired \o OutcomeCards(Outcomes[turn], ConceptsOf(Outcomes[turn]), cards)
  /\ turn' = turn + 1
  /\ UNCHANGED <<section, hashOrder, pc, cards, deck>>

\* After the last outcome: duplicates across outcomes are dropped, whatever was
\* marked before.
AddFormulas ==
  /\ pc = "outcomes" /\ turn > Len(Outcomes)
  /\ deck' = UniqueAll(UniqueAll(repaired) \o FormulaCards)
  /\ pc' = "top_up" /\ turn' = 1
  /\ UNCHANGED <<section, hashOrder, cards, repaired>>

\* Still too few: the cards without an outcome, the formulas', are marked.
FormulasMarked(some) ==
  IF Len(some) >= MIN_FLASHCARDS_PER_CONCEPT THEN some
  ELSE [i \in DOMAIN some |->
         IF some[i].id.from = "formula" THEN [some[i] EXCEPT !.thin = TRUE] ELSE some[i]]

TopUpSection ==
  /\ pc = "top_up"
  /\ deck' = FormulasMarked(IF Len(deck) < MIN_FLASHCARDS_PER_CONCEPT
                            THEN UniqueAll(deck \o SectionTopUps(Usable)) ELSE deck)
  /\ pc' = "done"
  /\ UNCHANGED <<section, hashOrder, turn, cards, repaired>>

Next == CardsForConcept \/ ConceptsDone \/ CoverOutcome \/ AddFormulas \/ TopUpSection

Spec == Init /\ [][Next]_vars
------------------------------------------------------------------------------
CardsOf(some, outcome) == Selected(some, LAMBDA x : x.outcome = outcome)
Asks(some) == {some[i].asks : i \in DOMAIN some}

\* A delivered deck asks no question twice, whichever generators, concepts or
\* outcomes it came from (_valid_unique_flashcards after every step).
NothingAskedTwice ==
  pc = "done" => \A i, j \in DOMAIN deck : deck[i].asks = deck[j].asks => i = j

\* Its outcome brings no concept more than 24 cards to a deck, although cards are
\* added there concept by concept and from its siblings, after the concept's own
\* limit was applied.  (Only a deck of less than ten cards gets more afterwards:
\* the section's own top-up, which has no limit per concept.)
ConceptCapped ==
  pc = "done" => \A c \in ToSet(Concepts) :
    Cardinality({i \in DOMAIN deck : /\ deck[i].concept = c.id
                                    /\ deck[i] \in ToSet(repaired)}) <= MAX_FLASHCARDS_PER_CONCEPT

\* No concept is forgotten: one that gave cards keeps one in the deck, or all it
\* asks is asked there by another, however many cards its siblings gave (as long as
\* an outcome has no more concepts than the 24 cards it is cut to).
NoConceptForgotten ==
  pc = "done" => \A c \in ToSet(Concepts) :
    \/ \E i \in DOMAIN deck : c.id \in {deck[i].concept, deck[i].id.of}
    \/ \A i \in DOMAIN cards : cards[i].id.of = c.id => cards[i].asks \in Asks(deck)

\* A learner is told when an outcome has too few cards: an outcome with less than
\* ten cards has every card it was covered with marked, or has lost one to another
\* outcome that asks the same (needs_more_source is decided before duplicates
\* across outcomes go, and not again for what the section's own top-up brings).
ThinIsMarkedOrShared ==
  pc = "done" => \A o \in ToSet(Outcomes) :
    LET its == CardsOf(deck, o)
    IN  Len(its) < MIN_FLASHCARDS_PER_LEARNING_OUTCOME
        => \/ \A i \in DOMAIN its : its[i].thin \/ its[i] \notin ToSet(repaired)
           \/ \E x \in ToSet(CardsOf(repaired, o)) :
                /\ x.asks \notin Asks(its)
                /\ \E y \in ToSet(deck) : y.asks = x.asks /\ y.outcome # o

\* A formula worth a card whose front, answer, page and words the checks let pass.
Askable(f) == f.good /\ "formula" \notin f.unfit

\* Every askable formula has its question in the deck, also when another formula of
\* the section has the same name, or its own cards for variables are refused.
EveryFormulaAsked ==
  pc = "done" => \A i \in DOMAIN FirstN(section.formulas, 8) :
    Askable(section.formulas[i])
      => \E j \in DOMAIN deck : deck[j].id.of = section.formulas[i].id
                                /\ deck[j].id.kind = "formula"

=============================================================================
