---------------------------- MODULE MCStudyCards ----------------------------
(***************************************************************************)
(* Sections for StudyCards: few concepts, each with the texts and the      *)
(* sentences that bring one of the rules of the deck into play.            *)
(***************************************************************************)
EXTENDS StudyCards

CONSTANT Terms

Orders == SetToSeqs(Terms)

Sentence(forms, about, has, verb) ==
  [forms |-> forms, about |-> about, usable |-> TRUE, has |-> has, verb |-> verb]
Is(about) == Sentence({"definition"}, about, {}, "")
Does(about, verb) == Sentence({"verb"}, about, {}, verb)
Plain == Sentence({}, "", {}, "")

Concept(id, outcome, text, sentences, keyTerms, otherTerms) ==
  [id |-> id, outcome |-> outcome, related |-> "key " \o id,
   valid |-> TRUE, spoils |-> FALSE,
   length |-> Len(sentences), text |-> text, sentences |-> sentences, steps |-> 0,
   trap |-> FALSE, topic |-> "", keyTerms |-> keyTerms, otherTerms |-> otherTerms,
   unfit |-> {}]

Formula(id, name, variables) ==
  [id |-> id, name |-> name, good |-> TRUE, concept |-> "k1", variables |-> variables,
   unfit |-> {}]

\* The cards of a concept's text that ask this, under whatever number.
Unfit(id, from, kind, about) ==
  {[id |-> [of |-> id, from |-> from, kind |-> kind, n |-> n], asks |-> Question(kind, about)] :
     n \in 0..10}

Nothing == [Concept("whole", "whole", {}, << >>, << >>, << >>) EXCEPT !.valid = FALSE]

Section(concepts, windows, formulas) ==
  [concepts |-> concepts, windows |-> windows, formulas |-> formulas, whole |-> Nothing,
   unfit |-> << >>]

\* Two outcomes whose texts say the same.
SameText == Section(
  <<Concept("k1", "5.a", {}, <<Is("liquidity")>>, <<"liquidity">>, <<"capital">>),
    Concept("k2", "5.b", {}, <<Is("liquidity")>>, <<"liquidity">>, <<"capital">>)>>,
  << >>, << >>)

\* An outcome whose concepts give more cards than a deck takes; one of them has
\* no term and only steps.
Rich == Section(
  <<Concept("k1", "5.a", {"compounding frequency", "population moments"},
            <<Plain>>, <<"capital">>, << >>),
    [Concept("k2", "5.a", {"central counterparty", "ccp", "interest rate swap", "sofr",
                           "risk management", "risk taking", "conflict", "shareholder"},
             <<Does("hedging", "reduce"), Does("capital", "support")>>,
             <<"hedging">>, << >>) EXCEPT !.trap = TRUE],
    [Concept("k3", "5.a", {}, << >>, << >>, << >>) EXCEPT !.steps = 3, !.topic = ""]>>,
  << >>, << >>)

\* One concept with more cards than a concept may have, and one with terms
\* enough for more generic cards than fit.
Full == Section(
  <<Concept("k1", "5.a", {"compounding frequency", "population moments",
                          "central counterparty", "ccp", "interest rate swap", "sofr"},
            <<Plain>>, <<"capital">>, << >>),
    [Concept("k2", "5.b", {"risk management", "risk taking"},
             <<Does("hedging", "reduce"), Does("capital", "support"), Is("liquidity"),
               Is("duration")>>,
             <<"hedging", "liquidity", "duration", "capital">>, << >>) EXCEPT !.steps = 3,
               !.topic = "rates"]>>,
  << >>, << >>)

\* An outcome of two concepts with little text of their own; the outcome's part
\* of the section says more.
Window1 == [text |-> {"r-squared", "residual", "outlier"},
            sentences |-> <<Does("hedging", "reduce"), Is("capital")>>,
            terms |-> <<"hedging", "duration">>, spoils |-> FALSE]
Sparse == Section(
  <<Concept("k1", "5.a", {}, <<Is("liquidity"), Does("capital", "absorb")>>,
            << >>, <<"liquidity">>),
    Concept("k2", "5.a", {}, <<Sentence({"includes"}, "hedging", {}, "")>>,
            << >>, <<"hedging", "capital">>)>>,
  [o \in {"5.a"} |-> Window1], << >>)

\* Formulas of one name, few cards, a concept that links to no key concept, and
\* a process in steps.  A formula with a plural name gets no question of its own,
\* though its variables do; of another the cards of its variables are refused.
Formulas == Section(
  <<[Concept("k1", "5.a", {"expected loss"}, <<Is("liquidity")>>, <<"liquidity">>, << >>)
       EXCEPT !.related = "none"],
    [Concept("k2", "k2", {}, << >>, << >>, << >>) EXCEPT !.steps = 2, !.topic = "hedging"]>>,
  << >>,
  <<Formula("f1", "expected loss", <<"pd", "lgd">>),
    Formula("f2", "expected loss", <<"pd", "ead">>),
    [Formula("f3", "if rates rise", << >>) EXCEPT !.good = FALSE],
    [Formula("f4", "total sum of squares", <<"n">>) EXCEPT !.unfit = {"formula"}],
    [Formula("f5", "expected loss", <<"pd", "lgd">>) EXCEPT !.unfit = {"pd", "lgd"}]>>)

\* Texts whose words are refused: many of one concept's cards, and some of those that
\* the joined texts of its outcome would add.
Pageless == [Section(
  <<[Concept("k1", "5.a", {"compounding frequency"}, <<Is("liquidity")>>, <<"liquidity">>,
             <<"capital">>) EXCEPT !.unfit =
       UNION {Unfit("k1", from, kind, about) :
                from \in {"minimum", "term"}, about \in {"liquidity", "capital"},
                kind \in {"what is", "core-point", "exam-use", "exam-fact", "why-matters"}}],
    Concept("k2", "5.a", {}, <<Plain, Does("hedging", "reduce")>>, << >>, <<"capital">>),
    Concept("k3", "5.b", {}, <<Plain>>, <<"duration">>, <<"capital">>)>>,
  << >>, <<[Formula("f1", "residuals", << >>) EXCEPT !.unfit = {"formula"}]>>) EXCEPT !.unfit =
    [ids \in {<<"k2", "k1">>} |-> Unfit("k2", "minimum", "exam-fact", "capital")
                                 \cup Unfit("k2", "minimum", "why-matters", "liquidity")]]

\* Two concepts of one outcome that link to the same key concept, and whose
\* texts meet generators that ask the same.
Event == {"event space", "random event", "possible outcomes", "independent",
          "mutually exclusive", "independent event", "P(A|B) = P(A)", "p(a|b)"}
Shared == Section(
  <<[Concept("k1", "5.a", Event,
             <<Sentence({"definition"}, "capital", {"article"}, ""), Is("capital")>>,
             <<"capital">>, << >>) EXCEPT !.related = "key"],
    [Concept("k2", "5.a", {"event space"}, <<Is("hedging")>>, <<"hedging">>, << >>)
       EXCEPT !.related = "key"]>>,
  << >>, << >>)

\* No usable concept: the deck is made of the section's own text.
NoConcept == [Section(<<[Concept("k1", "5.a", {}, <<Plain>>, <<"capital">>, << >>)
                           EXCEPT !.valid = FALSE]>>, << >>, << >>)
  EXCEPT !.whole = Concept("whole", "whole", {"bayes", "unconditional probability"},
                           <<Is("hedging"), Does("hedging", "reduce")>>, <<"hedging">>, << >>)]

\* Two concepts of one outcome that share a term, the later one the longer.
Twins == Section(
  <<Concept("k1", "5.a", {}, <<Plain>>, << >>, <<"liquidity">>),
    Concept("k2", "5.a", {}, <<Plain, Plain>>, << >>, <<"liquidity", "capital">>),
    Concept("k3", "5.b", {}, <<Plain>>, <<"duration">>, <<"capital">>)>>,
  << >>, << >>)

\* An outcome whose longest text spoils those it is joined with: it stays thin,
\* and the section's own top-up adds to it.
Spoilt == Section(
  <<[Concept("k1", "5.a", {}, <<Plain, Plain>>, << >>, << >>)
       EXCEPT !.valid = FALSE, !.spoils = TRUE],
    Concept("k2", "5.a", {"interaction term"}, <<Plain>>, << >>, << >>),
    Concept("k3", "5.a", {"independent variable"}, <<Plain>>, << >>, << >>)>>,
  << >>, << >>)

\* For each generator of fixed cards, a concept whose text has all its phrases.
OfFamily(f) == Section(
  <<Concept("k1", "5.a", (UNION f.gate \cup UNION {UNION f.rules[i].when : i \in DOMAIN f.rules})
                           \ f.except, <<Plain>>, << >>, <<"capital">>)>>,
  << >>, << >>)

AllSections == {SameText, Rich, Full, Sparse, Formulas, Pageless, Shared, Twins, Spoilt, NoConcept}
               \cup {OfFamily(f) : f \in ToSet(ProviderFamilies \o AgnosticFamilies)}
=============================================================================
