------------------------------ MODULE CardForms ------------------------------
(***************************************************************************)
(* The flashcards section_study_service.py makes from the form of a        *)
(* sentence.  A sentence is a record:                                      *)
(*   forms   the names of the forms it matches;                            *)
(*   about   its subject, cleaned: what its questions ask about;           *)
(*   usable  the subject is kept and the answer is not rejected;           *)
(*   has     the details some forms look for in it (an article, a value    *)
(*           that is a formula, ...);                                      *)
(*   verb    the base form of its verb, for the form "verb".               *)
(* A form gives entries; an entry names a card and its question, and may   *)
(* ask for details of the sentence or for their absence.                   *)
(***************************************************************************)
EXTENDS Selections, SequencesExt

When(with, without, kind, asks) ==
  [with |-> with, without |-> without, kind |-> kind, asks |-> asks, fixed |-> FALSE]
Entry(kind, asks) == When({}, {}, kind, asks)
\* A question whose words do not depend on the sentence's subject.
Fixed(with, kind, asks) == [When(with, {}, kind, asks) EXCEPT !.fixed = TRUE]
Form(name, entries) == [name |-> name, entries |-> entries]

\* A card of a sentence, and what its text makes of it.
FromEntry(e, s) ==
  [kind |-> IF e.kind = "verb" THEN s.verb ELSE e.kind,
   question |-> IF e.asks = "verb" THEN s.verb ELSE e.asks,
   about |-> IF e.fixed THEN "" ELSE s.about,
   score |-> IF e.asks = "what is" THEN IF "article" \in s.has THEN 4 ELSE 2 ELSE 0]

CardsOfForm(form, s) ==
  IF ~s.usable THEN << >>
  ELSE LET given == Selected(form.entries, LAMBDA e : e.with \subseteq s.has
                                                   /\ e.without \cap s.has = {})
       IN  [i \in DOMAIN given |-> FromEntry(given[i], s)]

\* The first form the sentence matches decides, even when it gives no card.
FirstOf(table, s) ==
  LET matched == Selected(table, LAMBDA f : f.name \in s.forms)
  IN  IF matched = << >> THEN << >> ELSE CardsOfForm(matched[1], s)

\* Every form the sentence matches adds its cards.
EachOf(table, s) ==
  LET matched == Selected(table, LAMBDA f : f.name \in s.forms)
  IN  FlattenSeq([i \in DOMAIN matched |-> CardsOfForm(matched[i], s)])

------------------------------------------------------------------------------
\* The forms of _top_up_flashcards_from_sentence, in the order they are tried.
\* A sentence "X uses Y to Z" also is one "X uses Y", and "X is estimated from",
\* "is the ratio of" and "are written" are definitions, "creates" a verb: the
\* later entry of each of these pairs never decides.
DefinitionForms == <<
  Form("command", << >>),
  Form("definition", << Entry("definition", "what is") >>),
  Form("occurs when", << Entry("occurs-when", "when does it occur"),
                         Entry("occurs-definition", "what is") >>) >>

PurposeForms == <<
  Form("attempts to", << Entry("attempt-to", "verb") >>),
  Form("uses", << When({}, {"independent variables"}, "uses-direct", "what does it use"),
                  When({"independent variables"}, {}, "uses-direct", "how many variables") >>),
  Form("can estimate", << Entry("can-estimate", "what can it estimate") >>) >>

UseForms == <<
  Form("depends on", << When({}, {"model choice"}, "depends-on", "what does it depend on"),
                        Fixed({"model choice"}, "depends-on", "what determines the model") >>),
  Form("uses to", << Entry("uses", "what is"), Entry("uses-inputs", "what inputs") >>),
  Form("metric", << Entry("metric", "what is the metric"),
                    When({"formula"}, {}, "metric-formula", "what formula gives the metric") >>) >>

ConditionForms == <<
  Form("counts", << Entry("counts", "what does it count") >>),
  Form("used when", << Entry("used-when", "when is it used"),
                       When({"conditions"}, {}, "conditions", "what conditions") >>) >>

\* translate ... into ..., give the holder the right, give holders rights, or
\* the verb itself.
VerbForms == <<
  Form("verb", << When({"into"}, {}, "translate-into", "what is it translated into"),
                  When({"holder right"}, {}, "holder-right", "what right"),
                  When({"holders rights"}, {"holder right"}, "holders-rights", "what rights"),
                  When({}, {"translates", "holder right", "holders rights"}, "verb", "verb") >>) >>

MeaningForms == <<
  Form("written", << Entry("written", "what is") >>),
  Form("has", << Entry("has", "what is"),
                 When({"success probability"}, {}, "success-probability", "what is p") >>),
  Form("means", << Entry("means", "what is") >>),
  Form("assumes", << Entry("assumes", "what does it assume") >>) >>

LateForms == <<
  Form("estimated from", << Entry("estimated-from", "how is it estimated") >>),
  Form("ratio of", << Entry("ratio", "what is") >>),
  Form("creates", << Entry("creates", "create") >>),
  Form("must be rebalanced", << Entry("rebalanced", "why rebalance") >>),
  Form("cannot occur together", << Entry("cannot-occur", "what is") >>) >>

LastForms == <<
  Form("do not change", << Entry("do-not-change", "what is") >>),
  Form("includes", << Entry("includes", "what does it include") >>) >>

TopUpForms == DefinitionForms \o PurposeForms \o UseForms \o ConditionForms \o VerbForms
              \o MeaningForms \o LateForms \o LastForms

------------------------------------------------------------------------------
\* The forms of _learning_outcome_anchor_top_up_flashcards: each one a sentence
\* matches adds cards.  The first table comes before the fixed cards of the
\* generator, the second after them.
FormulaInputForms == <<
  Form("formula uses", <<
    Entry("formula-inputs", "what inputs does it use"),
    Fixed({"expected loss"}, "expected-loss-inputs", "what inputs of expected loss"),
    Fixed({"expected loss"}, "expected-loss-formula-concept", "lo-anchor-expected-loss-formula") >>) >>

PortfolioForms == <<
  Form("consider", <<
    Entry("consider-factors", "what factors"),
    When({"concentration risk"}, {}, "concentration-risk-factor", "why concentration risk"),
    Fixed({"concentration risk"}, "credit-portfolio-borrowers-factor", "why borrowers"),
    Fixed({"concentration risk"}, "credit-portfolio-default-correlation-factor",
         "why default correlations"),
    Fixed({"concentration risk"}, "credit-portfolio-concentration-risk-factor",
         "what role of concentration") >>),
  Form("measures how", <<
    Entry("correlation-measure", "measure"),
    Fixed({"default correlation"}, "default-correlation-indicate",
         "what default correlations indicate") >>),
  Form("higher reduces", <<
    Entry("higher-correlation-diversification", "how higher reduces"),
    Fixed({}, "default-correlation-exam-trap", "why higher default correlations"),
    Fixed({}, "default-correlation-portfolio-losses", "how default correlations affect losses"),
    Fixed({}, "default-correlation-diversification-trap", "trap of default correlations") >>) >>

RiskForms == <<
  Form("higher increases", <<
    Entry("higher-correlation-tail-risk", "how higher increases"),
    Entry("higher-correlation-diversification-benefits", "how higher reduces"),
    Fixed({"default correlation"}, "default-correlation-tail-risk-trap",
         "why higher default correlations") >>),
  Form("credit models use", << Fixed({}, "credit-portfolio-model-inputs", "what do credit models use"),
                               Fixed({}, "credit-portfolio-model-purpose", "why credit models") >>),
  Form("compensate", << Entry("credit-spreads-compensate", "what compensate for") >>),
  Form("increases when", << Entry("risk-increases-when", "when does it increase") >>) >>

------------------------------------------------------------------------------
\* _sentence_level_flashcards_from_concept: a definition, else a list of items.
SentenceForms == <<
  Form("definition", << Entry("sentence-definition", "what is") >>),
  Form("includes", << Entry("sentence-include", "what does it include") >>) >>
=============================================================================
