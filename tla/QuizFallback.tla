---------------------------- MODULE QuizFallback ----------------------------
(***************************************************************************)
(* The multiple-choice question question_pipeline.py writes about a piece  *)
(* of course text without a language model, for a text and a sequence      *)
(* index.  The index turns every list the question is made from: templates,*)
(* facts, distractors and the place of the correct option.                 *)
(*                                                                         *)
(* A text is reduced to what the templates look at: the phrases it has,    *)
(* the quizzes printed in a workbook, its sentences, each with subject,    *)
(* verb, object and the phrases in it, and which statements about it are   *)
(* near duplicates.  A written sentence is the template it comes from and  *)
(* what the template was filled with.                                      *)
(***************************************************************************)
EXTENDS Naturals, Sequences, FiniteSets, SequencesExt, Selections

Text(form, of) == [form |-> form, of |-> of]
Fixed(form) == Text(form, << >>)

Numeral(i) == <<"1", "2", "3", "4">>[i]
When(condition, result) == IF condition THEN <<result>> ELSE << >>
Turn(s, n) == s[1 + ((n - 1) % Len(s))]
Rotated(s, n) == [i \in DOMAIN s |-> Turn(s, i + n - 1)]
AtMost(s, n) == SubSeq(s, 1, IF Len(s) < n THEN Len(s) ELSE n)
Position(s, x) == CHOOSE i \in DOMAIN s : s[i] = x /\ \A j \in 1..(i - 1) : s[j] # x

\* Of the elements with the same Key, the first.
Firsts(s, Key(_)) == At(s, {i \in DOMAIN s : \A j \in 1..(i - 1) : Key(s[j]) # Key(s[i])})

Mcq(prompt, options, answer) ==
  [prompt |-> prompt, options |-> options, answer |-> answer, key |-> Position(options, answer)]

RomanOptions == <<Fixed("I only"), Fixed("II only"), Fixed("Both I and II"), Fixed("Neither I nor II")>>
RomanMcq(prompt) == Mcq(prompt, RomanOptions, RomanOptions[1])
PatternedMcqUnrotated(prompt, options, answer, n) ==
  [prompt |-> prompt, options |-> Rotated(options, n), answer |-> answer, key |-> Position(options, answer)]
PatternedMcq(prompt, options, answer, n) == Mcq(prompt, Rotated(options, n), answer)

Plural(subject) == subject \in {"funds", "firms"}

---------------------------------------------------------------------------
\* Facts of a workbook's key concepts.

FactVerbs == {"issue and redeem", "can increase", "can pick", "locks in", "trade", "use", "compare",
              "increase", "reduce", "is", "measure", "remains"}
FourResponses == {"accept", "avoid", "mitigate", "transfer"}

\* A sentence of the text, and a fact made of one: subject, verb and object.
Statement(subject, verb, object) == Text("fact", <<subject, verb, object>>)

\* Which of the answers of _workbook_fact_answer a sentence gets.
Template(q) ==
  LET has(phrases) == phrases \subseteq q.says
  IN Head(When(has({"net asset value"}) /\ q.verb = "issue and redeem", "redeem")
       \o When(has({"fixed number of shares"}), "fixed shares")
       \o When(has({"intraday"}), "intraday")
       \o When(has({"expense ratios"}), "expense ratios")
       \o When(has({"trading costs", "tax"}), "turnover costs")
       \o When(q.verb = "can pick" /\ has(FourResponses), "strategy")
       \o When(q.verb = "locks in" /\ has({"limit upside"}), "upside")
       \o When(q.verb = "remains" /\ has({"spot", "futures"}), "basis")
       \o When(q.verb = "use" /\ has({"related but different asset"}), "related")
       \o <<"pronoun">>)

\* The answer may be a sentence of the text word for word.
FactAnswer(q) ==
  LET own(verb, object) == Statement(q.subject, verb, object)
  IN CASE Template(q) = "redeem" -> own("redeem", "shares at net asset value")
       [] Template(q) = "fixed shares" -> own("issue", "fixed shares that can trade away from NAV")
       [] Template(q) = "intraday" -> own("trade", "intraday on exchanges")
       [] Template(q) = "expense ratios" -> Fixed("Expense ratios, loads, 12b-1 fees, and turnover")
       [] Template(q) = "turnover costs" -> Statement("It", "can increase", "trading costs and taxes")
       [] Template(q) = "strategy" -> own("can", "accept, avoid, mitigate, or transfer risk")
       [] Template(q) = "upside" -> own("locks in", "a sale price but can limit upside")
       [] Template(q) = "basis" -> own("remains", "when spot and futures prices diverge")
       [] Template(q) = "related" -> own("uses", "a futures contract on a related but different asset")
       [] OTHER -> Statement(IF Plural(q.subject) THEN "They" ELSE "It", q.verb, q.object)

FactStem(subject, verb) ==
  CASE verb = "compare" -> Text("What does it compare?", <<subject>>)
    [] verb \in {"increase", "can increase"} -> Text("What can it increase?", <<subject>>)
    [] verb = "reduce" -> Text("What does it reduce?", <<subject>>)
    [] verb = "measure" -> Text("What does it measure?", <<subject>>)
    [] OTHER -> Text("Which statement best describes", <<subject>>)

Fact(q) ==
  [subject |-> q.subject, prompt |-> FactStem(q.subject, q.verb), answer |-> FactAnswer(q), template |-> Template(q), says |-> q.says]

\* The facts that can be asked: no two with one stem, none the printed quiz asks.
Facts(content) ==
  LET usable == Selected(content.sentences, LAMBDA q : q.verb \in FactVerbs /\ "in the quiz" \notin q.says)
      facts == [i \in DOMAIN usable |-> Fact(usable[i])]
  IN AtMost(Firsts(facts, LAMBDA f : f.prompt), 12)

\* What the words of an answer say: those of its template, or the sentence's own behind
\* a pronoun, which hides the subject.
AnswerSays(fact, phrases, template) == fact.template = template \/ (fact.template = "pronoun" /\ phrases \subseteq fact.says)
AboutStrategy(fact) == AnswerSays(fact, FourResponses, "strategy")
AboutAppetite(fact) == AnswerSays(fact, {"willingness to retain risk"}, "appetite")
AboutBasis(fact) ==
  IF fact.template = "pronoun" THEN "basis risk" \in fact.says
  ELSE fact.answer.form = "fact" /\ fact.answer.of[1] = "basis risk"

Topic(fact) ==
  Head(When(AboutStrategy(fact), "strategy") \o When(AboutAppetite(fact), "appetite")
       \o When(AnswerSays(fact, {"sale price", "limit upside"}, "upside"), "upside")
       \o When(AnswerSays(fact, {"spot", "futures"}, "basis"), "basis")
       \o When(AnswerSays(fact, {"related but different asset"}, "related"), "related")
       \o <<"funds">>)

\* The stem of a fact question: one of three, by the sequence index.
FactPrompt(fact, example, n) ==
  LET base == IF example.best THEN Text("Which statement best describes", <<fact.subject>>) ELSE fact.prompt
      variants == IF AboutStrategy(fact)
                    THEN <<Fixed("Which statement best describes the risk-management strategy choices?"),
                           Fixed("A firm is choosing how to respond to a risk exposure."),
                           Fixed("Which choice correctly identifies the main risk response categories?")>>
                  ELSE IF AboutAppetite(fact)
                    THEN <<Fixed("Which statement about a firm's risk appetite is correct?"),
                           Fixed("Which choice best describes risk appetite?"),
                           Fixed("Which statement correctly applies the concept of risk appetite?")>>
                  ELSE <<base, Text("Which choice is most accurate about", <<fact.subject>>),
                         Text("Which statement correctly applies", <<fact.subject>>)>>
  IN Turn(variants, n)

\* What fills up the distractors when the other facts are too few, by what the
\* answer says.
Pool(name) == [i \in 1..4 |-> Text("pool", <<name, Numeral(i)>>)]
FallbackDistractors(fact) == Pool(Topic(fact))

\* First the answers of the other facts, whatever they say of the same subject.
FactDistractors(fact, facts, examples) ==
  LET printed == UNION {examples[i].options : i \in DOMAIN examples}
      answers == [i \in DOMAIN facts |-> facts[i].answer]
      others == Selected(answers, LAMBDA a : a \notin printed)
      wrong == Selected(others \o FallbackDistractors(fact), LAMBDA a : a # fact.answer)
  IN AtMost(Firsts(wrong, LAMBDA a : a), 3)

\* _assemble_workbook_options: the distractors turn by three, the answer by four.
WorkbookOptions(answer, distractors, n) == InsertAt(Rotated(distractors, n), 1 + ((n - 1) % 4), answer)

IsRoman(example) == "roman_statement" \in example.style

\* The answer with the subject in the place of a pronoun, and what is said falsely of it.
TrueStatement(fact) ==
  <<fact.subject>> \o (IF fact.template = "expense ratios" THEN <<"compare", fact.answer.form>> ELSE Tail(fact.answer.of))
FalseStatement(fact) ==
  <<fact.subject, Head(When(AnswerSays(fact, {"net asset value"}, "redeem"), "always trade away from net asset value")
                       \o When(AnswerSays(fact, {"intraday"}, "intraday"), "cannot trade intraday")
                       \o When(AnswerSays(fact, {"fixed shares"}, "fixed shares"), "continuously issue and redeem shares at NAV")
                       \o When(AnswerSays(fact, {"trading costs"}, "turnover costs"), "eliminates trading costs and taxes")
                       \o <<Topic(fact)>>)>>

\* No question where the two statements are near duplicates.
RomanFactQuestion(content, facts, n) ==
  LET told == <<TrueStatement(Turn(facts, n)), FalseStatement(Turn(facts, n + 1))>>
  IN When(told \notin content.alike,
          RomanMcq(Text("Which of the following statements is correct?", told[1] \o told[2])))

---------------------------------------------------------------------------
\* Questions that are written out in the code and asked of a text about their topic.

AssetPricing == <<
  [prompt |-> Fixed("An analyst reviews asset-pricing model assumptions."), topic |-> "apt factors"],
  [prompt |-> Fixed("A portfolio manager compares CAPM and APT."), topic |-> "capm beta"],
  [prompt |-> Fixed("An analyst reviews changing factor sensitivities."), topic |-> "update betas"]>>
AssetPricingQuestion(n) ==
  LET variant == Turn(AssetPricing, n)
      options == [i \in 1..4 |-> Text(variant.topic, <<Numeral(i)>>)]
  IN PatternedMcq(variant.prompt, options, options[1], n)

Responses == <<Fixed("Accept the exposure"), Fixed("Avoid the exposure"),
               Fixed("Mitigate the exposure"), Fixed("Transfer the exposure")>>
Scenarios == <<Fixed("A food company leaves a small exposure unhedged."), Fixed("A regional lender exits a product line."),
               Fixed("A manufacturer uses forward contracts."), Fixed("An exporter buys insurance.")>>
StrategyQuestion(n) == PatternedMcq(Turn(Scenarios, n), Responses, Turn(Responses, n), n)

AppetiteQuestion == RomanMcq(Fixed("Which statements about risk appetite are correct? I. II."))

FundQuestion(n) ==
  LET options == [i \in 1..4 |-> Text("fund structures", <<Numeral(i)>>)]
  IN PatternedMcq(Fixed("Which statement is least accurate regarding fund structures?"), options, options[3], n)

BasisQuestion(n) ==
  LET options == [i \in 1..4 |-> Text("short hedge", <<Numeral(i)>>)]
  IN IF n % 2 = 0
       THEN PatternedMcq(Fixed("Which statement best describes the cost of a short futures hedge?"), options, options[1], n)
       ELSE RomanMcq(Fixed("Which situations describe a hedge with meaningful basis risk? I. II."))

HasStrategy(content) == FourResponses \subseteq content.phrases
HasFunds(content) == {"open-end", "closed-end"} \subseteq content.phrases /\ content.phrases \cap {"exchange-traded", "etf"} # {}
HasBasis(content) == "basis risk" \in content.phrases /\ content.phrases \cap {"futures", "hedge"} # {}

Patterned(content, facts, example, n) ==
     When(IsRoman(example) /\ "risk appetite" \in content.phrases, AppetiteQuestion)
  \o When("negative_selection" \in example.style /\ HasFunds(content), FundQuestion(n))
  \o When(IsRoman(example) /\ HasBasis(content), BasisQuestion(n))
  \o When(HasStrategy(content), StrategyQuestion(n))
  \o When(HasBasis(content) /\ \E i \in DOMAIN facts : AboutBasis(facts[i]), BasisQuestion(n))

---------------------------------------------------------------------------
\* Questions in the style of a workbook's module quizzes; << >> when there is none.

FactQuestion(content, n) ==
  LET facts == Facts(content)
      example == Turn(content.examples, n)
      fact == Turn(facts, n)
      distractors == FactDistractors(fact, facts, content.examples)
      options == WorkbookOptions(fact.answer, distractors, n)
      fromFacts == (IF IsRoman(example) /\ Len(facts) >= 2 THEN RomanFactQuestion(content, facts, n) ELSE << >>)
                \o When(Len(distractors) = 3,
                     [prompt |-> FactPrompt(fact, example, n), options |-> options, answer |-> fact.answer, key |-> 1 + ((n - 1) % 4)])
  IN IF facts = << >> THEN << >> ELSE Patterned(content, facts, example, n) \o fromFacts

\* A text whose facts gave no question: one of three stems over four fixed options.
ConceptGroups(content) ==
     When({"short hedge", "basis risk"} \subseteq content.phrases /\ content.phrases \cap {"cross hedge", "futures"} # {}, "basis")
  \o When(HasStrategy(content), "responses")
  \o When(content.phrases \cap {"forward contracts", "futures contracts", "options", "swaps"} # {}, "instruments")
ConceptQuestion(group, n) ==
  LET stems == [i \in 1..3 |-> Text("concept stem", <<group, Numeral(i)>>)]
      options == [i \in 1..4 |-> Text("concept option", <<group, Numeral(i)>>)]
  IN PatternedMcq(Turn(stems, n), options, options[1], n)

WorkbookQuestion(content, n) ==
  LET groups == ConceptGroups(content)
  IN IF content.examples = << >> THEN << >>
     ELSE When(content.phrases \cap {"capm", "apt"} # {}, AssetPricingQuestion(n))
          \o FactQuestion(content, n)
          \o [i \in DOMAIN groups |-> ConceptQuestion(groups[i], n)]

---------------------------------------------------------------------------
\* Questions from the knowledge extracted of any text.

DefiningVerbs == {"is", "are", "means", "refers to"}
ParsedVerbs == DefiningVerbs \cup {"updates", "controls", "uses", "returns", "stores", "creates", "moves", "produces", "performs"}
NoSentence(content) == [subject |-> content.title, verb |-> "none", object |-> "no usable teaching content", says |-> {}]

\* The title is in the sentence, in its own spelling or with other capitals.
Names(q) == q.says \cap {"the title", "the title respelled"} # {}

Definition(content) ==
  LET defines(q) == ({q.verb} \cup q.says) \cap {"is", "means", "refers to"} # {}
  IN Head(Selected(content.sentences, LAMBDA q : defines(q) /\ Names(q))
       \o Selected(content.sentences, defines) \o content.sentences \o <<NoSentence(content)>>)

UniqueTrimmed(sentences, limit) == AtMost(Firsts(sentences, LAMBDA q : q), limit)

KeyPoints(content) ==
  LET others == Selected(content.sentences, LAMBDA q : q # Definition(content))
      reasons == Selected(others, LAMBDA q : "because" \in q.says)
  IN IF content.sentences = << >> THEN <<NoSentence(content)>>
     ELSE UniqueTrimmed(IF reasons = << >> THEN others ELSE reasons, 4)

Confusions(content) ==
  UniqueTrimmed(Selected(content.sentences, LAMBDA q :
    q.says \cap {"not", "versus"} # {} \/ (~Names(q) /\ "statement" \in q.says)), 3)
Examples(content) == Selected(content.sentences, LAMBDA q : "example" \in q.says)
TestableFacts(content) ==
  IF content.sentences = << >> THEN <<NoSentence(content)>>
  ELSE UniqueTrimmed(<<Definition(content)>> \o KeyPoints(content)
                     \o Selected(content.sentences, LAMBDA q : "only" \in q.says \/ q.verb \in {"returns", "controls", "creates", "stores"}), 4)

Paraphrase(q) == Statement(q.subject, q.verb, q.object)
Object(q) == Text("object", <<q.object>>)
\* _negate_or_shift: a sentence with a "not" of its own, or one in which the title
\* is spelled otherwise, is offered as it stands.
Shifted(content, q) ==
  IF q.says \cap {"not", "the title respelled"} # {} THEN Paraphrase(q)
  ELSE IF "the title" \in q.says THEN Text("with a not", <<q.subject, q.verb, q.object>>)
  ELSE Text("It is not about", <<content.title>>)
\* _swap_key_terms: replaced by a remark where there is no term to swap.
Swapped(q) ==
  IF "key term" \in q.says THEN Text("swapped", <<q.subject, q.verb, q.object>>)
  ELSE Fixed("It describes a different idea than the concept")

Distractors(content, answer) ==
  LET confusions == Confusions(content)
      points == Selected(KeyPoints(content), LAMBDA q : Paraphrase(q) # answer)
  IN [i \in DOMAIN confusions |-> Shifted(content, confusions[i])] \o [i \in DOMAIN points |-> Swapped(points[i])] \o Pool("generic")

\* A question before its options are in place: what it asks, its answer, wrong answers.
Draft(prompt, answer, wrong) == [prompt |-> prompt, answer |-> answer, wrong |-> wrong]

\* _build_mcq_from_fact: the stem and three fixed distractors belong to the verb.
FactDraft(content, q) ==
  LET about(stem, wrong) == Draft(Text(stem, <<q.subject>>), Object(q), Pool(wrong))
  IN CASE q.verb \in {"controls", "produces", "performs", "uses"} -> about("What does it " \o q.verb, q.verb)
       [] q.verb = "updates" -> Draft(Text("How does it update", <<q.subject, q.object>>), Object(q), Pool("updates"))
       [] q.verb \in DefiningVerbs -> about("Which statement best defines", "is")
       [] OTHER -> Draft(Text("Which statement is most accurate about", <<content.title>>), Paraphrase(q),
                         Distractors(content, Paraphrase(q)))

\* No verb to ask about: the sequence index chooses what is asked.
ConceptDraft(content, n) ==
  LET confusions == Confusions(content)
      defined == Paraphrase(Definition(content))
      name == Text("name", <<content.title>>)
  IN Head(When(confusions # << >> /\ n % 3 = 0,
               Draft(Text("Which statement correctly distinguishes", <<content.title>>), defined,
                     [i \in DOMAIN confusions |-> Shifted(content, confusions[i])]))
       \o When(Examples(content) # << >> /\ n % 3 = 1,
               Draft(Fixed("Which concept is illustrated by the example?"), name, Distractors(content, name)))
       \o <<Draft(Text("Which statement best defines", <<content.title>>), defined, Distractors(content, defined))>>)

AssembledOptions(draft, n) ==
  LET wrong == AtMost(Firsts(Selected(draft.wrong, LAMBDA w : w # draft.answer), LAMBDA w : w), 3)
      filled == wrong \o [i \in 1..(3 - Len(wrong)) |-> Text("Incorrect interpretation", <<Numeral(Len(wrong) + i)>>)]
  IN InsertAt(filled, 1 + ((n - 1) % 4), draft.answer)

KnowledgeQuestion(content, n) ==
  LET fact == Turn(TestableFacts(content), n)
      draft == IF fact.verb \in ParsedVerbs THEN FactDraft(content, fact) ELSE ConceptDraft(content, n)
  IN Mcq(draft.prompt, AssembledOptions(draft, n), draft.answer)

\* generateExamStyleQuestion: in the workbook's style where there is a quiz to
\* follow, else from the knowledge.
Fallback(content, n) == Head(WorkbookQuestion(content, n) \o <<KnowledgeQuestion(content, n)>>)
=============================================================================
