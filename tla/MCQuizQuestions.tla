--------------------------- MODULE MCQuizQuestions ---------------------------
(* A small course for QuizQuestions: notes with two or three facts, a section
   too poor for four different questions, and workbook sections in three styles,
   one of them cut so that its quiz is not in the chunk. *)
EXTENDS QuizQuestions

Sentence(subject, verb, object, says) == [subject |-> subject, verb |-> verb, object |-> object, says |-> says]
Quiz(style, best) == <<[style |-> style, best |-> best, options |-> {Text("It", <<"is", "printed">>)}]>>
Notes0(title, label, sentences) ==
  [title |-> title, label |-> label, quiz |-> FALSE, examples |-> << >>, phrases |-> {}, sentences |-> sentences, alike |-> {}]
Workbook(title, style, best, phrases, sentences) ==
  [title |-> title, label |-> "testable", quiz |-> TRUE, examples |-> Quiz(style, best), phrases |-> phrases, sentences |-> sentences, alike |-> {}]

Stacks == Notes0("stacks", "testable",
  <<Sentence("a stack", "is", "last in, first out", {"the title"}), Sentence("pop", "returns", "the top", {"key term"}),
    Sentence("a queue", "stores", "in order", {"not"})>>)
Poor == Notes0("overview", "weak", <<Sentence("this part", "none", "introduces", {})>>)
Basis == Workbook("basis risk", {"roman_statement"}, FALSE, {"basis risk", "futures", "short hedge"},
  <<Sentence("basis risk", "remains", "apart", {"spot", "futures"}), Sentence("a cross hedge", "use", "another asset", {"related but different asset"})>>)
Pricing == Workbook("asset pricing", {"scenario_application"}, FALSE, {"capm"},
  <<Sentence("market beta", "measure", "systematic risk", {})>>)
Funds == Workbook("mutual funds", {}, TRUE, {"open-end"},
  <<Sentence("closed-end funds", "trade", "away from value", {"intraday"}), Sentence("an open-end fund", "issue and redeem", "shares", {"net asset value"}),
    Sentence("high turnover", "increase", "costs", {"trading costs", "tax"}), Sentence("firms", "is", "printed", {})>>)

\* Its two facts say nearly the same in one of the two orders, and its first fact is a sentence
\* of the text word for word, offered as a wrong option of the other.
Forward == Sentence("a forward", "locks in", "a sale price but can limit upside", {"sale price", "limit upside"})
Swap == Sentence("a swap", "reduce", "the exposure", {})
Hedging ==
  [Workbook("hedging", {"roman_statement"}, FALSE, {"swaps"}, <<Swap, Forward>>)
   EXCEPT !.alike = {<<TrueStatement(Fact(Swap)), FalseStatement(Fact(Forward))>>}]
Instruments == Workbook("instruments", {"scenario_application"}, FALSE, {"swaps"}, << >>)
Appetite == Workbook("risk appetite", {"roman_statement"}, FALSE, {"risk appetite"},
  <<Sentence("risk appetite", "is", "willingness", {"willingness to retain risk"})>>)
Structures == Workbook("fund structures", {"negative_selection"}, FALSE, {"open-end", "closed-end", "etf"},
  <<Sentence("etf shares", "trade", "all day", {"intraday"})>>)
Strategy == Workbook("risk appetite", {"scenario_application"}, FALSE, FourResponses,
  <<Sentence("firms", "can pick", "a response", FourResponses)>>)

CONSTANTS c1, c2, c3, c4, c5, c6, c7, c8, c9, c10

MCCut == [c \in Chunks |-> CASE c = c1 -> Stacks [] c = c2 -> Poor [] c = c3 -> Basis [] c = c4 -> Pricing
                             [] c = c5 -> [Funds EXCEPT !.quiz = FALSE, !.examples = << >>]
                             [] c = c6 -> Hedging [] c = c7 -> Instruments [] c = c8 -> Appetite
                             [] c = c9 -> Structures [] c = c10 -> Strategy]
MCWhole == [MCCut EXCEPT ![c5] = Funds]
MCMaterialOf == [c \in Chunks |-> IF c \in {c1, c2} THEN "notes" ELSE "book"]
MCSectionOf == [c \in Chunks |-> c]
\* No chunk names a learning objective, and two sections of the book have one title.
MCKeyOf == [c \in Chunks |-> <<MCMaterialOf[c], MCCut[c].title>>]
MCShortAnswers ==
  {Fixed("I only"), Text("name", <<"stacks">>), Text("name", <<"overview">>), Text("object", <<"the top">>), Text("object", <<"in order">>)}
MCRankings == {<<c1, c3, c5, c4, c2, c6, c7, c8, c9, c10>>, <<c2, c4, c1, c3, c5, c10, c9, c8, c7, c6>>}
Ask(count, sources, materials) ==
  [count |-> count, topK |-> 4, sources |-> sources, sections |-> {}, materials |-> materials]
MCRequests == {Ask(3, {}, {}), Ask(3, {c1}, {}), Ask(3, {c3}, {}), Ask(2, {c5}, {}), Ask(3, {}, {"book"}), Ask(2, {c2}, {}), Ask(3, {c3, c4}, {}),
               Ask(2, {c6}, {}), Ask(2, {c7}, {}), Ask(3, {c8, c9, c10}, {})}
MCScores == {[source |-> "pytorch", points |-> 90], [source |-> "pytorch", points |-> 20],
             [source |-> "heuristic", points |-> 90], [source |-> "raised", points |-> 0]}
Payload(name, options, answer, key, wording) ==
  [prompt |-> Text("live", <<name>>), options |-> options, answer |-> answer, key |-> key, wording |-> wording]
Live(i) == Text("live option", <<ToString(i)>>)
MCPayloads ==
  {Payload("a", [i \in 1..4 |-> Live(i)], Live(2), 2, {}),
   Payload("b", [i \in 1..4 |-> Live(5 - i)], Live(3), 2, {}),
   Payload("c", <<Live(1), Live(1), Live(2), Live(3)>>, Live(2), 3, {}),
   Payload("d", [i \in 1..4 |-> Live(i)], Live(2), 0, {}),
   Payload("e", [i \in 1..4 |-> Live(4 + i)], Live(5), 1, {Note("stem", "administrative")})}
MCWordings == {{}, {Note("A", "copies the source"), Note("B", "copies the source")}}
=============================================================================
