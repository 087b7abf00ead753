----------------------------- MODULE QuizQuality -----------------------------
(***************************************************************************)
(* The two judgements of a question before a quiz takes it: validateQuestion*)
(* marks it against the text it is about, _annotate_question_quality puts   *)
(* that mark and the score of the quality model together.  Scores are in    *)
(* hundredths; the combined score, a mean, is kept doubled.                 *)
(***************************************************************************)
EXTENDS QuizFallback

\* What the wording alone brings up (words, lengths, copies of the source), of one part
\* of a question: its stem, an option, its rationale, or the whole of it.
Parts == {"stem", "A", "B", "C", "D", "rationale", "question"}
Note(part, note) == [part |-> part, note |-> note]

\* The style of a stem, where it has one that counts for the format of a workbook.
\* A stem that says "statement is" is taken for a review of quotes.
Style(prompt) ==
  LET of(forms) == prompt.form \in forms
      oneOf(list) == prompt \in {list[i] : i \in DOMAIN list}
      stem(which) == prompt = Text("concept stem", which)
      when(condition, style) == IF condition THEN {style} ELSE {}
      roman == of({"Which statements about risk appetite are correct? I. II.", "Which of the following statements is correct?",
                   "Which situations describe a hedge with meaningful basis risk? I. II."})
      asset == \E i \in DOMAIN AssetPricing : AssetPricing[i].prompt = prompt
      compared == asset \/ of({"A firm is choosing how to respond to a risk exposure."})
                  \/ stem(<<"responses", "2">>) \/ stem(<<"instruments", "2">>)
  IN when(roman, "roman_statement")
     \cup when(compared \/ oneOf(Scenarios) \/ (roman /\ ~of({"Which of the following statements is correct?"})), "scenario_application")
     \cup when(of({"Which statement is least accurate regarding fund structures?"}), "negative_selection")
     \cup when(compared \/ of({"Which statement is least accurate regarding fund structures?", "Which statement is most accurate about"}), "quote_review")

FormatStyles == {"scenario_application", "roman_statement", "negative_selection", "calculation"}
RequiredStyles == FormatStyles \cup {"quote_review"}

\* A stem of at most seven words and no style: a subject has two words, a plural one has one.
Shallow(prompt) ==
  /\ Style(prompt) \cap FormatStyles = {}
  /\ \/ prompt.form \in {"Which statement best describes", "Which statement correctly applies", "Which statement best defines",
                          "Which choice best describes risk appetite?", "Which statement correctly distinguishes",
                          "Which concept is illustrated by the example?", "How does it update",
                          "What does it reduce?", "What can it increase?", "What does it compare?", "What does it measure?",
                          "What does it controls", "What does it produces", "What does it performs"}
     \/ /\ prompt.form \in {"Which choice is most accurate about", "Which statement is most accurate about"}
        /\ Plural(prompt.of[1])

\* _workbook_module_quiz_quality_issues
WorkbookIssues(question, content, wording) ==
  LET printed == UNION {content.examples[i].style : i \in DOMAIN content.examples}
      required == printed \cap RequiredStyles
  IN IF ~content.quiz \/ content.examples = << >> THEN {}
     ELSE {issue \in {"format", "shallow", "clipped", "terms missing"} :
             CASE issue = "format" -> required # {} /\ Style(question.prompt) \cap required = {}
               [] issue = "shallow" -> Shallow(question.prompt)
               [] OTHER -> Note("question", issue) \in wording}

FourDistinct(options) == Len(options) = 4 /\ \A i, j \in 1..4 : options[i] = options[j] => i = j

\* One stem that a template may write is itself taken for filler.
Worded(question, wording) ==
  wording \cup (IF question.prompt = Text("Which statement best describes", <<"firms">>) THEN {Note("stem", "filler")} ELSE {})

Notes(question, content, wording) ==
  ({w.note : w \in Worded(question, wording)} \ {"terms missing", "clipped"})
  \cup WorkbookIssues(question, content, wording)
  \cup (IF Len(question.options) = 4 THEN {} ELSE {"not four"})
  \cup (IF IsInjective(question.options) THEN {} ELSE {"duplicated"})
  \cup (IF content.label = "testable" THEN {} ELSE {"weak source"})

\* Each part that has a note costs its points.
Mark(question, content, wording) ==
  LET parts(note) == Cardinality({p \in Parts : Note(p, note) \in Worded(question, wording)})
      cost(note, points) == IF note \in Notes(question, content, wording) THEN points ELSE 0
      issues == Cardinality(WorkbookIssues(question, content, wording))
      lost == 50 * parts("administrative") + 45 * parts("copies the quiz") + 40 * parts("filler")
              + 25 * parts("metadata") + 25 * parts("retrieval check") + 20 * parts("too close")
              + 20 * parts("option too long") + 18 * parts("copies the source") + 15 * parts("stem too long")
              + cost("not four", 40) + cost("weak source", 35) + cost("duplicated", 25)
              + (IF issues <= 2 THEN 25 * issues ELSE 55)
  IN IF lost > 100 THEN 0 ELSE 100 - lost

Accepted(question, content, wording) ==
  /\ Mark(question, content, wording) >= 68
  /\ WorkbookIssues(question, content, wording) = {}
  /\ \A w \in wording : w.note # "administrative"

---------------------------------------------------------------------------

\* The notes with one of the SERIOUS_QUALITY_NOTE_FRAGMENTS in them.
SeriousNotes == {"administrative", "duplicated", "format", "clipped", "filler", "metadata"}

\* What score_generated_question does: it scores with the PyTorch model or, without
\* one, with the heuristic, or it raises and the question goes on without a score.
Sources == {"pytorch", "heuristic", "raised"}
Unscored == [source |-> "raised", low |-> FALSE, serious |-> FALSE, accepted |-> FALSE]

Annotated(question, content, wording, score, enableTorch) ==
  LET doubled == score.points + Mark(question, content, wording)
      gate == IF score.source = "pytorch" THEN score.points >= 45 ELSE ~enableTorch
      serious == Notes(question, content, wording) \cap SeriousNotes # {}
  IN IF score.source = "raised" THEN Unscored
     ELSE [source |-> score.source,
           low |-> ~gate \/ doubled < 90,
           serious |-> serious,
           accepted |-> gate /\ ~serious /\ ((Accepted(question, content, wording) /\ doubled >= 100) \/ doubled >= 140)]

RejectedWhenLow(verdict) == verdict.source # "raised" /\ verdict.low

\* _quality_rejection_reason: what was not scored is not rejected.
Rejected(verdict) ==
  /\ verdict.source # "raised"
  /\ ~verdict.accepted
  /\ verdict.low \/ verdict.serious
=============================================================================
