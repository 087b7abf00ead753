---------------------------- MODULE QuizQuestions ----------------------------
(***************************************************************************)
(* QuizService.generate_quiz: the plan of a quiz from retrieved chunks, up *)
(* to four tries for each of its questions (the first of them with the     *)
(* language model), and the session that is stored when all are there.     *)
(*                                                                         *)
(* A request runs in one thread; meanwhile materials may be deleted, and a *)
(* try reads the parsed documents anew.                                    *)
(***************************************************************************)
EXTENDS QuizQuality

CONSTANTS
    Chunks,      \* the chunks of the course's vector index
    Cut,         \* the text of a chunk
    Whole,       \* the text of the section a chunk is cut from
    MaterialOf, SectionOf,
    KeyOf,       \* file name, section title and learning objective of a chunk
    Tagged,      \* chunks with a workbook_block_type
    Rankings,    \* orders in which retrieval may rank the chunks
    Requests,
    Payloads,    \* what the language model may answer
    Wordings,    \* what the wording of a question without a model may bring up
    ShortAnswers, \* answers of fewer than three words
    Scores,      \* what scoring a question may give
    LiveModel,   \* a language model is configured
    EnableTorch, \* enable_torch
    MaxChunks,   \* max_chunks_per_retrieval
    MaxQuizzes   \* bound: requests

ASSUME BoundsAssumption == MaxChunks \in Nat \ {0} /\ MaxQuizzes \in Nat

ASSUME RequestsAssumption == \A r \in Requests : r.count \in Nat \ {0} /\ r.topK \in Nat

ASSUME RankingsAssumption == Rankings \subseteq Seq(Chunks)

ASSUME ScoresAssumption ==
    \A s \in Scores : s.source \in Sources /\ s.points \in 0..100

ASSUME TextsAssumption ==
    \A c \in Chunks : \A text \in {Cut[c], Whole[c]} : text.sentences \in Seq(ToSet(text.sentences))

VARIABLES
    documents,  \* materials whose parsed document is stored
    request,    \* the request in work, << >> when there is none
    hits,       \* the selected hits, one for each question
    asked,      \* the questions made so far
    try,        \* attempt_index of the next try
    seen,       \* QuizUniquenessState
    sessions,   \* the stored quiz sessions
    refused     \* requests that ended in a MaterialIngestionError

vars == <<documents, request, hits, asked, try, seen, sessions, refused>>

Materials == {MaterialOf[c] : c \in Chunks}
NothingSeen == [prompts |-> {}, options |-> {}, answers |-> {}]

Init ==
    /\ documents = Materials
    /\ request = << >> /\ hits = << >> /\ asked = << >> /\ try = 0
    /\ seen = NothingSeen
    /\ sessions = << >> /\ refused = 0

---------------------------------------------------------------------------
\* The plan.

\* A request names sources, or a scope of sections or of materials; a scope of
\* materials means the sections of their documents.
SelectedSources(r) ==
    IF r.sources # {} THEN r.sources
    ELSE IF r.sections # {} THEN r.sections
    ELSE {SectionOf[c] : c \in {d \in Chunks : MaterialOf[d] \in r.materials \cap documents}}

BoundedRetrievalTopK(r) ==
    LET wanted == IF r.topK < r.count THEN r.count ELSE r.topK
    IN IF wanted < MaxChunks THEN wanted ELSE MaxChunks

\* RetrievalService.query: of the sources asked for, or of all when none is; the
\* testable ones, if there are any, else the weak ones.
Retrieved(r, ranking) ==
    LET sources == SelectedSources(r)
        ranked == Selected(ranking, LAMBDA c : MaterialOf[c] \in documents /\ (sources = {} \/ SectionOf[c] \in sources))
        best == AtMost(ranked, BoundedRetrievalTopK(r))
        labelled(label) == Selected(best, LAMBDA c : Cut[c].label = label)
    IN IF labelled("testable") # << >> THEN labelled("testable") ELSE labelled("weak")

\* _select_hits: one chunk for each key, then the same ones again in turn.
SelectHits(r, found) ==
    LET strict == SelectedSources(r) # {}
        usable == Selected(found, LAMBDA c : IF strict THEN Cut[c].label = "testable" ELSE Cut[c].label # "administrative")
        selected == AtMost(Firsts(usable, LAMBDA c : KeyOf[c]), r.count)
    IN IF selected = << >> THEN << >> ELSE [i \in 1..r.count |-> Turn(selected, i)]

Plan(r, ranking) ==
    LET selected == SelectHits(r, Retrieved(r, ranking))
    IN /\ request = << >>
       /\ Len(sessions) + refused < MaxQuizzes
       /\ IF selected = << >> THEN refused' = refused + 1 /\ UNCHANGED <<request, hits>>
          ELSE request' = <<r>> /\ hits' = selected /\ UNCHANGED refused
       /\ UNCHANGED <<documents, asked, try, seen, sessions>>

---------------------------------------------------------------------------
\* One try.

Hit == hits[Len(asked) + 1]

IndexByTry == Len(asked) + 1 + try

\* The stride of the retries is the length of the quiz.
Index == Len(asked) + 1 + try * Len(hits)

\* _hydrate_full_source_chunk: of a workbook's section, the whole text.
Hydrated(c) == IF MaterialOf[c] \in documents /\ Whole[c].quiz THEN Whole[c] ELSE Cut[c]

\* _hit_uses_workbook_context looks at the chunk as it was retrieved.
InWorkbook(c) == c \in Tagged \/ Cut[c].quiz

Outcome(question, live, verdict) ==
    [id |-> Index, of |-> Hit, try |-> try, question |-> question, live |-> live, verdict |-> verdict]

\* A payload is taken when one of its four different options is named as the correct
\* one; the correct answer it gives besides is not looked at.
ValidPayload(p) == FourDistinct(p.options) /\ p.key \in 1..4

LiveQuestion(p) == [prompt |-> p.prompt, options |-> p.options, answer |-> p.answer, key |-> p.key]

Verdicts(question, wording) == {Annotated(question, Hydrated(Hit), wording, s, EnableTorch) : s \in Scores}

\* A live question is given up for a fallback when validation or the quality gate is
\* against it; one that could not be scored is kept.
LiveOutcomes(p) ==
    IF ValidPayload(p) /\ Accepted(LiveQuestion(p), Hydrated(Hit), p.wording)
      THEN {Outcome(LiveQuestion(p), TRUE, v) : v \in {w \in Verdicts(LiveQuestion(p), p.wording) : w.source = "raised" \/ w.accepted}}
      ELSE {}

FallbackOutcomes(wording) ==
    LET question == Fallback(Hydrated(Hit), Index)
    IN {Outcome(question, FALSE, v) : v \in Verdicts(question, wording)}

\* generate_question_for_hit: the model is asked on the first try only, and whatever
\* goes wrong with it leads to the fallback.
Outcomes ==
    LET answers == IF LiveModel /\ try = 0 THEN Payloads ELSE {}
    IN (UNION {FallbackOutcomes(w) : w \in Wordings}) \cup (UNION {LiveOutcomes(p) : p \in answers})

\* Answers of fewer than three words may be given again.
ThreeWords(answer) == answer \notin ShortAnswers

RepeatedPrompt(o) == o.question.prompt \in seen.prompts

Repeated(o) ==
    \/ o.question.prompt \in seen.prompts
    \/ o.question.options \in seen.options
    \/ ThreeWords(o.question.answer) /\ o.question.answer \in seen.answers

Remembered(o) ==
    [prompts |-> seen.prompts \cup {o.question.prompt},
     options |-> seen.options \cup {o.question.options},
     answers |-> seen.answers \cup {a \in {o.question.answer} : ThreeWords(a)}]

Deliver(o) ==
    /\ asked' = Append(asked, o)
    /\ seen' = Remembered(o)
    /\ try' = 0
    /\ UNCHANGED <<documents, request, hits, sessions, refused>>

Unasked == request # << >> /\ Len(asked) < Len(hits)

Take ==
    /\ Unasked
    /\ \E o \in Outcomes : ~Rejected(o.verdict) /\ ~Repeated(o) /\ Deliver(o)

RetryRemembers ==
    /\ Unasked /\ try < 3
    /\ \E o \in Outcomes : (Rejected(o.verdict) \/ Repeated(o)) /\ seen' = Remembered(o)
    /\ try' = try + 1
    /\ UNCHANGED <<documents, request, hits, asked, sessions, refused>>

Retry ==
    /\ Unasked /\ try < 3
    /\ \E o \in Outcomes : Rejected(o.verdict) \/ Repeated(o)
    /\ try' = try + 1
    /\ UNCHANGED <<documents, request, hits, asked, seen, sessions, refused>>

\* After the fourth try a repeated question is better than none, but not of a workbook.
TakeLast ==
    /\ Unasked /\ try = 3
    /\ ~InWorkbook(Hit)
    /\ \E o \in Outcomes : ~Rejected(o.verdict) /\ Repeated(o) /\ Deliver(o)

EndRequest ==
    /\ request' = << >> /\ hits' = << >> /\ asked' = << >> /\ try' = 0
    /\ seen' = NothingSeen
    /\ UNCHANGED documents

\* MaterialIngestionError: the questions there are go with the request.
GiveUp ==
    /\ Unasked /\ try = 3
    /\ \E o \in Outcomes : Rejected(o.verdict) \/ (Repeated(o) /\ InWorkbook(Hit))
    /\ refused' = refused + 1
    /\ UNCHANGED sessions
    /\ EndRequest

SaveSession ==
    /\ request # << >> /\ Len(asked) = Len(hits)
    /\ sessions' = Append(sessions, [request |-> request[1], hits |-> hits, questions |-> asked])
    /\ UNCHANGED refused
    /\ EndRequest

---------------------------------------------------------------------------
\* Meanwhile: a material is deleted, its parsed document with it.

DeleteMaterial(m) ==
    /\ m \in documents
    /\ documents' = documents \ {m}
    /\ UNCHANGED <<request, hits, asked, try, seen, sessions, refused>>

Next ==
    \/ \E r \in Requests, ranking \in Rankings : Plan(r, ranking)
    \/ Take \/ Retry \/ TakeLast \/ GiveUp
    \/ SaveSession
    \/ \E m \in Materials : DeleteMaterial(m)

Spec == Init /\ [][Next]_vars

---------------------------------------------------------------------------

Quizzes == {asked} \cup {sessions[k].questions : k \in DOMAIN sessions}

\* All or nothing, under retries: a stored quiz has a question of every selected hit,
\* in their order, and no two of them have one id, although the ids of later tries
\* run past the length of the quiz.
SessionsAreWhole ==
    \A k \in DOMAIN sessions :
        LET quiz == sessions[k] IN
        /\ Len(quiz.questions) = quiz.request.count
        /\ \A i \in DOMAIN quiz.questions : quiz.questions[i].of = quiz.hits[i]
        /\ \A i, j \in DOMAIN quiz.questions : quiz.questions[i].id = quiz.questions[j].id => i = j

\* One question repeats another: its prompt, its options in their order or an answer
\* of three words.
Repeats(q, p) ==
    \/ q.prompt = p.prompt
    \/ q.options = p.options
    \/ q.answer = p.answer /\ ThreeWords(q.answer)

\* A question that repeats an earlier one of its quiz was the fourth try, and is not
\* of a workbook chunk.
NothingRepeated ==
    \A quiz \in Quizzes : \A i, j \in DOMAIN quiz :
        i < j /\ Repeats(quiz[j].question, quiz[i].question) => quiz[j].try = 3 /\ ~InWorkbook(quiz[j].of)

\* A candidate that was thrown away leaves no trace: what a later question is compared
\* with are the delivered questions and nothing else.
SeenIsAsked ==
    seen = [prompts |-> {asked[i].question.prompt : i \in DOMAIN asked},
            options |-> {asked[i].question.options : i \in DOMAIN asked},
            answers |-> {asked[i].question.answer : i \in {j \in DOMAIN asked : ThreeWords(asked[j].question.answer)}}]

\* Wherever rotation, insertion and filling up put it, the option that is graded as
\* correct is the answer the question was made with, and the other three differ from it
\* and from each other, whatever the text has to offer for them and however often the
\* question was tried.  (They may well be true: a workbook question offers the answers of
\* other facts, even of the same subject.)
KeyIsTheAnswer ==
    \A quiz \in Quizzes : \A i \in DOMAIN quiz :
        LET q == quiz[i].question
        IN ~quiz[i].live => FourDistinct(q.options) /\ q.options[q.key] = q.answer

\* Where the PyTorch model is required the heuristic alone delivers nothing, and what the
\* model let pass has no serious note against it, retried and last tries included.
OnlyTheModelDelivers ==
    \A quiz \in Quizzes : \A i \in DOMAIN quiz :
        LET v == quiz[i].verdict
        IN v.source # "raised" => (v.source = "heuristic" => ~EnableTorch) /\ ~v.low /\ ~v.serious
=============================================================================
