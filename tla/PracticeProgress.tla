--------------------------- MODULE PracticeProgress ---------------------------
(***************************************************************************)
(* Practice in one course and module: request threads grade quizzes, ask   *)
(* for remediation on concepts they got wrong, delete quizzes and refresh  *)
(* the analytics (QuizService.grade_quiz and generate_remediation, the     *)
(* quiz, activity and analytics stores).                                   *)
(*                                                                         *)
(* Sessions, results, the mastery snapshot and the retry history are files *)
(* that are read, changed in memory and written back; attempts and events  *)
(* are rows; the analytics tables are recomputed from the attempts that    *)
(* carry the course.  Each read and each write is a step.  There is one    *)
(* user: every query of rows selects one.                                  *)
(***************************************************************************)
EXTENDS Naturals, Sequences, FiniteSets

CONSTANTS
    Clients,    \* request threads
    Concepts,
    Quizzes,    \* quizzes generated before
    Asks,       \* the concept each of their questions is about
    MaxPrompt,  \* bound: different questions a concept can be asked with
    MaxNamed,   \* bound: concepts a remediation names
    MaxRequest, \* bound: requests
    MaxKill     \* bound: times the server is killed

ASSUME QuizzesAssumption ==
    /\ Asks \in [Quizzes -> Seq(Concepts) \ {<<>>}]
    /\ Quizzes \cap ((1..MaxRequest) \X Concepts) = {}
    /\ <<>> \notin Quizzes

\* The first eight weak concepts are recommended; no instance has more.
ASSUME ConceptsAssumption == IsFiniteSet(Concepts) /\ Cardinality(Concepts) <= 8

ASSUME BoundsAssumption ==
    /\ MaxPrompt \in Nat
    /\ MaxNamed \in Nat
    /\ MaxRequest \in Nat
    /\ MaxKill \in Nat

VARIABLES
    session,    \* questions of each stored quiz, <<>> if there is no file
    results,    \* what each quiz was last graded with, <<>> if there is no file
    snapshot,   \* the mastery snapshot
    history,    \* the retry history, oldest entry first
    attempts,   \* rows of question_attempts, oldest first
    events,     \* how many rows of each type user_events has
    table,      \* concept_mastery
    advice,     \* recommendation_history: concepts to review
    proc,       \* what each thread is doing
    requests,   \* how many requests there were
    serial,     \* no two requests ever ran at once, and none was killed
    kills

files == <<session, results, snapshot, history>>
rows == <<attempts, events, table, advice>>
vars == <<files, rows, proc, requests, serial, kills>>

\* Requests are numbered; a remediation's quizzes are named after it and their concept.
Remedial == (1..MaxRequest) \X Concepts
Quiz == Quizzes \cup Remedial
NoQuiz == <<>>
EventType == {"question_submitted", "missed_question_saved", "quiz_completed"}

\* _question_signature: the concept, and the question's type, prompt and difficulty.
Signature == Concepts \X (1..MaxPrompt)
NoCounts == [c \in Concepts |-> [n |-> 0, ok |-> 0]]
NoSnapshot == [count |-> NoCounts, wrong |-> {}]
Free == [pc |-> "idle", quiz |-> NoQuiz, asked |-> <<>>, graded |-> <<>>, number |-> 0,
         snap |-> NoSnapshot, loaded |-> <<>>, request |-> 0, todo |-> <<>>, prior |-> {},
         prompts |-> {}, list |-> <<>>]

Init ==
    /\ session = [q \in Quiz |-> IF q \in Quizzes THEN Asks[q] ELSE <<>>]
    /\ results = [q \in Quiz |-> <<>>]
    /\ snapshot = NoSnapshot
    /\ history = <<>>
    /\ attempts = <<>>
    /\ events = [e \in EventType |-> 0]
    /\ table = NoCounts
    /\ advice = {}
    /\ proc = [c \in Clients |-> Free]
    /\ requests = 0
    /\ serial = TRUE
    /\ kills = 0

Start(c, p) ==
    /\ proc[c].pc = "idle"
    /\ requests < MaxRequest
    /\ requests' = requests + 1
    /\ serial' = (serial /\ \A d \in Clients : proc[d].pc = "idle")
    /\ proc' = [proc EXCEPT ![c] = p]

GoOn(c, pc) == proc' = [proc EXCEPT ![c].pc = pc]
Return(c) == proc' = [proc EXCEPT ![c] = Free]
Report(e) == events' = [events EXCEPT ![e] = @ + 1]

-----------------------------------------------------------------------------
\* Grading.

\* update_mastery: the running average is kept as the two counts it is made of.  (The
\* code rounds it to four digits at every answer; no property depends on it.)
UpdateMastery(snap, c, correct) ==
    [count |-> [snap.count EXCEPT ![c] = [n |-> @.n + 1,
                                          ok |-> @.ok + (IF correct THEN 1 ELSE 0)]],
     wrong |-> IF correct THEN snap.wrong \ {c} ELSE snap.wrong \cup {c}]

\* The session and the snapshot are read once, before the first answer is graded.
Grade(c, q) ==
    /\ session[q] # <<>>
    /\ Start(c, [Free EXCEPT !.pc = "count", !.quiz = q, !.asked = session[q],
                             !.snap = snapshot])
    /\ UNCHANGED <<files, rows, kills>>

\* record_question_attempt: number the attempt after those there are, then insert it.
CountAttempts(c) ==
    LET p == proc[c]
        earlier == {i \in 1..Len(attempts) : attempts[i].quiz = p.quiz
                                          /\ attempts[i].index = Len(p.graded) + 1}
    IN
    /\ p.pc = "count"
    /\ \E correct \in BOOLEAN :
           proc' = [proc EXCEPT ![c].pc = "insert",
                                ![c].graded = Append(@, correct),
                                ![c].number = Cardinality(earlier) + 1]
    /\ UNCHANGED <<files, rows, requests, serial, kills>>

\* Remediation questions carry no course, and their attempts an empty one.
Row(p, correct) ==
    [quiz |-> p.quiz, index |-> Len(p.graded), concept |-> p.asked[Len(p.graded)],
     correct |-> correct, number |-> p.number, course |-> p.quiz \in Quizzes]

\* Mutant: an attempt replaces the earlier ones on the same question.
ReplaceAttempt(c) ==
    LET p == proc[c]
        i == Len(p.graded)
        Other(r) == r.quiz # p.quiz \/ r.index # i
    IN
    /\ p.pc = "insert"
    /\ attempts' = Append(SelectSeq(attempts, Other),
                          Row(p, p.graded[i]))
    /\ GoOn(c, "event")
    /\ UNCHANGED <<files, events, table, advice, requests, serial, kills>>

\* Mutant: only misses are inserted.
InsertMiss(c) ==
    LET p == proc[c]
        i == Len(p.graded)
    IN
    /\ p.pc = "insert"
    /\ attempts' = IF p.graded[i] THEN attempts
                   ELSE Append(attempts, Row(p, FALSE))
    /\ GoOn(c, "event")
    /\ UNCHANGED <<files, events, table, advice, requests, serial, kills>>

InsertAttempt(c) ==
    LET p == proc[c] IN
    /\ p.pc = "insert"
    /\ attempts' = Append(attempts, Row(p, p.graded[Len(p.graded)]))
    /\ GoOn(c, "event")
    /\ UNCHANGED <<files, events, table, advice, requests, serial, kills>>

\* The events of an answer, then its share of the mastery, in memory.
RecordAnswer(c) ==
    LET p == proc[c]
        i == Len(p.graded)
    IN
    /\ p.pc = "event"
    /\ events' = [events EXCEPT !["question_submitted"] = @ + 1,
                                !["missed_question_saved"] = @ + (IF p.graded[i] THEN 0 ELSE 1)]
    /\ proc' = [proc EXCEPT ![c].pc = IF i < Len(p.asked) THEN "count" ELSE "save_snapshot",
                            ![c].snap = UpdateMastery(@, p.asked[i], p.graded[i])]
    /\ UNCHANGED <<files, attempts, table, advice, requests, serial, kills>>

SaveSnapshot(c) ==
    /\ proc[c].pc = "save_snapshot"
    /\ snapshot' = proc[c].snap
    /\ GoOn(c, "save_results")
    /\ UNCHANGED <<session, results, history, rows, requests, serial, kills>>

SaveResults(c) ==
    /\ proc[c].pc = "save_results"
    /\ results' = [results EXCEPT ![proc[c].quiz] = proc[c].graded]
    /\ GoOn(c, "complete")
    /\ UNCHANGED <<session, snapshot, history, rows, requests, serial, kills>>

CompleteQuiz(c) ==
    /\ proc[c].pc = "complete"
    /\ Report("quiz_completed")
    /\ Return(c)
    /\ UNCHANGED <<files, attempts, table, advice, requests, serial, kills>>

-----------------------------------------------------------------------------
\* Deleting a quiz: the session, then the results.

DeleteQuiz(c, q) ==
    /\ session[q] # <<>> \/ results[q] # <<>>
    /\ session' = [session EXCEPT ![q] = <<>>]
    /\ Start(c, [Free EXCEPT !.pc = "unlink_results", !.quiz = q])
    /\ UNCHANGED <<results, snapshot, history, rows, kills>>

UnlinkResults(c) ==
    /\ proc[c].pc = "unlink_results"
    /\ results' = [results EXCEPT ![proc[c].quiz] = <<>>]
    /\ Return(c)
    /\ UNCHANGED <<session, snapshot, history, rows, requests, serial, kills>>

-----------------------------------------------------------------------------
\* Analytics: load the attempts, aggregate them, replace the tables.

About(s, c) == {i \in 1..Len(s) : s[i].concept = c}
Correct(s, c) == {i \in About(s, c) : s[i].correct}
Tally(s) == [c \in Concepts |-> [n |-> Cardinality(About(s, c)),
                                 ok |-> Cardinality(Correct(s, c))]]

\* Mutant: the attempts of every course.
OfAnyCourse(s) == 1..Len(s)

\* The attempts selected for the course, by concept.
OfCourse(s) == {i \in 1..Len(s) : s[i].course}
Aggregate(s) == [c \in Concepts |-> [n |-> Cardinality(About(s, c) \cap OfCourse(s)),
                                     ok |-> Cardinality(Correct(s, c) \cap OfCourse(s))]]

\* attempts >= 2 and (accuracy < 0.75 or repeat_misses >= 2)
Weak(t) == {c \in Concepts : t[c].n >= 2 /\ (4 * t[c].ok < 3 * t[c].n \/ t[c].n - t[c].ok >= 2)}

Refresh(c) ==
    /\ Start(c, [Free EXCEPT !.pc = "store_table", !.loaded = attempts])
    /\ UNCHANGED <<files, rows, kills>>

\* One transaction replaces the mastery tables and drops the advice no longer given.
StoreTable(c) ==
    /\ proc[c].pc = "store_table"
    /\ table' = Aggregate(proc[c].loaded)
    /\ advice' = Weak(Aggregate(proc[c].loaded))
    /\ Return(c)
    /\ UNCHANGED <<files, attempts, events, requests, serial, kills>>

-----------------------------------------------------------------------------
\* Remediation on the concepts a request names, or on the wrong ones if it names none,
\* with questions the retry history does not have yet.

RangeOf(s) == {s[i] : i \in 1..Len(s)}
Prior == UNION {e.prompts : e \in RangeOf(history)}
Named == UNION {[1..n -> Concepts] : n \in 1..MaxNamed}

\* The history is read once, before the first concept.
Remediate(c, named) ==
    /\ Start(c, [Free EXCEPT !.pc = "concept", !.request = requests + 1, !.todo = named,
                             !.prior = Prior])
    /\ UNCHANGED <<files, rows, kills>>

\* On to the next concept; after the last one the request returns, with an error if no
\* question came out.
NextConcept(c) ==
    LET p == proc[c] IN
    proc' = [proc EXCEPT ![c] = IF Len(p.todo) = 1 THEN Free
                                ELSE [Free EXCEPT !.pc = "concept", !.request = p.request,
                                                  !.todo = Tail(p.todo), !.prior = p.prior]]

\* Nothing is retrieved for a concept, or no new question comes out of the tries.
SkipConcept(c) ==
    /\ proc[c].pc = "concept"
    /\ NextConcept(c)
    /\ UNCHANGED <<files, rows, requests, serial, kills>>

\* Questions on a wrong concept are modelled on those the stored quizzes ask about it;
\* which come out of the tries is a choice.  They differ from each other and from what
\* the history had, but not from those of a concept named earlier in the request.
BuildQuestions(c) ==
    LET p == proc[c]
        concept == Head(p.todo)
    IN
    /\ p.pc = "concept"
    /\ concept \in snapshot.wrong
    /\ \E q \in Quiz : \E i \in 1..Len(session[q]) : session[q][i] = concept
    /\ \E new \in SUBSET (({concept} \X (1..MaxPrompt)) \ p.prior) :
           /\ new # {}
           /\ proc' = [proc EXCEPT ![c].pc = "list_history",
                                   ![c].quiz = <<p.request, concept>>,
                                   ![c].asked = [i \in 1..Cardinality(new) |-> concept],
                                   ![c].prompts = new]
    /\ UNCHANGED <<files, rows, requests, serial, kills>>

\* save_retry_history lists the file again and writes it back with the entry.
ListHistory(c) ==
    /\ proc[c].pc = "list_history"
    /\ proc' = [proc EXCEPT ![c].pc = "write_history", ![c].list = history]
    /\ UNCHANGED <<files, rows, requests, serial, kills>>

\* Mutant: the file is written with the new entry alone.
WriteEntry(c) ==
    LET p == proc[c] IN
    /\ p.pc = "write_history"
    /\ history' = <<[quiz |-> p.quiz, prompts |-> p.prompts]>>
    /\ GoOn(c, "save_session")
    /\ UNCHANGED <<session, results, snapshot, rows, requests, serial, kills>>

WriteHistory(c) ==
    LET p == proc[c] IN
    /\ p.pc = "write_history"
    /\ history' = Append(p.list, [quiz |-> p.quiz, prompts |-> p.prompts])
    /\ GoOn(c, "save_session")
    /\ UNCHANGED <<session, results, snapshot, rows, requests, serial, kills>>

\* A concept named twice has one quiz, which the later questions replace.
SaveSession(c) ==
    /\ proc[c].pc = "save_session"
    /\ session' = [session EXCEPT ![proc[c].quiz] = proc[c].asked]
    /\ NextConcept(c)
    /\ UNCHANGED <<results, snapshot, history, rows, requests, serial, kills>>

-----------------------------------------------------------------------------
Kill ==
    /\ kills < MaxKill
    /\ \E c \in Clients : proc[c].pc # "idle"
    /\ kills' = kills + 1
    /\ serial' = FALSE
    /\ proc' = [c \in Clients |-> Free]
    /\ UNCHANGED <<files, rows, requests>>

Step(c) ==
    \/ CountAttempts(c) \/ InsertAttempt(c) \/ RecordAnswer(c)
    \/ SaveSnapshot(c) \/ SaveResults(c) \/ CompleteQuiz(c)
    \/ UnlinkResults(c) \/ StoreTable(c)
    \/ SkipConcept(c) \/ BuildQuestions(c)
    \/ ListHistory(c) \/ WriteHistory(c) \/ SaveSession(c)

Next ==
    \/ \E c \in Clients :
           \/ \E q \in Quiz : Grade(c, q) \/ DeleteQuiz(c, q)
           \/ Refresh(c)
           \/ \E named \in Named : Remediate(c, named)
           \/ Step(c)
    \/ Kill

Spec == Init /\ [][Next]_vars

-----------------------------------------------------------------------------
Quiet == \A c \in Clients : proc[c].pc = "idle"

\* The snapshot never counts an answer that was not recorded as an attempt, however
\* gradings overlap (each works on a copy and overwrites the other's).
MasteryIsAttempted ==
    \A c \in Concepts :
        /\ snapshot.count[c].n <= Tally(attempts)[c].n
        /\ snapshot.count[c].ok <= Tally(attempts)[c].ok

\* The stored results of a quiz are answers that were recorded as attempts on it.
ResultsAreAttempted ==
    \A q \in Quiz : \A i \in 1..Len(results[q]) :
        \E k \in 1..Len(attempts) :
            attempts[k].quiz = q /\ attempts[k].index = i /\ attempts[k].correct = results[q][i]

\* The analytics tables and the advice are those of one moment in the past: refreshes
\* that overtake each other or a grading never mix two moments.  They count the answers
\* to the quizzes generated before, and none that was given in a remediation.
TableIsOfOneMoment ==
    \E k \in 0..Len(attempts) :
        /\ \A c \in Concepts :
               LET given == {i \in 1..k : attempts[i].concept = c /\ attempts[i].quiz \in Quizzes}
               IN  /\ table[c].n = Cardinality(given)
                   /\ table[c].ok = Cardinality({i \in given : attempts[i].correct})
        /\ advice = Weak(table)

\* As long as requests came one at a time and none was cut short, nothing is lost: the
\* snapshot has every attempt, attempts are numbered without gap or repetition, each
\* has its event, every remediation quiz has its entry, and no two quizzes were given
\* the same question (a request that names a concept twice gives one quiz, twice).
SerialPracticeIsExact ==
    serial =>
        /\ Quiet => snapshot.count = Tally(attempts)
        /\ \A i, j \in 1..Len(attempts) :
               i < j /\ attempts[i].quiz = attempts[j].quiz /\ attempts[i].index = attempts[j].index
                   => attempts[i].number < attempts[j].number
        /\ Quiet => events["question_submitted"] = Len(attempts)
        /\ \A i, j \in 1..Len(history) :
               history[i].quiz # history[j].quiz => history[i].prompts \cap history[j].prompts = {}
        /\ \A q \in Remedial : session[q] # <<>> => \E e \in RangeOf(history) : e.quiz = q
=============================================================================
